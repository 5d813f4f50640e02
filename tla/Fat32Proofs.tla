---------------------------- MODULE Fat32Proofs ----------------------------
(***************************************************************************)
(* The file system keeps its tree: chains of clusters stay apart, every    *)
(* cluster is accounted for, files have the clusters their sizes promise   *)
(* and open files find their directory entries.  And it keeps its files:   *)
(* a write stays in place, and by path the volume is a FileStore.  All     *)
(* this for any number of clusters, paths, handles and sizes.              *)
(***************************************************************************)
EXTENDS Fat32, FiniteSetTheorems, SequenceLemmas

\* The root is a cluster; free (0) and end of chain are not cluster numbers.
LEMMA ClusterFacts ==
  /\ Root \in Cluster /\ Eoc \notin Cluster /\ 0 \notin Cluster /\ Eoc # 0
  /\ Cluster \subseteq Nat /\ MaxClusters \in Nat /\ Entries \in Nat /\ Offset \subseteq Nat
BY EntriesAssumption, CellsAssumption DEF Cluster, Root, Eoc, MaxClusters, Offset

(***************************************************************************)
(* Chains                                                                  *)
(***************************************************************************)
Once(s) == \A i, j \in 1..Len(s) : s[i] = s[j] => i = j

\* s is the chain of the FAT f from cluster a on, to its end.
IsChain(f, a, s) ==
  /\ s \in Seq(Cluster) /\ Len(s) > 0 /\ s[1] = a /\ Once(s)
  /\ \A i \in 1..(Len(s) - 1) : f[s[i]] = s[i + 1]
  /\ f[s[Len(s)]] = Eoc

\* A list of clusters without repetition is shorter than the table.
LEMMA ShortEnough ==
  ASSUME NEW s \in Seq(Cluster), Once(s)
  PROVE  Len(s) \in Nat /\ Len(s) < Entries
<1>1. Len(s) \in Nat /\ s \in [1..Len(s) -> Cluster]
  OBVIOUS
<1>2. IsFiniteSet(Cluster) /\ Cardinality(Cluster) = Entries - 2
  <2>1. 2 \in Int /\ Entries - 1 \in Int /\ ~(2 > Entries - 1)
    BY EntriesAssumption
  <2>2. IsFiniteSet(2..(Entries - 1)) /\ Cardinality(2..(Entries - 1)) = (Entries - 1) - 2 + 1
    BY <2>1, FS_Interval
  <2> QED BY <2>2, EntriesAssumption DEF Cluster
<1>3. s \in Injection(1..Len(s), Cluster)
  BY <1>1 DEF Once, Injection, IsInjective
<1>4. Cardinality(1..Len(s)) <= Cardinality(Cluster)
  BY <1>2, <1>3, FS_Injection
<1>5. Cardinality(1..Len(s)) = IF 1 > Len(s) THEN 0 ELSE Len(s) - 1 + 1
  BY <1>1, FS_Interval
<1> QED BY <1>1, <1>2, <1>4, <1>5, EntriesAssumption

\* Following the FAT finds the chain.
LEMMA ChainIs ==
  ASSUME NEW f, NEW a, NEW s, IsChain(f, a, s)
  PROVE  Chain(f, a) = s
<1> DEFINE n == Entries
           Q == [Cluster -> Seq(Cluster)]
           base == [c \in Cluster |-> <<c>>]
           Step(w) == [c \in Cluster |-> IF f[c] \in Cluster THEN <<c>> \o w[f[c]] ELSE <<c>>]
           walk == CHOOSE g : g = [k \in 0..n |->
                      [c \in Cluster |-> IF f[c] \in Cluster /\ k > 0
                                         THEN <<c>> \o g[k - 1][f[c]] ELSE <<c>>]]
           next_ == [k \in 1..n |-> [w \in Q |-> Step(w)]]
<1>1. /\ s \in Seq(Cluster) /\ Len(s) \in Nat /\ Len(s) > 0 /\ Len(s) < n /\ n \in Nat
      /\ a = s[1] /\ a \in Cluster
  BY ShortEnough, EntriesAssumption DEF IsChain
<1>2. base \in Q /\ \A w \in Q : Step(w) \in Q
  OBVIOUS
<1>3. Chain(f, a) = walk[n][a]
  BY DEF Chain
<1>4. PICK g : StepsFrom(g, base, n, Q, next_)
  <2> HIDE DEF Step, Q, base
  <2>1. next_ \in [1..n -> [Q -> Q]]
    BY <1>2
  <2> HIDE DEF next_
  <2> QED BY <1>1, <1>2, <2>1, RecursionExists
<1>5. g \in [0..n -> Q] /\ g[0] = base /\ \A k \in 1..n : g[k] = Step(g[k - 1])
  <2> HIDE DEF Step, Q, base
  <2>1. \A k \in 1..n : g[k - 1] \in Q
    BY <1>1, <1>4 DEF StepsFrom
  <2> QED BY <1>4, <2>1 DEF StepsFrom
<1>6. \A k \in 0..n : g[k] = [c \in Cluster |-> IF f[c] \in Cluster /\ k > 0
                                               THEN <<c>> \o g[k - 1][f[c]] ELSE <<c>>]
  <2> TAKE k \in 0..n
  <2>1. CASE k = 0
    BY <1>5, <2>1
  <2>2. CASE k # 0
    <3>1. k \in 1..n /\ k > 0
      BY <1>1, <2>2
    <3>2. g[k] = Step(g[k - 1])
      BY <1>5, <3>1, Zenon
    <3> QED BY <3>1, <3>2
  <2> QED BY <2>1, <2>2
<1>7. walk = [k \in 0..n |-> [c \in Cluster |-> IF f[c] \in Cluster /\ k > 0
                                               THEN <<c>> \o walk[k - 1][f[c]] ELSE <<c>>]]
  <2>1. g = [k \in 0..n |-> [c \in Cluster |-> IF f[c] \in Cluster /\ k > 0
                                               THEN <<c>> \o g[k - 1][f[c]] ELSE <<c>>]]
    <3> HIDE DEF Q
    <3> QED BY <1>5, <1>6
  <2> QED BY <2>1, Zenon
<1> HIDE DEF walk, n
<1> DEFINE rest(j) == SubSeq(s, j, Len(s))
           Good == {k \in 0..n : \A j \in 1..Len(s) : Len(s) - j <= k => walk[k][s[j]] = rest(j)}
<1>8. \A j \in 1..Len(s) : s[j] \in Cluster
  BY <1>1, ElementOfSeq
\* The chain ends where the FAT says so.
<1>9. ASSUME NEW k \in 0..n PROVE walk[k][s[Len(s)]] = rest(Len(s))
  <2>1. f[s[Len(s)]] \notin Cluster
    BY ClusterFacts DEF IsChain
  <2>2. s[Len(s)] \in Cluster
    BY <1>1, <1>8
  <2>3. walk[k][s[Len(s)]] = <<s[Len(s)]>>
    BY <1>7, <2>1, <2>2
  <2>4. rest(Len(s)) = <<s[Len(s)]>> \o SubSeq(s, Len(s) + 1, Len(s))
    BY <1>1, SubSeqRecursiveFirst
  <2>5. SubSeq(s, Len(s) + 1, Len(s)) = <<>>
    BY <1>1, SubSeqEmpty
  <2>6. <<s[Len(s)]>> \in Seq(Cluster)
    BY <2>2
  <2>7. <<s[Len(s)]>> \o <<>> = <<s[Len(s)]>>
    BY <2>6, ConcatEmptySeq
  <2> QED BY <2>3, <2>4, <2>5, <2>7
<1>10. 0 \in Good
  <2>1. 0 \in 0..n
    BY <1>1
  <2>2. \A j \in 1..Len(s) : Len(s) - j <= 0 => j = Len(s)
    BY <1>1
  <2> HIDE DEF rest
  <2> QED BY <1>9, <2>1, <2>2
<1>11. ASSUME NEW k \in 0..(n - 1), k \in Good
       PROVE  k + 1 \in Good
  <2>1. k + 1 \in 0..n /\ k + 1 > 0 /\ (k + 1) - 1 = k /\ k \in Nat
    BY <1>1
  <2>2. ASSUME NEW j \in 1..Len(s), Len(s) - j <= k + 1, j # Len(s)
        PROVE  walk[k + 1][s[j]] = rest(j)
    <3>1. j + 1 \in 1..Len(s) /\ Len(s) - (j + 1) <= k /\ j \in 1..(Len(s) - 1)
      BY <1>1, <2>1, <2>2
    <3>2. walk[k][s[j + 1]] = rest(j + 1)
      <4> HIDE DEF rest
      <4> QED BY <1>11, <3>1
    <3>3. f[s[j]] = s[j + 1] /\ s[j + 1] \in Cluster /\ s[j] \in Cluster
      BY <1>8, <3>1 DEF IsChain
    <3>4. walk[k + 1][s[j]] = <<s[j]>> \o walk[k][s[j + 1]]
      <4>1. PICK m \in 0..n : m = k + 1
        BY <2>1
      <4>2. walk[m] = [c \in Cluster |-> IF f[c] \in Cluster /\ m > 0
                                        THEN <<c>> \o walk[m - 1][f[c]] ELSE <<c>>]
        BY <1>7
      <4>3. m > 0 /\ m - 1 = k
        BY <2>1, <4>1
      <4>4. walk[m][s[j]] = <<s[j]>> \o walk[m - 1][s[j + 1]]
        BY <3>3, <4>2, <4>3
      <4> QED BY <4>1, <4>3, <4>4
    <3>5. rest(j) = <<s[j]>> \o rest(j + 1)
      BY <1>1, <3>1, SubSeqRecursiveFirst
    <3> QED BY <3>2, <3>4, <3>5
  <2> HIDE DEF rest
  <2> QED BY <1>9, <2>1, <2>2
<1> HIDE DEF Good
<1>12. \A k \in 0..n : k \in Good
  BY <1>1, <1>10, <1>11, IntervalInduction
<1>13. n \in Good /\ 1 \in 1..Len(s) /\ Len(s) - 1 <= n
  BY <1>1, <1>12
<1>14. walk[n][s[1]] = rest(1)
  <2> HIDE DEF rest
  <2> QED BY <1>13 DEF Good
<1> QED BY <1>1, <1>3, <1>14, SubSeqFull

\* The clusters handed out are free and distinct.
LEMMA FreeClusters ==
  ASSUME NEW f
  PROVE  /\ FreeInOrder(f) \in Seq(Cluster) /\ Once(FreeInOrder(f))
         /\ \A i \in 1..Len(FreeInOrder(f)) : f[FreeInOrder(f)[i]] = 0
<1> DEFINE n == MaxClusters
           Q == {s \in Seq(Cluster) : \A i \in 1..Len(s) : f[s[i]] = 0}
           Step(w, c) == IF c \in Cluster /\ f[c] = 0 THEN Append(w, c) ELSE w
           upTo == CHOOSE g : g = [c \in 0..n |-> IF c = 0 THEN <<>>
                                     ELSE IF c \in Cluster /\ f[c] = 0 THEN Append(g[c - 1], c)
                                     ELSE g[c - 1]]
           next_ == [c \in 1..n |-> [w \in Q |-> Step(w, c)]]
<1>1. n \in Nat
  BY ClusterFacts
<1>2. FreeInOrder(f) = upTo[n]
  BY DEF FreeInOrder
<1>3. \A w \in Q, c \in 1..n : Step(w, c) \in Q
  <2> SUFFICES ASSUME NEW w \in Q, NEW c \in 1..n, c \in Cluster, f[c] = 0
               PROVE  Append(w, c) \in Q
    OBVIOUS
  <2>1. /\ Append(w, c) \in Seq(Cluster) /\ Len(Append(w, c)) = Len(w) + 1
        /\ \A i \in 1..(Len(w) + 1) : Append(w, c)[i] = IF i <= Len(w) THEN w[i] ELSE c
    OBVIOUS
  <2>2. \A i \in 1..Len(Append(w, c)) : f[Append(w, c)[i]] = 0
    <3> TAKE i \in 1..Len(Append(w, c))
    <3>1. CASE i <= Len(w)
      BY <2>1, <3>1
    <3>2. CASE i > Len(w)
      BY <2>1, <3>2
    <3> QED BY <2>1, <3>1, <3>2
  <2> QED BY <2>1, <2>2
<1>4. <<>> \in Q
  OBVIOUS
<1>5. next_ \in [1..n -> [Q -> Q]]
  <2> HIDE DEF Q, Step
  <2> QED BY <1>3
<1>6. PICK g : StepsFrom(g, <<>>, n, Q, next_)
  <2> HIDE DEF Q, Step, n, next_
  <2> QED BY <1>1, <1>4, <1>5, RecursionExists
<1>7. g \in [0..n -> Q] /\ g[0] = <<>> /\ \A c \in 1..n : g[c] = Step(g[c - 1], c)
  <2> HIDE DEF Q, Step
  <2>1. \A c \in 1..n : g[c - 1] \in Q
    BY <1>1, <1>6 DEF StepsFrom
  <2> QED BY <1>6, <2>1 DEF StepsFrom
<1>8. g = [c \in 0..n |-> IF c = 0 THEN <<>>
                          ELSE IF c \in Cluster /\ f[c] = 0 THEN Append(g[c - 1], c)
                          ELSE g[c - 1]]
  <2>1. \A c \in 0..n : g[c] = IF c = 0 THEN <<>>
                          ELSE IF c \in Cluster /\ f[c] = 0 THEN Append(g[c - 1], c)
                          ELSE g[c - 1]
    <3> HIDE DEF Q
    <3> TAKE c \in 0..n
    <3>1. CASE c = 0
      BY <1>7, <3>1
    <3>2. CASE c # 0
      <4>1. c \in 1..n
        BY <1>1, <3>2
      <4> QED BY <1>7, <3>2, <4>1, Zenon DEF Step
    <3> QED BY <3>1, <3>2
  <2> HIDE DEF Q
  <2> QED BY <1>7, <2>1
<1>9. upTo = [c \in 0..n |-> IF c = 0 THEN <<>>
                          ELSE IF c \in Cluster /\ f[c] = 0 THEN Append(upTo[c - 1], c)
                          ELSE upTo[c - 1]]
  BY <1>8, Zenon
<1> HIDE DEF upTo, n
<1> DEFINE Good == {c \in 0..n : /\ upTo[c] \in Q
                                 /\ \A i \in 1..Len(upTo[c]) : upTo[c][i] <= c
                                 /\ Once(upTo[c])}
<1>10. 0 \in Good
  <2>1. upTo[0] = <<>> /\ 0 \in 0..n
    BY <1>1, <1>9
  <2>2. \A i \in 1..Len(upTo[0]) : upTo[0][i] <= 0
    BY <2>1
  <2>3. Once(upTo[0])
    BY <2>1 DEF Once
  <2> HIDE DEF Q
  <2> QED BY <1>4, <2>1, <2>2, <2>3
<1>11. ASSUME NEW k \in 0..(n - 1), k \in Good
       PROVE  k + 1 \in Good
  <2>1. k + 1 \in 0..n /\ k + 1 # 0 /\ (k + 1) - 1 = k /\ k \in Nat /\ k + 1 \in 1..n
    BY <1>1
  <2>2. upTo[k + 1] = Step(upTo[k], k + 1)
    BY <1>9, <2>1
  <2>3. PICK w : w = upTo[k]
    OBVIOUS
  <2>4. w \in Q /\ Once(w) /\ Len(w) \in Nat /\ \A i \in 1..Len(w) : w[i] <= k
    BY <1>11, <2>3
  <2>5. \A i \in 1..Len(w) : w[i] \in Nat
    <3>1. w \in Seq(Cluster)
      BY <2>4
    <3>2. \A i \in 1..Len(w) : w[i] \in Cluster
      BY <3>1, ElementOfSeq
    <3> QED BY <3>2, ClusterFacts
  <2>6. Step(w, k + 1) \in Q
    BY <1>3, <2>1, <2>4
  <2>7. CASE k + 1 \in Cluster /\ f[k + 1] = 0
    <3>1. PICK v : v = Append(w, k + 1)
      OBVIOUS
    <3>2. v \in Q /\ upTo[k + 1] = v
      BY <2>2, <2>3, <2>6, <2>7, <3>1
    <3>3. Len(v) = Len(w) + 1 /\ \A i \in 1..Len(v) : v[i] = IF i <= Len(w) THEN w[i] ELSE k + 1
      BY <2>4, <2>7, <3>1
    <3>4. \A i \in 1..Len(v) : v[i] <= k + 1
      BY <2>1, <2>4, <2>5, <3>3
    <3>5. Once(v)
      <4> SUFFICES ASSUME NEW i \in 1..Len(v), NEW j \in 1..Len(v), v[i] = v[j], i < j PROVE FALSE
        BY <2>4, <3>3 DEF Once
      <4>1. CASE j <= Len(w)
        BY <2>4, <3>3, <4>1 DEF Once
      <4>2. CASE j > Len(w)
        <5>1. v[j] = k + 1 /\ i <= Len(w) /\ v[i] = w[i]
          BY <2>4, <3>3, <4>2
        <5>2. w[i] <= k /\ w[i] \in Nat
          BY <2>4, <2>5, <5>1
        <5> QED BY <2>1, <5>1, <5>2
      <4> QED BY <2>4, <3>3, <4>1, <4>2
    <3> HIDE DEF Q
    <3> QED BY <2>1, <3>2, <3>4, <3>5
  <2>8. CASE ~ (k + 1 \in Cluster /\ f[k + 1] = 0)
    <3>1. upTo[k + 1] = w
      BY <2>2, <2>3, <2>8
    <3>2. \A i \in 1..Len(w) : w[i] <= k + 1
      BY <2>1, <2>4, <2>5
    <3> HIDE DEF Q
    <3> QED BY <2>1, <2>4, <3>1, <3>2
  <2> QED BY <2>7, <2>8
<1> HIDE DEF Good
<1>12. \A k \in 0..n : k \in Good
  BY <1>1, <1>10, <1>11, IntervalInduction
<1>13. n \in Good
  BY <1>1, <1>12
<1> QED BY <1>2, <1>13 DEF Good

(***************************************************************************)
(* Layout(f, ch): ch gives the chain of each first cluster and the empty   *)
(* sequence for the other clusters; chains do not meet, and every cluster  *)
(* that is not free is in one.                                             *)
(***************************************************************************)
FatEntry == {0} \cup Cluster \cup {Eoc}

Chains(ch) == ch \in [Cluster -> Seq(Cluster)]

Follow(f, ch) == \A a \in Cluster : ch[a] # <<>> => IsChain(f, a, ch[a])

Apart(ch) ==
  \A a, b \in Cluster : \A i \in 1..Len(ch[a]), j \in 1..Len(ch[b]) : ch[a][i] = ch[b][j] => a = b

InChain(ch, a, c) == \E i \in 1..Len(ch[a]) : ch[a][i] = c

Covered(f, ch) == \A c \in Cluster : f[c] # 0 => \E a \in Cluster : InChain(ch, a, c)

Layout(f, ch) ==
  f \in [Cluster -> FatEntry] /\ Chains(ch) /\ Follow(f, ch) /\ Apart(ch) /\ Covered(f, ch)

\* In a layout, the walk along the table from a first cluster is its chain.
LEMMA ChainFacts ==
  ASSUME NEW f, NEW ch, Layout(f, ch), NEW a \in Cluster
  PROVE  /\ ch[a] \in Seq(Cluster) /\ Len(ch[a]) \in Nat
         /\ ch[a] # <<>> => IsChain(f, a, ch[a]) /\ Chain(f, a) = ch[a] /\ Len(ch[a]) > 0 /\ ch[a][1] = a
         /\ \A c : InChain(ch, a, c) => c \in Cluster /\ f[c] # 0
<1>1. ch[a] \in Seq(Cluster) /\ Len(ch[a]) \in Nat
  BY DEF Layout, Chains
<1>2. ch[a] # <<>> => IsChain(f, a, ch[a])
  BY DEF Layout, Follow
<1>3. ASSUME ch[a] # <<>> PROVE Chain(f, a) = ch[a] /\ Len(ch[a]) > 0 /\ ch[a][1] = a
  <2>1. Chain(f, a) = ch[a]
    BY <1>2, <1>3, ChainIs
  <2> QED BY <1>2, <1>3, <2>1 DEF IsChain
<1>4. ASSUME NEW c, InChain(ch, a, c) PROVE c \in Cluster /\ f[c] # 0
  <2>1. PICK i \in 1..Len(ch[a]) : ch[a][i] = c
    BY <1>4 DEF InChain
  <2>2. c \in Cluster /\ ch[a] # <<>>
    BY <1>1, <2>1
  <2>3. CASE i < Len(ch[a])
    <3>1. f[c] = ch[a][i + 1] /\ i + 1 \in 1..Len(ch[a])
      BY <1>1, <1>2, <2>1, <2>2, <2>3 DEF IsChain
    <3> QED BY <1>1, <2>2, <3>1, ClusterFacts
  <2>4. CASE i = Len(ch[a])
    BY <1>2, <2>1, <2>2, <2>4, ClusterFacts DEF IsChain
  <2> QED BY <1>1, <2>1, <2>2, <2>3, <2>4
<1> QED BY <1>1, <1>2, <1>3, <1>4

(***************************************************************************)
(* What allocation, growth, truncation and removal have in common: the     *)
(* chain of a becomes s, made of clusters of its own and of free ones, and *)
(* the clusters it loses become free.                                      *)
(***************************************************************************)
Rewired(f, ch, a, s, g) ==
  /\ g \in [Cluster -> FatEntry]
  /\ s \in Seq(Cluster) /\ Once(s) /\ (s # <<>> => s[1] = a)
  /\ \A i \in 1..Len(s) : f[s[i]] = 0 \/ InChain(ch, a, s[i])
  /\ \A i \in 1..(Len(s) - 1) : g[s[i]] = s[i + 1]
  /\ s # <<>> => g[s[Len(s)]] = Eoc
  /\ \A c \in Cluster : (\A i \in 1..Len(s) : s[i] # c) =>
        g[c] = IF InChain(ch, a, c) THEN 0 ELSE f[c]

\* Rewiring one chain over its own and free clusters keeps the layout.
LEMMA RewiredLayout ==
  ASSUME NEW f, NEW ch, Layout(f, ch), NEW a \in Cluster, NEW s, NEW g, Rewired(f, ch, a, s, g)
  PROVE  Layout(g, [ch EXCEPT ![a] = s])
<1> DEFINE new == [ch EXCEPT ![a] = s]
<1>1. s \in Seq(Cluster) /\ Len(s) \in Nat /\ \A i \in 1..Len(s) : s[i] \in Cluster
  <2>1. s \in Seq(Cluster)
    BY DEF Rewired
  <2> QED BY <2>1, ElementOfSeq
<1>2. /\ new \in [Cluster -> Seq(Cluster)] /\ new[a] = s
      /\ \A b \in Cluster : b # a => new[b] = ch[b]
  BY <1>1 DEF Layout, Chains
<1>3. ch \in [Cluster -> Seq(Cluster)] /\ \A b \in Cluster : Len(ch[b]) \in Nat
  BY DEF Layout, Chains
<1> HIDE DEF new
\* A cluster of another chain is not touched.
<1>4. ASSUME NEW b \in Cluster, b # a, NEW c, InChain(ch, b, c)
      PROVE  g[c] = f[c] /\ ~ InChain(ch, a, c) /\ c \in Cluster /\ \A i \in 1..Len(s) : s[i] # c
  <2>1. c \in Cluster /\ f[c] # 0
    BY <1>4, ChainFacts
  <2>2. ~ InChain(ch, a, c)
    BY <1>4 DEF InChain, Layout, Apart
  <2>3. \A i \in 1..Len(s) : s[i] # c
    BY <2>1, <2>2 DEF Rewired
  <2> QED BY <2>1, <2>2, <2>3 DEF Rewired
<1>5. Follow(g, new)
  <2> SUFFICES ASSUME NEW b \in Cluster, new[b] # <<>>
               PROVE  IsChain(g, b, new[b])
    BY DEF Follow
  <2>1. CASE b = a
    <3>1. s # <<>> /\ Len(s) > 0
      BY <1>1, <1>2, <2>1
    <3>2. IsChain(g, a, s)
      BY <1>1, <3>1 DEF IsChain, Rewired
    <3> QED BY <1>2, <2>1, <3>2
  <2>2. CASE b # a
    <3>1. PICK w : w = ch[b]
      OBVIOUS
    <3>2. IsChain(f, b, w) /\ new[b] = w /\ Len(w) \in Nat
      BY <1>2, <1>3, <2>2, <3>1 DEF Layout, Follow
    <3>3. \A i \in 1..Len(w) : g[w[i]] = f[w[i]]
      <4> TAKE i \in 1..Len(w)
      <4>1. InChain(ch, b, w[i])
        BY <3>1 DEF InChain
      <4> QED BY <1>4, <2>2, <4>1
    <3>4. Len(w) \in 1..Len(w) /\ \A i \in 1..(Len(w) - 1) : i \in 1..Len(w)
      BY <3>2 DEF IsChain
    <3>5. IsChain(g, b, w)
      BY <3>2, <3>3, <3>4 DEF IsChain
    <3> QED BY <3>2, <3>5
  <2> QED BY <2>1, <2>2
<1>6. Apart(new)
  <2> SUFFICES ASSUME NEW b \in Cluster, NEW e \in Cluster, NEW i \in 1..Len(new[b]),
                      NEW j \in 1..Len(new[e]), new[b][i] = new[e][j], b # e
               PROVE  FALSE
    BY DEF Apart
  <2>1. CASE b # a /\ e # a
    BY <1>2, <2>1, ZenonT(60) DEF Layout, Apart
  <2>2. CASE b = a
    <3>1. InChain(ch, e, new[b][i]) /\ new[b][i] = s[i] /\ i \in 1..Len(s)
      BY <1>2, <2>2 DEF InChain
    <3> QED BY <1>4, <2>2, <3>1
  <2>3. CASE e = a
    <3>1. InChain(ch, b, new[b][i]) /\ new[b][i] = s[j] /\ j \in 1..Len(s)
      BY <1>2, <2>3 DEF InChain
    <3> QED BY <1>4, <2>3, <3>1
  <2> QED BY <2>1, <2>2, <2>3
<1>7. Covered(g, new)
  <2> SUFFICES ASSUME NEW c \in Cluster, g[c] # 0
               PROVE  \E b \in Cluster : InChain(new, b, c)
    BY DEF Covered
  <2>1. CASE \E i \in 1..Len(s) : s[i] = c
    BY <1>2, <2>1 DEF InChain
  <2>2. CASE \A i \in 1..Len(s) : s[i] # c
    <3>1. ~ InChain(ch, a, c) /\ f[c] # 0
      BY <2>2 DEF Rewired
    <3>2. PICK b \in Cluster : InChain(ch, b, c)
      BY <3>1 DEF Layout, Covered
    <3>3. b # a /\ new[b] = ch[b]
      BY <1>2, <3>1, <3>2
    <3> QED BY <3>2, <3>3 DEF InChain
  <2> QED BY <2>1, <2>2
<1> QED BY <1>2, <1>5, <1>6, <1>7 DEF Layout, Chains, Rewired, new

\* A free cluster belongs to no chain, and the start of a chain is not free.
LEMMA FreeIsAlone ==
  ASSUME NEW f, NEW ch, Layout(f, ch), NEW c \in Cluster, f[c] = 0
  PROVE  ch[c] = <<>> /\ \A a \in Cluster : ~ InChain(ch, a, c)
<1>1. \A a \in Cluster : ~ InChain(ch, a, c)
  BY ChainFacts
<1>2. ASSUME ch[c] # <<>> PROVE FALSE
  <2>1. Len(ch[c]) \in Nat /\ Len(ch[c]) > 0 /\ ch[c][1] = c
    BY <1>2, ChainFacts
  <2>2. InChain(ch, c, c)
    BY <2>1 DEF InChain
  <2> QED BY <1>1, <2>2
<1> QED BY <1>1, <1>2

\* Taking a free cluster rewires the empty chain at it to one cluster.
LEMMA NewRewires ==
  ASSUME NEW f, NEW ch, Layout(f, ch), NEW c \in Cluster, f[c] = 0
  PROVE  Rewired(f, ch, c, <<c>>, [f EXCEPT ![c] = Eoc])
<1>1. ch[c] = <<>> /\ \A a \in Cluster : ~ InChain(ch, a, c)
  BY FreeIsAlone
<1>2. \A e : ~ InChain(ch, c, e)
  BY <1>1 DEF InChain
<1>3. f \in [Cluster -> FatEntry]
  BY DEF Layout
<1>4. PICK g : g = [f EXCEPT ![c] = Eoc]
  OBVIOUS
<1>5. g \in [Cluster -> FatEntry] /\ g[c] = Eoc /\ \A e \in Cluster : e # c => g[e] = f[e]
  BY <1>3, <1>4 DEF FatEntry
<1>6. PICK s : s = <<c>>
  OBVIOUS
<1>7. s \in Seq(Cluster) /\ Len(s) = 1 /\ s[1] = c /\ s # <<>>
  BY <1>6
<1>8. Rewired(f, ch, c, s, g)
  BY <1>2, <1>5, <1>7 DEF Rewired, Once
<1> QED BY <1>4, <1>6, <1>8

\* The elements of a list of clusters are those at its places.
LEMMA InToSet ==
  ASSUME NEW s \in Seq(Cluster)
  PROVE  \A c : c \in ToSet(s) <=> \E i \in 1..Len(s) : s[i] = c
BY DEF ToSet

\* Releasing a chain rewires it to the empty one.
LEMMA ReleaseRewires ==
  ASSUME NEW f, NEW ch, Layout(f, ch), NEW a \in Cluster
  PROVE  Rewired(f, ch, a, <<>>, Released(f, ch[a]))
<1>1. f \in [Cluster -> FatEntry] /\ ch[a] \in Seq(Cluster)
  BY DEF Layout, Chains
<1>2. PICK g : g = Released(f, ch[a])
  OBVIOUS
<1>3. \A c \in Cluster : g[c] = IF InChain(ch, a, c) THEN 0 ELSE f[c]
  BY <1>1, <1>2, InToSet DEF Released, InChain
<1>4. g \in [Cluster -> FatEntry]
  BY <1>1, <1>2 DEF Released, FatEntry
<1>5. PICK s : s = <<>>
  OBVIOUS
<1>6. s \in Seq(Cluster) /\ Len(s) = 0
  BY <1>5
<1>7. Rewired(f, ch, a, s, g)
  BY <1>3, <1>4, <1>5, <1>6 DEF Rewired, Once
<1> QED BY <1>2, <1>5, <1>7

\* What truncation cuts off is the chain without its first cluster.
LEMMA CutRewires ==
  ASSUME NEW f, NEW ch, Layout(f, ch), NEW a \in Cluster, ch[a] # <<>>
  PROVE  Rewired(f, ch, a, <<a>>, [Released(f, Tail(ch[a])) EXCEPT ![a] = Eoc])
<1>1. /\ f \in [Cluster -> FatEntry] /\ ch[a] \in Seq(Cluster) /\ IsChain(f, a, ch[a])
      /\ Len(ch[a]) \in Nat /\ Len(ch[a]) > 0 /\ ch[a][1] = a
  BY ChainFacts DEF Layout
<1>2. PICK t : t = Tail(ch[a])
  OBVIOUS
<1>3. t \in Seq(Cluster) /\ Len(t) = Len(ch[a]) - 1 /\ \A i \in 1..Len(t) : t[i] = ch[a][i + 1]
  BY <1>1, <1>2, HeadTailProperties
<1>4. \A c \in Cluster : c # a => (c \in ToSet(t) <=> InChain(ch, a, c))
  <2> TAKE c \in Cluster
  <2> HAVE c # a
  <2>1. ASSUME c \in ToSet(t) PROVE InChain(ch, a, c)
    <3>1. PICK i \in 1..Len(t) : t[i] = c
      BY <1>3, <2>1, InToSet
    <3>2. i + 1 \in 1..Len(ch[a]) /\ ch[a][i + 1] = c
      BY <1>1, <1>3, <3>1
    <3> QED BY <3>2 DEF InChain
  <2>2. ASSUME InChain(ch, a, c) PROVE c \in ToSet(t)
    <3>1. PICK i \in 1..Len(ch[a]) : ch[a][i] = c
      BY <2>2 DEF InChain
    <3>2. i - 1 \in 1..Len(t) /\ t[i - 1] = c
      BY <1>1, <1>3, <3>1
    <3> QED BY <1>3, <3>2, InToSet
  <2> QED BY <2>1, <2>2
<1>5. PICK g : g = [Released(f, t) EXCEPT ![a] = Eoc]
  OBVIOUS
<1>6. g \in [Cluster -> FatEntry] /\ g[a] = Eoc
      /\ \A c \in Cluster : c # a => g[c] = IF InChain(ch, a, c) THEN 0 ELSE f[c]
  BY <1>1, <1>4, <1>5 DEF Released, FatEntry
<1>7. PICK s : s = <<a>>
  OBVIOUS
<1>8. s \in Seq(Cluster) /\ Len(s) = 1 /\ s[1] = a /\ s # <<>>
  BY <1>7
<1>9. InChain(ch, a, a)
  BY <1>1 DEF InChain
<1>10. Rewired(f, ch, a, s, g)
  BY <1>6, <1>8, <1>9 DEF Rewired, Once
<1> QED BY <1>2, <1>5, <1>7, <1>10

\* A chain with free clusters behind it.
LEMMA LinkRewires ==
  ASSUME NEW f, NEW ch, Layout(f, ch), NEW a \in Cluster, ch[a] # <<>>,
         NEW more \in Seq(Cluster), Once(more), \A i \in 1..Len(more) : f[more[i]] = 0
  PROVE  Rewired(f, ch, a, ch[a] \o more, Linked(f, ch[a], more))
<1>1. PICK s : s = ch[a]
  OBVIOUS
<1>2. /\ f \in [Cluster -> FatEntry] /\ s \in Seq(Cluster) /\ IsChain(f, a, s)
      /\ Len(s) \in Nat /\ Len(s) > 0 /\ s[1] = a
  BY <1>1, ChainFacts DEF Layout
<1>3. PICK w : w = s \o more
  OBVIOUS
<1>4. /\ w \in Seq(Cluster) /\ Len(w) = Len(s) + Len(more) /\ Len(more) \in Nat /\ Len(w) \in Nat
      /\ \A i \in 1..Len(w) : w[i] = IF i <= Len(s) THEN s[i] ELSE more[i - Len(s)]
  BY <1>2, <1>3, ConcatProperties
<1>5. \A i \in 1..Len(w) : w[i] \in Cluster
  BY <1>4, ElementOfSeq
<1>6. \A i \in 1..Len(s) : InChain(ch, a, w[i]) /\ f[w[i]] # 0 /\ w[i] = s[i]
  <2> TAKE i \in 1..Len(s)
  <2>1. InChain(ch, a, s[i])
    BY <1>1 DEF InChain
  <2> QED BY <1>4, <2>1, ChainFacts
<1>7. \A i \in 1..Len(w) : i > Len(s) => f[w[i]] = 0 /\ w[i] = more[i - Len(s)] /\ i - Len(s) \in 1..Len(more)
  BY <1>2, <1>4
<1>8. Once(w)
  <2> SUFFICES ASSUME NEW i \in 1..Len(w), NEW j \in 1..Len(w), w[i] = w[j]
               PROVE  i = j
    BY DEF Once
  <2>1. CASE i <= Len(s) /\ j <= Len(s)
    <3>1. i \in 1..Len(s) /\ j \in 1..Len(s) /\ Once(s)
      BY <1>2, <1>4, <2>1 DEF IsChain
    <3>2. s[i] = s[j]
      BY <1>6, <3>1
    <3> QED BY <3>1, <3>2 DEF Once
  <2>2. CASE i > Len(s) /\ j > Len(s)
    <3>1. i - Len(s) = j - Len(s)
      BY <1>7, <2>2, SMTT(30) DEF Once
    <3>2. i \in Int /\ j \in Int /\ Len(s) \in Int
      BY <1>2, <1>4
    <3> QED BY <3>1, <3>2
  <2>3. CASE i <= Len(s) /\ j > Len(s)
    BY <1>2, <1>6, <1>7, <2>3
  <2>4. CASE i > Len(s) /\ j <= Len(s)
    BY <1>2, <1>6, <1>7, <2>4
  <2> QED BY <1>2, <1>4, <2>1, <2>2, <2>3, <2>4
<1> DEFINE N(i) == IF i < Len(w) THEN w[i + 1] ELSE Eoc
           At(c) == CHOOSE i \in Len(s)..Len(w) : i > 0 /\ w[i] = c
           g == [c \in Cluster |-> IF \E i \in Len(s)..Len(w) : i > 0 /\ w[i] = c
                                   THEN N(At(c)) ELSE f[c]]
<1>9. Linked(f, s, more) = g
  BY <1>3 DEF Linked
<1>10. ASSUME NEW i \in Len(s)..Len(w) PROVE g[w[i]] = N(i)
  <2>1. i \in 1..Len(w) /\ i > 0 /\ w[i] \in Cluster
    BY <1>2, <1>4, <1>5
  <2>2. At(w[i]) \in Len(s)..Len(w) /\ w[At(w[i])] = w[i]
    BY <2>1
  <2>3. At(w[i]) \in 1..Len(w)
    BY <1>2, <1>4, <2>2
  <2>4. At(w[i]) = i
    BY <1>8, <2>1, <2>2, <2>3 DEF Once
  <2> HIDE DEF N, At
  <2> QED BY <2>1, <2>4
<1>11. ASSUME NEW c \in Cluster, \A i \in Len(s)..Len(w) : w[i] # c PROVE g[c] = f[c]
  BY <1>11
<1> HIDE DEF g
<1>12. ASSUME NEW i \in 1..(Len(w) - 1) PROVE g[w[i]] = w[i + 1]
  <2>1. CASE i >= Len(s)
    <3>1. i \in Len(s)..Len(w)
      BY <1>2, <1>4, <2>1
    <3>2. N(i) = w[i + 1]
      BY <1>4
    <3> HIDE DEF N
    <3> QED BY <1>10, <3>1, <3>2
  <2>2. CASE i < Len(s)
    <3>1. i \in 1..(Len(s) - 1) /\ i \in 1..Len(s) /\ i \in 1..Len(w) /\ i + 1 \in 1..Len(s)
      BY <1>2, <1>4, <2>2
    <3>2. f[w[i]] = w[i + 1]
      BY <1>2, <1>6, <3>1 DEF IsChain
    <3>3. \A j \in Len(s)..Len(w) : j \in 1..Len(w) /\ j # i
      BY <1>2, <1>4, <2>2
    <3>4. \A j \in Len(s)..Len(w) : w[j] # w[i]
      BY <1>8, <3>1, <3>3 DEF Once
    <3>5. g[w[i]] = f[w[i]]
      BY <1>5, <1>11, <3>1, <3>4
    <3> QED BY <3>2, <3>5
  <2> QED BY <1>2, <2>1, <2>2
<1>13. g[w[Len(w)]] = Eoc
  <2>1. Len(w) \in Len(s)..Len(w)
    BY <1>2, <1>4
  <2>2. N(Len(w)) = Eoc
    BY <1>4
  <2> HIDE DEF N
  <2> QED BY <1>10, <2>1, <2>2
<1>14. ASSUME NEW c \in Cluster, \A i \in 1..Len(w) : w[i] # c
       PROVE  g[c] = f[c] /\ ~ InChain(ch, a, c)
  <2>1. \A i \in Len(s)..Len(w) : i \in 1..Len(w)
    BY <1>2, <1>4
  <2>2. \A i \in 1..Len(s) : i \in 1..Len(w)
    BY <1>2, <1>4
  <2> QED BY <1>1, <1>6, <1>11, <1>14, <2>1, <2>2 DEF InChain
<1>15. g \in [Cluster -> FatEntry]
  <2>1. \A c \in Cluster : g[c] \in FatEntry
    <3> TAKE c \in Cluster
    <3>1. CASE \E i \in Len(s)..Len(w) : w[i] = c
      <4>1. PICK i \in Len(s)..Len(w) : w[i] = c
        BY <3>1
      <4>2. i < Len(w) => i + 1 \in 1..Len(w)
        BY <1>2, <1>4
      <4>3. N(i) \in FatEntry
        BY <1>5, <4>2 DEF FatEntry
      <4> HIDE DEF N
      <4> QED BY <1>10, <4>1, <4>3
    <3>2. CASE \A i \in Len(s)..Len(w) : w[i] # c
      BY <1>2, <1>11, <3>2
    <3> QED BY <3>1, <3>2
  <2> QED BY <2>1 DEF g
<1>16. w # <<>> /\ w[1] = a
  BY <1>2, <1>4
<1>17. \A i \in 1..Len(w) : f[w[i]] = 0 \/ InChain(ch, a, w[i])
  <2> TAKE i \in 1..Len(w)
  <2>1. i <= Len(s) \/ i > Len(s)
    BY <1>2, <1>4
  <2> QED BY <1>6, <1>7, <2>1
<1>18. Rewired(f, ch, a, w, g)
  BY <1>4, <1>8, <1>12, <1>13, <1>14, <1>15, <1>16, <1>17 DEF Rewired
<1> QED BY <1>1, <1>3, <1>9, <1>18

(***************************************************************************)
(* The directory tree: the directories, their slots in use, and what is in *)
(* them.                                                                   *)
(***************************************************************************)
Cells == [Cluster -> [Offset -> Cell]]

IsDirectory(d, c) ==
  \/ c = Root
  \/ \E i \in Offset : d[Root][i].kind = "entry" /\ d[Root][i].dir /\ d[Root][i].first = c

Slot(d, c, i) == c \in Cluster /\ i \in Offset /\ IsDirectory(d, c) /\ d[c][i].kind = "entry"

Holds(d) ==
  \A c \in Cluster, i \in Offset : IsDirectory(d, c) =>
     d[c][i].kind \in {"entry", "zero", "deleted"}

ZerosLast(d) ==
  \A c \in Cluster, i, j \in Offset :
     IsDirectory(d, c) /\ i < j /\ d[c][i].kind = "zero" => d[c][j].kind = "zero"

NamedOnce(d) ==
  \A c \in Cluster, i, j \in Offset :
     Slot(d, c, i) /\ Slot(d, c, j) /\ d[c][i].name = d[c][j].name => i = j

Flat(d) == \A c \in Cluster, i \in Offset : Slot(d, c, i) /\ d[c][i].dir => c = Root

FirstOnce(d) ==
  \A c, e \in Cluster, i, j \in Offset :
     Slot(d, c, i) /\ Slot(d, e, j) /\ d[c][i].first = d[e][j].first => c = e /\ i = j

BelowRoot(d) == \A c \in Cluster, i \in Offset : Slot(d, c, i) => d[c][i].first # Root

Paths(d) ==
  /\ \A i \in Offset : Slot(d, Root, i) => <<d[Root][i].name>> \in Path
  /\ \A i, j \in Offset : Slot(d, Root, i) /\ d[Root][i].dir /\ Slot(d, d[Root][i].first, j) =>
        <<d[Root][i].name, d[d[Root][i].first][j].name>> \in Path

SoundTree(d) ==
  d \in Cells /\ Holds(d) /\ ZerosLast(d) /\ NamedOnce(d) /\ Flat(d) /\ FirstOnce(d)
  /\ BelowRoot(d) /\ Paths(d)

(***************************************************************************)
(* Filled: every file and directory has a chain, long enough for its size; *)
(* the other chains are the root's and the leaked clusters, one cluster    *)
(* long.                                                                   *)
(***************************************************************************)
FirstOf(d, a) == \E c \in Cluster, i \in Offset : Slot(d, c, i) /\ d[c][i].first = a

Owned(ch, d, l) == \A a \in Cluster : ch[a] # <<>> <=> a = Root \/ a \in l \/ FirstOf(d, a)

Single(ch, l) == l \subseteq Cluster /\ \A a \in l \cup {Root} : Len(ch[a]) = 1

Unshared(d, l) == Root \notin l /\ \A a \in l : ~ FirstOf(d, a)

Sized(ch, d) ==
  \A c \in Cluster, i \in Offset : Slot(d, c, i) =>
     d[c][i].size <= Capacity(Len(ch[d[c][i].first]))

Filled(ch, d, l) == Owned(ch, d, l) /\ Single(ch, l) /\ Unshared(d, l) /\ Sized(ch, d)

(***************************************************************************)
(* Open files                                                              *)
(***************************************************************************)
InPlace(h, ch, d) ==
  /\ Slot(d, h.dirCluster, h.dirIndex)
  /\ ~ d[h.dirCluster][h.dirIndex].dir
  /\ d[h.dirCluster][h.dirIndex].first = h.first
  /\ d[h.dirCluster][h.dirIndex].size <= h.size
  /\ h.size <= Capacity(Len(ch[h.first]))
  /\ h.pos <= h.size

Agree(hs) ==
  \A g, h \in Handle :
     hs[g].open /\ hs[h].open /\ hs[g].dirCluster = hs[h].dirCluster
     /\ hs[g].dirIndex = hs[h].dirIndex => hs[g].size = hs[h].size

Hands(hs, ch, d) ==
  hs \in [Handle -> {Closed} \cup File] /\ Agree(hs) /\ \A h \in Handle : hs[h].open => InPlace(hs[h], ch, d)

Sound(f, d, l, hs, ch) == Layout(f, ch) /\ SoundTree(d) /\ Filled(ch, d, l) /\ Hands(hs, ch, d)

Names == {Last(p) : p \in Path}

\* Every cell the code writes is a cell.
LEMMA CellMembers ==
  /\ Zero \in Cell /\ Deleted \in Cell /\ Stale \in Cell
  /\ Zero.kind = "zero" /\ Deleted.kind = "deleted" /\ Stale.kind = "stale"
  /\ \A n \in Names, c \in Cluster, k \in 0..MaxSize, b \in BOOLEAN : Entry(n, c, k, b) \in Cell
BY DEF Cell, Zero, Deleted, Stale, Names

\* The fields of a directory entry are what it was made of.
LEMMA EntryFields ==
  ASSUME NEW n, NEW c, NEW k, NEW b \in BOOLEAN
  PROVE  /\ Entry(n, c, k, b).kind = "entry" /\ Entry(n, c, k, b).name = n
         /\ Entry(n, c, k, b).first = c /\ Entry(n, c, k, b).size = k
         /\ Entry(n, c, k, b).dir = b
BY DEF Entry

\* A cell of kind "entry" is a directory entry with its four fields.
LEMMA CellKinds ==
  ASSUME NEW x \in Cell
  PROVE  /\ x.kind \in {"zero", "deleted", "stale", "data", "entry"}
         /\ x.kind = "entry" => /\ x.name \in Names /\ x.first \in Cluster /\ x.size \in 0..MaxSize
                                /\ x.dir \in BOOLEAN
                                /\ x = Entry(x.name, x.first, x.size, x.dir)
<1>1. CASE x \in {Zero, Deleted, Stale}
  BY <1>1 DEF Zero, Deleted, Stale
<1>2. CASE x \in {Unit(v) : v \in Value}
  BY <1>2 DEF Unit
<1>3. CASE x \in {Entry(n, c, k, b) : n \in Names, c \in Cluster, k \in 0..MaxSize, b \in BOOLEAN}
  <2>1. PICK n \in Names, c \in Cluster, k \in 0..MaxSize, b \in BOOLEAN : x = Entry(n, c, k, b)
    BY <1>3
  <2> QED BY <2>1, EntryFields
<1>4. x \in {Entry(n, c, k, b) : n \in Names, c \in Cluster, k \in 0..MaxSize, b \in BOOLEAN}
      \/ x \in {Zero, Deleted, Stale} \/ x \in {Unit(v) : v \in Value}
  BY DEF Cell, Names
<1> QED BY <1>1, <1>2, <1>3, <1>4

\* PutCell changes one cell and no other.
LEMMA Put ==
  ASSUME NEW d \in Cells, NEW c \in Cluster, NEW i \in Offset, NEW x \in Cell
  PROVE  /\ PutCell(d, c, i, x) \in Cells
         /\ PutCell(d, c, i, x)[c][i] = x
         /\ \A e \in Cluster, j \in Offset : e # c \/ j # i => PutCell(d, c, i, x)[e][j] = d[e][j]
BY DEF PutCell, Cells

\* Only directories matter to the tree.
SameDirectories(d, e) ==
  \A c \in Cluster : /\ IsDirectory(e, c) <=> IsDirectory(d, c)
                     /\ IsDirectory(d, c) => e[c] = d[c]

\* The tree only depends on the clusters of the directories.
LEMMA SameTree ==
  ASSUME NEW d, SoundTree(d), NEW e \in Cells,
         \A c \in Cluster : IsDirectory(d, c) => e[c] = d[c]
  PROVE  SoundTree(e) /\ SameDirectories(d, e)
<1>1. Root \in Cluster /\ e[Root] = d[Root]
  BY ClusterFacts DEF IsDirectory
<1>2. \A c \in Cluster : IsDirectory(e, c) <=> IsDirectory(d, c)
  BY <1>1 DEF IsDirectory
<1>3. \A c \in Cluster, i \in Offset : /\ Slot(e, c, i) <=> Slot(d, c, i)
                                       /\ Slot(d, c, i) => e[c][i] = d[c][i]
  BY <1>2 DEF Slot
<1>4. Holds(e) /\ ZerosLast(e)
  BY <1>2 DEF SoundTree, Holds, ZerosLast
<1>5. NamedOnce(e) /\ Flat(e) /\ FirstOnce(e) /\ BelowRoot(e)
  BY <1>3 DEF SoundTree, NamedOnce, Flat, FirstOnce, BelowRoot
<1>6. Paths(e)
  <2>1. \A i \in Offset : Slot(e, Root, i) => <<e[Root][i].name>> \in Path
    BY <1>1, <1>3 DEF SoundTree, Paths
  <2>2. \A i, j \in Offset : Slot(e, Root, i) /\ e[Root][i].dir /\ Slot(e, e[Root][i].first, j) =>
        <<e[Root][i].name, e[e[Root][i].first][j].name>> \in Path
    <3> SUFFICES ASSUME NEW i \in Offset, NEW j \in Offset, Slot(e, Root, i), e[Root][i].dir,
                        Slot(e, e[Root][i].first, j)
                 PROVE  <<e[Root][i].name, e[e[Root][i].first][j].name>> \in Path
      OBVIOUS
    <3>1. e[Root][i] = d[Root][i] /\ Slot(d, Root, i)
      BY <1>1, <1>3
    <3>2. d[Root][i].first \in Cluster
      BY <3>1 DEF Slot
    <3>3. Slot(d, d[Root][i].first, j) /\ e[d[Root][i].first][j] = d[d[Root][i].first][j]
      BY <1>3, <3>1, <3>2
    <3> QED BY <3>1, <3>3 DEF SoundTree, Paths
  <2> QED BY <2>1, <2>2 DEF Paths
<1> QED BY <1>2, <1>4, <1>5, <1>6 DEF SoundTree, SameDirectories

\* A new entry in a slot of directory c, for the first cluster a.
Added(d, e, c, i, n, a, k, b) ==
  /\ \A f \in Cluster : IsDirectory(e, f) <=> IsDirectory(d, f) \/ (b /\ f = a)
  /\ \A f \in Cluster, j \in Offset :
        /\ Slot(e, f, j) <=> Slot(d, f, j) \/ (f = c /\ j = i)
        /\ f # c \/ j # i => e[f][j] = d[f][j]
  /\ e[c][i] = Entry(n, a, k, b)
  /\ ~ Slot(d, c, i)

MayAdd(d, c, i, n, a, k, b) ==
  /\ c \in Cluster /\ IsDirectory(d, c) /\ i \in Offset
  /\ d[c][i].kind \in {"zero", "deleted"}
  /\ \A j \in Offset : j < i => d[c][j].kind = "entry"
  /\ n \in Names /\ a \in Cluster /\ k \in 0..MaxSize /\ b \in BOOLEAN
  /\ \A j \in Offset : Slot(d, c, j) => d[c][j].name # n
  /\ ~ FirstOf(d, a) /\ a # Root
  /\ b => c = Root /\ d[a] = ZeroCluster
  /\ c = Root => <<n>> \in Path
  /\ \A j \in Offset : Slot(d, Root, j) /\ d[Root][j].dir /\ d[Root][j].first = c =>
        <<d[Root][j].name, n>> \in Path

\* An entry written to a vacant slot of a directory adds it to the tree.
LEMMA AddTree ==
  ASSUME NEW d, SoundTree(d), NEW c, NEW i, NEW n, NEW a, NEW k, NEW b,
         MayAdd(d, c, i, n, a, k, b)
  PROVE  LET e == PutCell(d, c, i, Entry(n, a, k, b))
         IN  SoundTree(e) /\ Added(d, e, c, i, n, a, k, b)
<1>1. PICK x : x = Entry(n, a, k, b)
  OBVIOUS
<1>2. PICK e : e = PutCell(d, c, i, x)
  OBVIOUS
<1>3. /\ c \in Cluster /\ i \in Offset /\ n \in Names /\ a \in Cluster /\ b \in BOOLEAN /\ k \in 0..MaxSize
      /\ IsDirectory(d, c) /\ a # Root /\ ~ FirstOf(d, a) /\ Root \in Cluster
  BY ClusterFacts DEF MayAdd
<1>4. x \in Cell /\ x.kind = "entry" /\ x.name = n /\ x.first = a /\ x.dir = b
  BY <1>1, <1>3, CellMembers, EntryFields
<1>5. /\ e \in Cells /\ e[c][i] = x
      /\ \A f \in Cluster, j \in Offset : f # c \/ j # i => e[f][j] = d[f][j]
  <2>1. d \in Cells
    BY DEF SoundTree
  <2> QED BY <1>2, <1>3, <1>4, <2>1, Put
<1>6. b => c = Root
  BY DEF MayAdd
<1>7. d[c][i].kind # "entry" /\ ~ Slot(d, c, i)
  BY DEF MayAdd, Slot
\* No directory but the new one appears.
<1>8. ASSUME NEW f \in Cluster
      PROVE  IsDirectory(e, f) <=> IsDirectory(d, f) \/ (b /\ f = a)
  <2>1. CASE f = Root
    BY <2>1 DEF IsDirectory
  <2>2. CASE f # Root
    <3>1. ASSUME IsDirectory(e, f) PROVE IsDirectory(d, f) \/ (b /\ f = a)
      <4>1. PICK j \in Offset : e[Root][j].kind = "entry" /\ e[Root][j].dir /\ e[Root][j].first = f
        BY <2>2, <3>1 DEF IsDirectory
      <4>2. CASE Root = c /\ j = i
        BY <1>4, <1>5, <4>1, <4>2
      <4>3. CASE ~ (Root = c /\ j = i)
        <5>1. e[Root][j] = d[Root][j]
          BY <1>3, <1>5, <4>3
        <5> QED BY <4>1, <5>1 DEF IsDirectory
      <4> QED BY <4>2, <4>3
    <3>2. ASSUME IsDirectory(d, f) PROVE IsDirectory(e, f)
      <4>1. PICK j \in Offset : d[Root][j].kind = "entry" /\ d[Root][j].dir /\ d[Root][j].first = f
        BY <2>2, <3>2 DEF IsDirectory
      <4>2. ~ (Root = c /\ j = i)
        BY <1>7, <4>1
      <4>3. e[Root][j] = d[Root][j]
        BY <1>3, <1>5, <4>2
      <4> QED BY <4>1, <4>3 DEF IsDirectory
    <3>3. ASSUME b, f = a PROVE IsDirectory(e, f)
      <4>1. e[Root][i] = x
        BY <1>5, <1>6, <3>3
      <4> QED BY <1>3, <1>4, <3>3, <4>1 DEF IsDirectory
    <3> QED BY <3>1, <3>2, <3>3
  <2> QED BY <2>1, <2>2
\* The new directory is empty and was none before.
<1>9. ASSUME b PROVE ~ IsDirectory(d, a) /\ \A j \in Offset : e[a][j].kind = "zero"
  <2>1. ~ IsDirectory(d, a)
    <3> SUFFICES ASSUME NEW j \in Offset, d[Root][j].kind = "entry", d[Root][j].first = a
                 PROVE  FALSE
      BY <1>3 DEF IsDirectory
    <3>1. Slot(d, Root, j)
      BY <1>3 DEF Slot, IsDirectory
    <3> QED BY <1>3, <3>1 DEF FirstOf
  <2>2. a # c
    BY <1>3, <2>1
  <2>3. ASSUME NEW j \in Offset PROVE e[a][j].kind = "zero"
    <3>1. e[a][j] = d[a][j] /\ d[a] = ZeroCluster
      BY <1>3, <1>5, <1>9, <2>2 DEF MayAdd
    <3> QED BY <3>1 DEF ZeroCluster, Zero
  <2> QED BY <2>1, <2>3
<1>10. ASSUME NEW f \in Cluster, NEW j \in Offset
       PROVE  Slot(e, f, j) <=> Slot(d, f, j) \/ (f = c /\ j = i)
  <2>1. CASE f = c /\ j = i
    BY <1>3, <1>4, <1>5, <1>8, <2>1 DEF Slot
  <2>2. CASE ~ (f = c /\ j = i)
    <3>1. e[f][j] = d[f][j]
      BY <1>5, <2>2
    <3>2. CASE IsDirectory(d, f)
      BY <1>8, <2>2, <3>1, <3>2 DEF Slot
    <3>3. CASE ~ IsDirectory(d, f)
      <4>1. Slot(e, f, j) => b /\ f = a
        BY <1>8, <3>3 DEF Slot
      <4>2. ~ Slot(e, f, j)
        BY <1>9, <4>1 DEF Slot
      <4> QED BY <2>2, <3>3, <4>2 DEF Slot
    <3> QED BY <3>2, <3>3
  <2> QED BY <2>1, <2>2
<1>11. Holds(e)
  <2> SUFFICES ASSUME NEW f \in Cluster, NEW j \in Offset, IsDirectory(e, f)
               PROVE  e[f][j].kind \in {"entry", "zero", "deleted"}
    BY DEF Holds
  <2>1. CASE f = c /\ j = i
    BY <1>4, <1>5, <2>1
  <2>2. CASE ~ (f = c /\ j = i)
    BY <1>5, <1>8, <1>9, <2>2 DEF SoundTree, Holds
  <2> QED BY <2>1, <2>2
<1>12. ZerosLast(e)
  <2> SUFFICES ASSUME NEW f \in Cluster, NEW j \in Offset, NEW m \in Offset, IsDirectory(e, f),
                      j < m, e[f][j].kind = "zero"
               PROVE  e[f][m].kind = "zero"
    BY DEF ZerosLast
  <2>1. CASE f # c
    BY <1>5, <1>8, <1>9, <2>1 DEF SoundTree, ZerosLast
  <2>2. CASE f = c
    <3>1. j # i /\ d[c][j].kind = "zero"
      BY <1>4, <1>5, <2>2
    <3>2. m # i
      BY <3>1 DEF MayAdd
    <3>3. d[c][m].kind = "zero"
      BY <1>3, <3>1 DEF SoundTree, ZerosLast
    <3> QED BY <1>3, <1>5, <2>2, <3>2, <3>3
  <2> QED BY <2>1, <2>2
<1>13. NamedOnce(e)
  <2> SUFFICES ASSUME NEW f \in Cluster, NEW j \in Offset, NEW m \in Offset, Slot(e, f, j), Slot(e, f, m),
                      e[f][j].name = e[f][m].name
               PROVE  j = m
    BY DEF NamedOnce
  <2>1. CASE f # c \/ (j # i /\ m # i)
    BY <1>5, <1>10, <2>1 DEF SoundTree, NamedOnce
  <2>2. CASE f = c /\ j = i /\ m # i
    BY <1>4, <1>5, <1>10, <2>2 DEF MayAdd
  <2>3. CASE f = c /\ j # i /\ m = i
    BY <1>4, <1>5, <1>10, <2>3 DEF MayAdd
  <2> QED BY <2>1, <2>2, <2>3
<1>14. Flat(e)
  <2> SUFFICES ASSUME NEW f \in Cluster, NEW j \in Offset, Slot(e, f, j), e[f][j].dir
               PROVE  f = Root
    BY DEF Flat
  <2>1. CASE f = c /\ j = i
    BY <1>4, <1>5, <1>6, <2>1
  <2>2. CASE ~ (f = c /\ j = i)
    BY <1>5, <1>10, <2>2 DEF SoundTree, Flat
  <2> QED BY <2>1, <2>2
<1>15. FirstOnce(e) /\ BelowRoot(e)
  <2>1. ASSUME NEW f \in Cluster, NEW j \in Offset, Slot(d, f, j)
        PROVE  e[f][j] = d[f][j] /\ d[f][j].first # a
    BY <1>3, <1>5, <1>7, <2>1 DEF FirstOf
  <2>2. FirstOnce(e)
    <3> SUFFICES ASSUME NEW f \in Cluster, NEW g \in Cluster, NEW j \in Offset, NEW m \in Offset,
                        Slot(e, f, j), Slot(e, g, m), e[f][j].first = e[g][m].first
                 PROVE  f = g /\ j = m
      BY DEF FirstOnce
    <3>1. CASE Slot(d, f, j) /\ Slot(d, g, m)
      BY <2>1, <3>1 DEF SoundTree, FirstOnce
    <3>2. CASE Slot(d, f, j) /\ g = c /\ m = i
      BY <1>4, <1>5, <2>1, <3>2
    <3>3. CASE f = c /\ j = i /\ Slot(d, g, m)
      BY <1>4, <1>5, <2>1, <3>3
    <3> QED BY <1>10, <3>1, <3>2, <3>3
  <2>3. BelowRoot(e)
    BY <1>3, <1>4, <1>5, <1>10, <2>1 DEF SoundTree, BelowRoot
  <2> QED BY <2>2, <2>3
<1>16. Paths(e)
  <2>1. ASSUME NEW j \in Offset, Slot(e, Root, j) PROVE <<e[Root][j].name>> \in Path
    <3>1. CASE Root = c /\ j = i
      BY <1>4, <1>5, <3>1 DEF MayAdd
    <3>2. CASE ~ (Root = c /\ j = i)
      BY <1>3, <1>5, <1>10, <2>1, <3>2 DEF SoundTree, Paths
    <3> QED BY <3>1, <3>2
  <2>2. ASSUME NEW j \in Offset, NEW m \in Offset, Slot(e, Root, j), e[Root][j].dir,
               Slot(e, e[Root][j].first, m)
        PROVE  <<e[Root][j].name, e[e[Root][j].first][m].name>> \in Path
    <3>1. PICK g \in Cluster : g = e[Root][j].first
      BY <2>2 DEF Slot
    <3>2. CASE Root = c /\ j = i
      <4>1. g = a /\ b
        BY <1>4, <1>5, <2>2, <3>1, <3>2
      <4>2. e[g][m].kind = "zero"
        BY <1>9, <4>1
      <4> QED BY <2>2, <3>1, <4>2 DEF Slot
    <3>3. CASE ~ (Root = c /\ j = i)
      <4>1. Slot(d, Root, j) /\ e[Root][j] = d[Root][j]
        BY <1>3, <1>5, <1>10, <2>2, <3>3
      <4>2. CASE g = c /\ m = i
        <5>1. <<d[Root][j].name, n>> \in Path
          BY <2>2, <3>1, <4>1, <4>2 DEF MayAdd
        <5> QED BY <1>4, <1>5, <3>1, <4>1, <4>2, <5>1
      <4>3. CASE ~ (g = c /\ m = i)
        <5>1. Slot(d, g, m) /\ e[g][m] = d[g][m]
          BY <1>5, <1>10, <2>2, <3>1, <4>3
        <5>2. <<d[Root][j].name, d[g][m].name>> \in Path
          BY <2>2, <3>1, <4>1, <5>1 DEF SoundTree, Paths
        <5> QED BY <3>1, <4>1, <5>1, <5>2
      <4> QED BY <4>2, <4>3
    <3> QED BY <3>2, <3>3
  <2> QED BY <2>1, <2>2 DEF Paths
<1>17. SoundTree(e)
  BY <1>5, <1>11, <1>12, <1>13, <1>14, <1>15, <1>16 DEF SoundTree
<1>18. Added(d, e, c, i, n, a, k, b)
  BY <1>1, <1>5, <1>7, <1>8, <1>10 DEF Added
<1> QED BY <1>1, <1>2, <1>17, <1>18

\* An entry is taken out; a directory must be empty for that.
Removed(d, e, c, i) ==
  /\ \A f \in Cluster : IsDirectory(e, f) <=>
        IsDirectory(d, f) /\ ~ (d[c][i].dir /\ d[c][i].first = f)
  /\ \A f \in Cluster, j \in Offset :
        /\ Slot(e, f, j) <=> Slot(d, f, j) /\ ~ (f = c /\ j = i)
        /\ f # c \/ j # i => e[f][j] = d[f][j]

\* A slot marked deleted takes its entry, a file or empty directory, off the tree.
LEMMA RemoveTree ==
  ASSUME NEW d, SoundTree(d), NEW c, NEW i, Slot(d, c, i),
         d[c][i].dir => \A j \in Offset : ~ Slot(d, d[c][i].first, j)
  PROVE  SoundTree(PutCell(d, c, i, Deleted)) /\ Removed(d, PutCell(d, c, i, Deleted), c, i)
<1>1. PICK e : e = PutCell(d, c, i, Deleted)
  OBVIOUS
<1>2. c \in Cluster /\ i \in Offset /\ IsDirectory(d, c) /\ d[c][i].kind = "entry" /\ Root \in Cluster
  BY ClusterFacts DEF Slot
<1>3. /\ e \in Cells /\ e[c][i].kind = "deleted"
      /\ \A f \in Cluster, j \in Offset : f # c \/ j # i => e[f][j] = d[f][j]
  <2>1. d \in Cells
    BY DEF SoundTree
  <2>2. Deleted \in Cell /\ Deleted.kind = "deleted"
    BY CellMembers
  <2> QED BY <1>1, <1>2, <2>1, <2>2, Put
<1>4. ASSUME NEW f \in Cluster
      PROVE  IsDirectory(e, f) <=> IsDirectory(d, f) /\ ~ (d[c][i].dir /\ d[c][i].first = f)
  <2>1. CASE f = Root
    BY <1>2, <2>1 DEF IsDirectory, SoundTree, BelowRoot
  <2>2. CASE f # Root
    <3>1. ASSUME IsDirectory(e, f) PROVE IsDirectory(d, f) /\ ~ (d[c][i].dir /\ d[c][i].first = f)
      <4>1. PICK j \in Offset : e[Root][j].kind = "entry" /\ e[Root][j].dir /\ e[Root][j].first = f
        BY <2>2, <3>1 DEF IsDirectory
      <4>2. ~ (Root = c /\ j = i)
        BY <1>3, <4>1
      <4>3. e[Root][j] = d[Root][j]
        BY <1>2, <1>3, <4>2
      <4>4. Slot(d, Root, j)
        BY <1>2, <4>1, <4>3 DEF Slot, IsDirectory
      <4>5. d[c][i].first # f
        BY <1>2, <4>1, <4>2, <4>3, <4>4 DEF SoundTree, FirstOnce
      <4> QED BY <4>1, <4>3, <4>5 DEF IsDirectory
    <3>2. ASSUME IsDirectory(d, f), ~ (d[c][i].dir /\ d[c][i].first = f) PROVE IsDirectory(e, f)
      <4>1. PICK j \in Offset : d[Root][j].kind = "entry" /\ d[Root][j].dir /\ d[Root][j].first = f
        BY <2>2, <3>2 DEF IsDirectory
      <4>2. ~ (Root = c /\ j = i)
        BY <3>2, <4>1
      <4>3. e[Root][j] = d[Root][j]
        BY <1>2, <1>3, <4>2
      <4> QED BY <4>1, <4>3 DEF IsDirectory
    <3> QED BY <3>1, <3>2
  <2> QED BY <2>1, <2>2
<1>5. ASSUME NEW f \in Cluster, NEW j \in Offset
      PROVE  Slot(e, f, j) <=> Slot(d, f, j) /\ ~ (f = c /\ j = i)
  <2>1. CASE f = c /\ j = i
    BY <1>3, <2>1 DEF Slot
  <2>2. CASE ~ (f = c /\ j = i)
    <3>1. e[f][j] = d[f][j]
      BY <1>3, <2>2
    <3>2. ASSUME Slot(d, f, j) PROVE ~ (d[c][i].dir /\ d[c][i].first = f)
      BY <3>2
    <3> QED BY <1>4, <2>2, <3>1, <3>2 DEF Slot
  <2> QED BY <2>1, <2>2
<1>6. Holds(e) /\ ZerosLast(e)
  <2>1. Holds(e)
    <3> SUFFICES ASSUME NEW f \in Cluster, NEW j \in Offset, IsDirectory(e, f)
                 PROVE  e[f][j].kind \in {"entry", "zero", "deleted"}
      BY DEF Holds
    <3>1. CASE f = c /\ j = i
      BY <1>3, <3>1
    <3>2. CASE ~ (f = c /\ j = i)
      BY <1>3, <1>4, <3>2 DEF SoundTree, Holds
    <3> QED BY <3>1, <3>2
  <2>2. ZerosLast(e)
    <3> SUFFICES ASSUME NEW f \in Cluster, NEW j \in Offset, NEW m \in Offset, IsDirectory(e, f),
                        j < m, e[f][j].kind = "zero"
                 PROVE  e[f][m].kind = "zero"
      BY DEF ZerosLast
    <3>1. ~ (f = c /\ j = i) /\ IsDirectory(d, f)
      BY <1>3, <1>4
    <3>2. d[f][j].kind = "zero"
      BY <1>3, <3>1
    <3>3. d[f][m].kind = "zero"
      BY <3>1, <3>2 DEF SoundTree, ZerosLast
    <3>4. ~ (f = c /\ m = i)
      BY <1>2, <3>3
    <3> QED BY <1>3, <3>3, <3>4
  <2> QED BY <2>1, <2>2
<1>7. \A f \in Cluster, j \in Offset : Slot(e, f, j) => Slot(d, f, j) /\ e[f][j] = d[f][j]
  BY <1>3, <1>5
<1>8. NamedOnce(e) /\ Flat(e) /\ FirstOnce(e) /\ BelowRoot(e)
  BY <1>7 DEF SoundTree, NamedOnce, Flat, FirstOnce, BelowRoot
<1>9. Paths(e)
  <2>1. \A j \in Offset : Slot(e, Root, j) => <<e[Root][j].name>> \in Path
    BY <1>2, <1>7 DEF SoundTree, Paths
  <2>2. ASSUME NEW j \in Offset, NEW m \in Offset, Slot(e, Root, j), e[Root][j].dir,
               Slot(e, e[Root][j].first, m)
        PROVE  <<e[Root][j].name, e[e[Root][j].first][m].name>> \in Path
    <3>1. e[Root][j] = d[Root][j] /\ Slot(d, Root, j)
      BY <1>2, <1>7, <2>2
    <3>2. PICK g \in Cluster : g = d[Root][j].first
      BY <2>2, <3>1 DEF Slot
    <3>3. Slot(d, g, m) /\ e[g][m] = d[g][m]
      BY <1>7, <2>2, <3>1, <3>2
    <3>4. <<d[Root][j].name, d[g][m].name>> \in Path
      BY <2>2, <3>1, <3>2, <3>3, SMTT(30) DEF SoundTree, Paths
    <3> QED BY <3>1, <3>2, <3>3, <3>4
  <2> QED BY <2>1, <2>2 DEF Paths
<1> QED BY <1>1, <1>3, <1>4, <1>5, <1>6, <1>8, <1>9 DEF SoundTree, Removed

\* An entry gets another size.
Resized(d, e, c, i, k) ==
  /\ \A f \in Cluster : IsDirectory(e, f) <=> IsDirectory(d, f)
  /\ \A f \in Cluster, j \in Offset :
        /\ Slot(e, f, j) <=> Slot(d, f, j)
        /\ f # c \/ j # i => e[f][j] = d[f][j]
  /\ e[c][i].name = d[c][i].name /\ e[c][i].first = d[c][i].first /\ e[c][i].dir = d[c][i].dir
  /\ e[c][i].size = k

\* A new size in an entry leaves the rest of the tree alone.
LEMMA ResizeTree ==
  ASSUME NEW d, SoundTree(d), NEW c, NEW i, Slot(d, c, i), NEW k \in 0..MaxSize, NEW x,
         x = Entry(d[c][i].name, d[c][i].first, k, d[c][i].dir)
  PROVE  SoundTree(PutCell(d, c, i, x)) /\ Resized(d, PutCell(d, c, i, x), c, i, k)
<1>1. PICK e : e = PutCell(d, c, i, x)
  OBVIOUS
<1>2. c \in Cluster /\ i \in Offset /\ IsDirectory(d, c) /\ d[c][i].kind = "entry" /\ Root \in Cluster
  BY ClusterFacts DEF Slot
<1>3. d \in Cells /\ d[c][i] \in Cell
  BY <1>2 DEF SoundTree, Cells
<1>4. /\ d[c][i].name \in Names /\ d[c][i].first \in Cluster /\ d[c][i].dir \in BOOLEAN
  BY <1>2, <1>3, CellKinds
<1>5. /\ x \in Cell /\ x.kind = "entry" /\ x.name = d[c][i].name /\ x.first = d[c][i].first
      /\ x.dir = d[c][i].dir /\ x.size = k
  BY <1>4, CellMembers, EntryFields, SMTT(30)
<1>6. /\ e \in Cells /\ e[c][i] = x
      /\ \A f \in Cluster, j \in Offset : f # c \/ j # i => e[f][j] = d[f][j]
  BY <1>1, <1>2, <1>3, <1>5, Put
<1>7. \A f \in Cluster, j \in Offset : /\ e[f][j].kind = d[f][j].kind
                                       /\ d[f][j].kind = "entry" =>
                                             /\ e[f][j].name = d[f][j].name
                                             /\ e[f][j].first = d[f][j].first
                                             /\ e[f][j].dir = d[f][j].dir
  BY <1>2, <1>5, <1>6
<1>8. \A f \in Cluster : IsDirectory(e, f) <=> IsDirectory(d, f)
  BY <1>2, <1>7 DEF IsDirectory
<1>9. \A f \in Cluster, j \in Offset : Slot(e, f, j) <=> Slot(d, f, j)
  BY <1>7, <1>8 DEF Slot
<1>10. \A f \in Cluster, j \in Offset : Slot(d, f, j) => /\ e[f][j].name = d[f][j].name
                                                         /\ e[f][j].first = d[f][j].first
                                                         /\ e[f][j].dir = d[f][j].dir
  BY <1>7 DEF Slot
<1>11. Holds(e) /\ ZerosLast(e)
  BY <1>7, <1>8 DEF SoundTree, Holds, ZerosLast
<1>12. NamedOnce(e) /\ Flat(e) /\ FirstOnce(e) /\ BelowRoot(e)
  BY <1>9, <1>10 DEF SoundTree, NamedOnce, Flat, FirstOnce, BelowRoot
<1>13. Paths(e)
  <2>1. \A j \in Offset : Slot(e, Root, j) => <<e[Root][j].name>> \in Path
    BY <1>2, <1>9, <1>10 DEF SoundTree, Paths
  <2>2. ASSUME NEW j \in Offset, NEW m \in Offset, Slot(e, Root, j), e[Root][j].dir,
               Slot(e, e[Root][j].first, m)
        PROVE  <<e[Root][j].name, e[e[Root][j].first][m].name>> \in Path
    <3>1. /\ Slot(d, Root, j) /\ e[Root][j].name = d[Root][j].name
          /\ e[Root][j].first = d[Root][j].first /\ d[Root][j].dir
      BY <1>2, <1>9, <1>10, <2>2
    <3>2. PICK g \in Cluster : g = d[Root][j].first
      BY <2>2, <3>1 DEF Slot
    <3>3. Slot(d, g, m) /\ e[g][m].name = d[g][m].name
      BY <1>9, <1>10, <2>2, <3>1, <3>2, SMTT(30)
    <3>4. <<d[Root][j].name, d[g][m].name>> \in Path
      BY <3>1, <3>2, <3>3 DEF SoundTree, Paths
    <3> QED BY <3>1, <3>2, <3>3, <3>4
  <2> QED BY <2>1, <2>2 DEF Paths
<1> QED BY <1>1, <1>5, <1>6, <1>8, <1>9, <1>11, <1>12, <1>13, Zenon DEF SoundTree, Resized

(***************************************************************************)
(* Paths and slots: the search of a directory finds the name, and every    *)
(* slot in use is found by one path.                                       *)
(***************************************************************************)
Match(d, c, i, n) == d[c][i].kind = "entry" /\ d[c][i].name = n

SearchedFrom(d, c, n, i, r) ==
  \/ r = 0 /\ \A j \in i..CellsPerCluster : Match(d, c, j, n) =>
                 \E k \in i..j : k < j /\ d[c][k].kind = "zero"
  \/ /\ r \in i..CellsPerCluster /\ Match(d, c, r, n)
     /\ \A k \in i..r : k < r => d[c][k].kind # "zero"

\* The recursive search of a directory cluster is what SlotIn returns.
LEMMA SearchIs ==
  ASSUME NEW c, NEW n
  PROVE  SearchedFrom(data, c, n, 1, SlotIn(c, n))
<1> DEFINE C == CellsPerCluster
           Upto == 0..C
           Step(w, i) == IF data[c][i].kind = "zero" THEN 0
                         ELSE IF data[c][i].kind = "entry" /\ data[c][i].name = n THEN i ELSE w
           search == CHOOSE g : g = [i \in 1..(C + 1) |->
                         IF i > C \/ data[c][i].kind = "zero" THEN 0
                         ELSE IF data[c][i].kind = "entry" /\ data[c][i].name = n THEN i
                         ELSE g[i + 1]]
           next_ == [m \in 1..C |-> [w \in Upto |-> Step(w, C + 1 - m)]]
<1>1. C \in Nat /\ C > 0
  BY CellsAssumption
<1>2. SlotIn(c, n) = search[1]
  BY DEF SlotIn
<1> HIDE DEF C
<1>3. \A w \in Upto, m \in 1..C : Step(w, C + 1 - m) \in Upto
  BY <1>1
<1>4. PICK g : StepsFrom(g, 0, C, Upto, next_)
  <2>1. next_ \in [1..C -> [Upto -> Upto]]
    <3> HIDE DEF Step, Upto
    <3> QED BY <1>3
  <2>2. 0 \in Upto
    BY <1>1
  <2> HIDE DEF Step, Upto, next_
  <2> QED BY <1>1, <2>1, <2>2, RecursionExists
<1>5. g \in [0..C -> Upto] /\ g[0] = 0 /\ \A m \in 1..C : g[m] = Step(g[m - 1], C + 1 - m)
  <2> HIDE DEF Step, Upto
  <2>1. \A m \in 1..C : g[m - 1] \in Upto
    BY <1>1, <1>4 DEF StepsFrom
  <2> QED BY <1>4, <2>1 DEF StepsFrom
<1> DEFINE r == [i \in 1..(C + 1) |-> g[C + 1 - i]]
<1>6. \A i \in 1..(C + 1) : r[i] = IF i > C \/ data[c][i].kind = "zero" THEN 0
                         ELSE IF data[c][i].kind = "entry" /\ data[c][i].name = n THEN i
                         ELSE r[i + 1]
  <2> TAKE i \in 1..(C + 1)
  <2>1. CASE i > C
    <3>1. C + 1 - i = 0
      BY <1>1, <2>1
    <3> QED BY <1>5, <2>1, <3>1
  <2>2. CASE i <= C
    <3>1. C + 1 - i \in 1..C /\ C + 1 - (C + 1 - i) = i /\ i + 1 \in 1..(C + 1)
          /\ C + 1 - (i + 1) = C + 1 - i - 1
      BY <1>1, <2>2
    <3>2. g[C + 1 - i] = Step(g[C + 1 - i - 1], i)
      <4>1. PICK m \in 1..C : m = C + 1 - i
        BY <3>1
      <4>2. g[m] = Step(g[m - 1], C + 1 - m)
        BY <1>5
      <4>3. C + 1 - m = i
        BY <3>1, <4>1
      <4>4. m - 1 = C + 1 - i - 1
        BY <1>1, <4>1
      <4>5. PICK u : u = g[m - 1]
        OBVIOUS
      <4>6. g[C + 1 - i - 1] = u /\ g[C + 1 - i] = g[m]
        BY <4>1, <4>4, <4>5
      <4>7. g[m] = Step(u, i)
        BY <4>2, <4>3, <4>5 DEF Step
      <4> HIDE DEF Step
      <4> QED BY <4>6, <4>7
    <3>3. r[i] = g[C + 1 - i] /\ r[i + 1] = g[C + 1 - i - 1]
      BY <3>1
    <3>4. ~ (i > C)
      BY <1>1, <2>2
    <3> HIDE DEF r
    <3> QED BY <3>2, <3>3, <3>4
  <2> QED BY <1>1, <2>1, <2>2
<1>7. search = [i \in 1..(C + 1) |->
                         IF i > C \/ data[c][i].kind = "zero" THEN 0
                         ELSE IF data[c][i].kind = "entry" /\ data[c][i].name = n THEN i
                         ELSE search[i + 1]]
  <2>1. r = [i \in 1..(C + 1) |->
                         IF i > C \/ data[c][i].kind = "zero" THEN 0
                         ELSE IF data[c][i].kind = "entry" /\ data[c][i].name = n THEN i
                         ELSE r[i + 1]]
    <3>1. r = [i \in 1..(C + 1) |-> r[i]]
      OBVIOUS
    <3> HIDE DEF r
    <3> QED BY <1>6, <3>1
  <2> HIDE DEF r
  <2> QED BY <2>1
<1> HIDE DEF search, r
<1> DEFINE Good == {m \in 0..C : SearchedFrom(data, c, n, C + 1 - m, search[C + 1 - m])}
<1>8. 0 \in Good
  <2>1. C + 1 - 0 = C + 1 /\ C + 1 > C /\ C + 1 \in 1..(C + 1) /\ 0 \in 0..C
    BY <1>1
  <2>2. search[C + 1] = 0
    BY <1>7, <2>1
  <2>3. SearchedFrom(data, c, n, C + 1, 0)
    BY <1>1 DEF SearchedFrom, C
  <2> QED BY <2>1, <2>2, <2>3
<1>9. ASSUME NEW m \in 0..(C - 1), m \in Good
      PROVE  m + 1 \in Good
  <2>1. PICK i \in 1..C : i = C + 1 - (m + 1)
    BY <1>1
  <2>2. C + 1 - m = i + 1 /\ m + 1 \in 0..C /\ i \in 1..(C + 1) /\ ~ (i > C)
    BY <1>1, <2>1
  <2>3. SearchedFrom(data, c, n, i + 1, search[i + 1])
    BY <1>9, <2>2
  <2>4. search[i] = IF data[c][i].kind = "zero" THEN 0
                    ELSE IF data[c][i].kind = "entry" /\ data[c][i].name = n THEN i
                    ELSE search[i + 1]
    BY <1>7, <2>2
  <2>5. SearchedFrom(data, c, n, i, search[i])
    <3>1. CASE data[c][i].kind = "zero"
      <4>1. search[i] = 0
        BY <2>4, <3>1
      <4>2. \A j \in i..C : Match(data, c, j, n) => i \in i..j /\ i < j
        BY <1>1, <3>1 DEF Match
      <4>3. \A j \in i..C : Match(data, c, j, n) => \E k \in i..j : k < j /\ data[c][k].kind = "zero"
        BY <3>1, <4>2
      <4> QED BY <4>1, <4>3 DEF SearchedFrom, C
    <3>2. CASE Match(data, c, i, n)
      <4>1. search[i] = i
        BY <2>4, <3>2 DEF Match
      <4>2. i \in i..C /\ \A k \in i..i : ~ (k < i)
        BY <1>1
      <4> QED BY <3>2, <4>1, <4>2 DEF SearchedFrom, C
    <3>3. CASE data[c][i].kind # "zero" /\ ~ Match(data, c, i, n)
      <4>1. search[i] = search[i + 1]
        BY <2>4, <3>3 DEF Match
      <4>2. PICK q : q = search[i + 1]
        OBVIOUS
      <4>3. CASE q = 0 /\ \A j \in (i + 1)..C : Match(data, c, j, n) =>
                             \E k \in (i + 1)..j : k < j /\ data[c][k].kind = "zero"
        <5>1. ASSUME NEW j \in i..C, Match(data, c, j, n)
              PROVE  \E k \in i..j : k < j /\ data[c][k].kind = "zero"
          <6>1. j \in (i + 1)..C
            BY <1>1, <3>3, <5>1
          <6>2. PICK k \in (i + 1)..j : k < j /\ data[c][k].kind = "zero"
            BY <4>3, <5>1, <6>1
          <6>3. k \in i..j
            BY <1>1, <6>1
          <6> QED BY <6>2, <6>3
        <5> QED BY <4>1, <4>2, <4>3, <5>1 DEF SearchedFrom, C
      <4>4. CASE /\ q \in (i + 1)..C /\ Match(data, c, q, n)
                 /\ \A k \in (i + 1)..q : k < q => data[c][k].kind # "zero"
        <5>1. q \in i..C
          BY <1>1, <4>4
        <5>2. \A k \in i..q : k < q => data[c][k].kind # "zero"
          <6> TAKE k \in i..q
          <6>1. k = i \/ k \in (i + 1)..q
            BY <1>1, <5>1
          <6> QED BY <3>3, <4>4, <6>1
        <5> QED BY <4>1, <4>2, <4>4, <5>1, <5>2 DEF SearchedFrom, C
      <4> QED BY <2>3, <4>2, <4>3, <4>4 DEF SearchedFrom, C
    <3> QED BY <3>1, <3>2, <3>3
  <2> QED BY <2>1, <2>2, <2>5
<1> HIDE DEF Good
<1>10. \A m \in 0..C : m \in Good
  BY <1>1, <1>8, <1>9, IntervalInduction
<1>11. C \in Good /\ C + 1 - C = 1
  BY <1>1, <1>10
<1> QED BY <1>2, <1>11 DEF Good

\* The search finds the entry of a name, the only one of that name.
LEMMA SlotFound ==
  ASSUME SoundTree(data), NEW c \in Cluster, IsDirectory(data, c), NEW n
  PROVE  /\ SlotIn(c, n) # 0 => Slot(data, c, SlotIn(c, n)) /\ data[c][SlotIn(c, n)].name = n
         /\ \A i \in Offset : Slot(data, c, i) /\ data[c][i].name = n => SlotIn(c, n) = i
         /\ SlotIn(c, n) \in 0..CellsPerCluster
<1>1. PICK r : r = SlotIn(c, n)
  OBVIOUS
<1>2. SearchedFrom(data, c, n, 1, r)
  BY <1>1, SearchIs
<1>3. CellsPerCluster \in Nat
  BY CellsAssumption
<1>4. ASSUME r # 0 PROVE Slot(data, c, r) /\ data[c][r].name = n
  BY <1>2, <1>4 DEF SearchedFrom, Slot, Match, Offset
<1>5. ASSUME NEW i \in Offset, Slot(data, c, i), data[c][i].name = n PROVE r = i
  <2>1. Match(data, c, i, n) /\ i \in 1..CellsPerCluster
    BY <1>5 DEF Match, Slot, Offset
  <2>2. \A k \in 1..i : k < i => data[c][k].kind # "zero"
    <3> SUFFICES ASSUME NEW k \in 1..i, k < i, data[c][k].kind = "zero" PROVE FALSE
      OBVIOUS
    <3>1. k \in Offset
      BY <1>3, <2>1 DEF Offset
    <3>2. data[c][i].kind = "zero"
      BY <3>1 DEF SoundTree, ZerosLast
    <3> QED BY <2>1, <3>2 DEF Match
  <2>3. r # 0
    BY <1>2, <2>1, <2>2 DEF SearchedFrom
  <2>4. Slot(data, c, r) /\ data[c][r].name = n
    BY <1>4, <2>3
  <2> QED BY <1>5, <2>4 DEF SoundTree, NamedOnce, Slot
<1>6. r \in 0..CellsPerCluster
  BY <1>2, <1>3 DEF SearchedFrom
<1> QED BY <1>1, <1>4, <1>5, <1>6

OneName(p) == p = <<Last(p)>>
TwoNames(p) == p = <<Head(p), Last(p)>>

\* A path has one or two names, and its parent is a path.
LEMMA PathShape ==
  ASSUME NEW p \in Path
  PROVE  /\ \/ Len(p) = 1 /\ OneName(p) /\ Last(p) = Head(p)
            \/ Len(p) = 2 /\ TwoNames(p)
         /\ Last(p) \in Names /\ p # NoPath
<1>1. CASE p = <<p[1]>>
  <2>1. PICK x : x = p[1]
    OBVIOUS
  <2>2. p = <<x>>
    BY <1>1, <2>1
  <2>3. Len(p) = 1 /\ Head(p) = x /\ p[Len(p)] = x
    BY <2>2
  <2>4. Last(p) = x
    BY <2>3 DEF Last
  <2>5. OneName(p)
    BY <2>2, <2>4 DEF OneName
  <2> QED BY <2>2, <2>3, <2>4, <2>5 DEF Names, NoPath
<1>2. CASE p = <<p[1], p[2]>> /\ <<p[1]>> \in Path
  <2>1. PICK x, y : x = p[1] /\ y = p[2]
    OBVIOUS
  <2>2. p = <<x, y>> /\ <<x>> \in Path
    BY <1>2, <2>1
  <2>3. Len(p) = 2 /\ Head(p) = x /\ p[Len(p)] = y
    BY <2>2
  <2>4. Last(p) = y
    BY <2>3 DEF Last
  <2>5. TwoNames(p)
    BY <2>2, <2>3, <2>4 DEF TwoNames
  <2> QED BY <2>2, <2>3, <2>4, <2>5 DEF Names, NoPath
<1> QED BY <1>1, <1>2, PathAssumption

\* The directory of a path is the root or a subdirectory of the root.
LEMMA PathPlace ==
  ASSUME SoundTree(data), NEW p \in Path, DirOf(p) # 0
  PROVE  /\ DirOf(p) \in Cluster /\ IsDirectory(data, DirOf(p))
         /\ \/ DirOf(p) = Root /\ Len(p) = 1
            \/ /\ DirOf(p) # Root /\ Len(p) = 2
               /\ \E i \in Offset : /\ Slot(data, Root, i) /\ data[Root][i].dir
                                    /\ data[Root][i].first = DirOf(p)
                                    /\ data[Root][i].name = Head(p)
<1>1. IsDirectory(data, Root) /\ Root \in Cluster
  BY ClusterFacts DEF IsDirectory
<1>2. CASE Len(p) = 1
  BY <1>1, <1>2 DEF DirOf
<1>3. CASE Len(p) # 1
  <2>1. PICK i : i = SlotIn(Root, Head(p))
    OBVIOUS
  <2>2. i # 0 /\ data[Root][i].dir /\ DirOf(p) = data[Root][i].first
    BY <1>3, <2>1 DEF DirOf
  <2>3. Slot(data, Root, i) /\ data[Root][i].name = Head(p) /\ i \in Offset
    BY <1>1, <2>1, <2>2, SlotFound DEF Slot
  <2>4. data[Root][i] \in Cell /\ data[Root][i].kind = "entry"
    BY <1>1, <2>3 DEF SoundTree, Cells, Slot
  <2>5. data[Root][i].first \in Cluster
    BY <2>4, CellKinds
  <2>6. DirOf(p) # Root
    BY <1>1, <2>2, <2>3 DEF SoundTree, BelowRoot
  <2>7. IsDirectory(data, DirOf(p))
    BY <2>2, <2>3, <2>4 DEF IsDirectory
  <2>8. Len(p) = 2
    BY <1>3, PathShape
  <2> QED BY <2>2, <2>3, <2>5, <2>6, <2>7, <2>8
<1> QED BY <1>2, <1>3

\* A path that exists has a slot of its own,
LEMMA PathSlot ==
  ASSUME SoundTree(data), NEW p \in Path, Exists(p)
  PROVE  /\ Slot(data, DirOf(p), SlotOf(p)) /\ EntryOf(p).name = Last(p)
         /\ EntryOf(p) = data[DirOf(p)][SlotOf(p)]
         /\ EntryOf(p) = Entry(Last(p), EntryOf(p).first, EntryOf(p).size, EntryOf(p).dir)
         /\ EntryOf(p).first \in Cluster /\ EntryOf(p).size \in 0..MaxSize
         /\ EntryOf(p).dir \in BOOLEAN
<1>1. DirOf(p) # 0 /\ SlotIn(DirOf(p), Last(p)) # 0
  BY DEF Exists
<1>2. DirOf(p) \in Cluster /\ IsDirectory(data, DirOf(p))
  BY <1>1, PathPlace
<1>3. /\ Slot(data, DirOf(p), SlotOf(p)) /\ EntryOf(p).name = Last(p)
      /\ EntryOf(p) = data[DirOf(p)][SlotOf(p)]
  BY <1>1, <1>2, SlotFound DEF SlotOf, EntryOf
<1>4. EntryOf(p) \in Cell /\ EntryOf(p).kind = "entry"
  BY <1>3 DEF SoundTree, Cells, Slot
<1>5. PICK x \in Cell : x = EntryOf(p)
  BY <1>4
<1>6. /\ x.first \in Cluster /\ x.size \in 0..MaxSize /\ x.dir \in BOOLEAN
      /\ x = Entry(x.name, x.first, x.size, x.dir)
  BY <1>4, <1>5, CellKinds
<1> QED BY <1>3, <1>5, <1>6

\* and every slot in use has a path.
LEMMA SlotPath ==
  ASSUME SoundTree(data), NEW c, NEW i, Slot(data, c, i)
  PROVE  \E p \in Path : Exists(p) /\ DirOf(p) = c /\ SlotOf(p) = i /\ EntryOf(p) = data[c][i]
<1>1. IsDirectory(data, Root) /\ Root \in Cluster /\ 0 \notin Cluster /\ 0 \notin Offset
  BY ClusterFacts, CellsAssumption DEF IsDirectory, Offset
<1>2. c \in Cluster /\ i \in Offset /\ IsDirectory(data, c)
  BY DEF Slot
<1>3. PICK n : n = data[c][i].name
  OBVIOUS
<1>4. SlotIn(c, n) = i
  BY <1>2, <1>3, SlotFound
<1>5. CASE c = Root
  <2>1. PICK p \in Path : p = <<n>>
    BY <1>2, <1>3, <1>5 DEF SoundTree, Paths
  <2>2. Len(p) = 1 /\ Last(p) = n
    BY <2>1 DEF Last
  <2>3. DirOf(p) = c
    BY <1>5, <2>2 DEF DirOf
  <2> QED BY <1>1, <1>2, <1>4, <2>2, <2>3 DEF Exists, SlotOf, EntryOf
<1>6. CASE c # Root
  <2>1. PICK j \in Offset : data[Root][j].kind = "entry" /\ data[Root][j].dir /\ data[Root][j].first = c
    BY <1>2, <1>6 DEF IsDirectory
  <2>2. Slot(data, Root, j)
    BY <1>1, <2>1 DEF Slot
  <2>3. PICK m : m = data[Root][j].name
    OBVIOUS
  <2>4. PICK p \in Path : p = <<m, n>>
    <3>1. <<data[Root][j].name, data[c][i].name>> \in Path
      BY <1>2, <2>1, <2>2 DEF SoundTree, Paths
    <3> QED BY <1>3, <2>3, <3>1
  <2>5. Len(p) = 2 /\ Last(p) = n /\ Head(p) = m
    BY <2>4 DEF Last
  <2>6. SlotIn(Root, m) = j
    BY <1>1, <2>2, <2>3, SlotFound
  <2>7. DirOf(p) = c
    BY <1>1, <2>1, <2>5, <2>6 DEF DirOf
  <2> QED BY <1>1, <1>2, <1>4, <2>5, <2>7 DEF Exists, SlotOf, EntryOf
<1> QED BY <1>5, <1>6

\* Two paths that exist do not lead to the same slot.
LEMMA OnePath ==
  ASSUME SoundTree(data), NEW p \in Path, NEW q \in Path, Exists(p), Exists(q),
         DirOf(p) = DirOf(q), SlotOf(p) = SlotOf(q)
  PROVE  p = q
<1>1. DirOf(p) # 0
  BY DEF Exists
<1>2. Last(p) = Last(q)
  <2>1. EntryOf(p).name = Last(p) /\ EntryOf(q).name = Last(q)
    BY PathSlot
  <2> QED BY <2>1 DEF EntryOf
<1>3. CASE DirOf(p) = Root
  <2>1. Len(p) = 1 /\ Len(q) = 1
    BY <1>1, <1>3, PathPlace
  <2>2. OneName(p) /\ OneName(q)
    BY <2>1, PathShape
  <2> QED BY <1>2, <2>2 DEF OneName
<1>4. CASE DirOf(p) # Root
  <2>1. PICK i \in Offset : /\ Slot(data, Root, i) /\ data[Root][i].first = DirOf(p)
                            /\ data[Root][i].name = Head(p)
    BY <1>1, <1>4, PathPlace
  <2>2. PICK j \in Offset : /\ Slot(data, Root, j) /\ data[Root][j].first = DirOf(q)
                            /\ data[Root][j].name = Head(q)
    BY <1>1, <1>4, PathPlace
  <2>3. i = j
    BY <2>1, <2>2, ClusterFacts DEF SoundTree, FirstOnce
  <2>4. Len(p) = 2 /\ Len(q) = 2
    BY <1>1, <1>4, PathPlace
  <2>5. TwoNames(p) /\ TwoNames(q)
    BY <2>4, PathShape
  <2>6. Head(p) = Head(q)
    BY <2>1, <2>2, <2>3
  <2> QED BY <1>2, <2>5, <2>6 DEF TwoNames
<1> QED BY <1>3, <1>4

(***************************************************************************)
(* What each kind of change does to a sound file system                    *)
(***************************************************************************)
LEMMA CapacityFacts ==
  /\ \A n \in Nat : Capacity(n) \in Nat
  /\ \A m, n \in Nat : m <= n => Capacity(m) <= Capacity(n)
<1>1. CellsPerCluster \in Nat
  BY CellsAssumption
<1>2. \A k, e \in Nat : k * e \in Nat /\ k * e >= 0
  OBVIOUS
<1>3. \A n \in Nat : Capacity(n) \in Nat
  BY <1>1, <1>2 DEF Capacity
<1>4. ASSUME NEW m \in Nat, NEW n \in Nat, m <= n PROVE Capacity(m) <= Capacity(n)
  <2>1. n - m \in Nat /\ (n - m) * CellsPerCluster >= 0
    BY <1>1, <1>2, <1>4
  <2>2. n * CellsPerCluster = m * CellsPerCluster + (n - m) * CellsPerCluster
    BY <1>1
  <2>3. m * CellsPerCluster \in Int /\ n * CellsPerCluster \in Int /\ (n - m) * CellsPerCluster \in Int
    BY <1>1, <2>1
  <2> QED BY <2>1, <2>2, <2>3 DEF Capacity
<1> QED BY <1>3, <1>4

\* The fields of the entry at a slot have their types.
LEMMA SlotFields ==
  ASSUME NEW d \in Cells, NEW c, NEW i, Slot(d, c, i)
  PROVE  /\ d[c][i].name \in Names /\ d[c][i].first \in Cluster /\ d[c][i].size \in 0..MaxSize
         /\ d[c][i].dir \in BOOLEAN /\ d[c][i].size \in Nat
         /\ FirstOf(d, d[c][i].first)
<1>1. c \in Cluster /\ i \in Offset
  BY DEF Slot
<1>2. d[c][i] \in Cell /\ d[c][i].kind = "entry"
  BY <1>1 DEF Slot, Cells
<1>3. /\ d[c][i].name \in Names /\ d[c][i].first \in Cluster /\ d[c][i].size \in 0..MaxSize
      /\ d[c][i].dir \in BOOLEAN
  BY <1>2, CellKinds
<1>4. FirstOf(d, d[c][i].first)
  BY <1>1 DEF FirstOf
<1> QED BY <1>3, <1>4, WriteAssumption

\* A free cluster is nobody's.
LEMMA FreeIsNew ==
  ASSUME NEW f, NEW d, NEW l, NEW hs, NEW ch, Sound(f, d, l, hs, ch), NEW a \in Cluster, f[a] = 0
  PROVE  /\ ch[a] = <<>> /\ a # Root /\ a \notin l /\ ~ FirstOf(d, a) /\ ~ IsDirectory(d, a)
         /\ \A b \in Cluster : ~ InChain(ch, b, a)
<1>1. ch[a] = <<>> /\ \A b \in Cluster : ~ InChain(ch, b, a)
  BY FreeIsAlone DEF Sound
<1>2. a # Root /\ a \notin l /\ ~ FirstOf(d, a)
  BY <1>1 DEF Sound, Filled, Owned
<1>3. ~ IsDirectory(d, a)
  <2> SUFFICES ASSUME NEW i \in Offset, d[Root][i].kind = "entry", d[Root][i].first = a PROVE FALSE
    BY <1>2 DEF IsDirectory
  <2>1. Slot(d, Root, i)
    BY ClusterFacts DEF Slot, IsDirectory
  <2> QED BY <1>2, <2>1, ClusterFacts DEF FirstOf
<1> QED BY <1>1, <1>2, <1>3

\* A directory is the first cluster of a chain of its own.
LEMMA DirectoryChain ==
  ASSUME NEW f, NEW d, NEW l, NEW hs, NEW ch, Sound(f, d, l, hs, ch),
         NEW c \in Cluster, IsDirectory(d, c)
  PROVE  /\ ch[c] # <<>> /\ f[c] # 0 /\ InChain(ch, c, c)
         /\ \A a \in Cluster : InChain(ch, a, c) => a = c
<1>1. ch[c] # <<>>
  <2>1. CASE c = Root
    BY <2>1 DEF Sound, Filled, Owned
  <2>2. CASE c # Root
    <3>1. PICK i \in Offset : d[Root][i].kind = "entry" /\ d[Root][i].first = c
      BY <2>2 DEF IsDirectory
    <3>2. Slot(d, Root, i) /\ Root \in Cluster
      BY <3>1, ClusterFacts DEF Slot, IsDirectory
    <3>3. FirstOf(d, c)
      BY <3>1, <3>2 DEF FirstOf
    <3> QED BY <3>3 DEF Sound, Filled, Owned
  <2> QED BY <2>1, <2>2
<1>2. Layout(f, ch)
  BY DEF Sound
<1>3. InChain(ch, c, c)
  <2>1. Len(ch[c]) \in Nat /\ Len(ch[c]) > 0 /\ ch[c][1] = c
    BY <1>1, <1>2, ChainFacts
  <2> QED BY <2>1 DEF InChain
<1>4. f[c] # 0
  BY <1>2, <1>3, ChainFacts
<1>5. \A a \in Cluster : InChain(ch, a, c) => a = c
  BY <1>2, <1>3 DEF InChain, Layout, Apart
<1> QED BY <1>1, <1>3, <1>4, <1>5

\* The slot of a first cluster, which decides whether it is a directory
LEMMA SlotDirectory ==
  ASSUME NEW d, SoundTree(d), NEW c, NEW i, Slot(d, c, i)
  PROVE  IsDirectory(d, d[c][i].first) <=> d[c][i].dir
<1>1. c \in Cluster /\ i \in Offset /\ Root \in Cluster /\ d[c][i].kind = "entry"
  BY ClusterFacts DEF Slot
<1>2. d[c][i].first # Root
  BY <1>1 DEF SoundTree, BelowRoot
<1>3. ASSUME d[c][i].dir PROVE IsDirectory(d, d[c][i].first)
  <2>1. c = Root
    BY <1>1, <1>3 DEF SoundTree, Flat
  <2> QED BY <1>1, <1>3, <2>1 DEF IsDirectory
<1>4. ASSUME IsDirectory(d, d[c][i].first) PROVE d[c][i].dir
  <2>1. PICK j \in Offset : /\ d[Root][j].kind = "entry" /\ d[Root][j].dir
                            /\ d[Root][j].first = d[c][i].first
    BY <1>2, <1>4 DEF IsDirectory
  <2>2. Slot(d, Root, j)
    BY <1>1, <2>1 DEF Slot, IsDirectory
  <2>3. c = Root /\ i = j
    BY <1>1, <2>1, <2>2 DEF SoundTree, FirstOnce
  <2> QED BY <2>1, <2>3
<1> QED BY <1>3, <1>4

\* Cells outside directories may change.
LEMMA SoundSame ==
  ASSUME NEW f, NEW d, NEW l, NEW hs, NEW ch, Sound(f, d, l, hs, ch), NEW e \in Cells,
         \A c \in Cluster : IsDirectory(d, c) => e[c] = d[c]
  PROVE  Sound(f, e, l, hs, ch)
<1>1. SoundTree(e) /\ SameDirectories(d, e)
  BY SameTree DEF Sound
<1>2. \A c, i : /\ Slot(e, c, i) <=> Slot(d, c, i)
                /\ Slot(d, c, i) => e[c][i] = d[c][i]
  BY <1>1 DEF SameDirectories, Slot
<1>3. \A a : FirstOf(e, a) <=> FirstOf(d, a)
  BY <1>2 DEF FirstOf
<1>4. Filled(ch, d, l) /\ Hands(hs, ch, d)
  BY DEF Sound
<1>5. Owned(ch, e, l) /\ Unshared(e, l) /\ Single(ch, l)
  BY <1>3, <1>4 DEF Filled, Owned, Unshared
<1>6. Sized(ch, e)
  BY <1>2, <1>4 DEF Filled, Sized
<1>7. Hands(hs, ch, e)
  BY <1>2, <1>4 DEF Hands, InPlace
<1> QED BY <1>1, <1>5, <1>6, <1>7 DEF Sound, Filled

\* A file or directory is created in cluster a.
LEMMA SoundAdd ==
  ASSUME NEW f, NEW d, NEW l, NEW hs, NEW ch, Sound(f, d, l, hs, ch),
         NEW c, NEW i, NEW n, NEW a \in Cluster, NEW b, f[a] = 0, MayAdd(d, c, i, n, a, 0, b)
  PROVE  Sound([f EXCEPT ![a] = Eoc], PutCell(d, c, i, Entry(n, a, 0, b)), l, hs,
               [ch EXCEPT ![a] = <<a>>])
<1>1. PICK e, g, new : /\ e = PutCell(d, c, i, Entry(n, a, 0, b)) /\ g = [f EXCEPT ![a] = Eoc]
                       /\ new = [ch EXCEPT ![a] = <<a>>]
  OBVIOUS
<1>2. Layout(f, ch) /\ SoundTree(d) /\ Filled(ch, d, l) /\ Hands(hs, ch, d)
  BY DEF Sound
<1>3. ch[a] = <<>> /\ a # Root /\ a \notin l /\ ~ FirstOf(d, a)
  BY FreeIsNew
<1>4. Layout(g, new)
  BY <1>1, <1>2, NewRewires, RewiredLayout
<1>5. SoundTree(e) /\ Added(d, e, c, i, n, a, 0, b)
  BY <1>1, <1>2, AddTree
<1>6. /\ ch \in [Cluster -> Seq(Cluster)] /\ new[a] = <<a>>
      /\ \A x \in Cluster : x # a => new[x] = ch[x]
  BY <1>1, <1>2 DEF Layout, Chains
<1>7. c \in Cluster /\ i \in Offset /\ b \in BOOLEAN
  BY DEF MayAdd
<1>8. /\ e[c][i].first = a /\ e[c][i].size = 0 /\ Slot(e, c, i) /\ ~ Slot(d, c, i)
  <2>1. e[c][i] = Entry(n, a, 0, b) /\ Slot(e, c, i) /\ ~ Slot(d, c, i)
    BY <1>5, <1>7 DEF Added
  <2> QED BY <2>1, <1>7, EntryFields
<1>9. \A x \in Cluster, j \in Offset : /\ Slot(e, x, j) <=> Slot(d, x, j) \/ (x = c /\ j = i)
                                       /\ Slot(d, x, j) => e[x][j] = d[x][j]
  BY <1>5 DEF Added
<1>10. \A x : FirstOf(e, x) <=> FirstOf(d, x) \/ x = a
  BY <1>7, <1>8, <1>9 DEF FirstOf
<1>11. Owned(new, e, l)
  <2> SUFFICES ASSUME NEW x \in Cluster
               PROVE  new[x] # <<>> <=> x = Root \/ x \in l \/ FirstOf(e, x)
    BY DEF Owned
  <2>1. CASE x = a
    <3>1. <<a>> # <<>>
      OBVIOUS
    <3> QED BY <1>6, <1>10, <2>1, <3>1
  <2>2. CASE x # a
    BY <1>2, <1>6, <1>10, <2>2 DEF Filled, Owned
  <2> QED BY <2>1, <2>2
<1>12. Single(new, l) /\ Unshared(e, l)
  BY <1>2, <1>3, <1>6, <1>10, ClusterFacts DEF Filled, Single, Unshared
<1>13. ASSUME NEW x \in Cluster, NEW j \in Offset, Slot(d, x, j)
       PROVE  d[x][j].first \in Cluster /\ new[d[x][j].first] = ch[d[x][j].first]
  <2>1. d[x][j].first \in Cluster /\ FirstOf(d, d[x][j].first)
    BY <1>2, <1>13, SlotFields DEF SoundTree
  <2> QED BY <1>3, <1>6, <2>1
<1>14. Sized(new, e)
  <2> SUFFICES ASSUME NEW x \in Cluster, NEW j \in Offset, Slot(e, x, j)
               PROVE  e[x][j].size <= Capacity(Len(new[e[x][j].first]))
    BY DEF Sized
  <2>1. CASE x = c /\ j = i
    <3>1. Len(new[a]) = 1
      BY <1>6
    <3> QED BY <1>8, <2>1, <3>1, CapacityFacts
  <2>2. CASE ~ (x = c /\ j = i)
    <3>1. Slot(d, x, j) /\ e[x][j] = d[x][j]
      BY <1>9, <2>2
    <3> QED BY <1>2, <1>13, <3>1 DEF Filled, Sized
  <2> QED BY <2>1, <2>2
<1>15. Hands(hs, new, e)
  <2>1. ASSUME NEW h \in Handle, hs[h].open PROVE InPlace(hs[h], new, e)
    <3>1. PICK x, j : x = hs[h].dirCluster /\ j = hs[h].dirIndex
      OBVIOUS
    <3>2. InPlace(hs[h], ch, d) /\ Slot(d, x, j) /\ d[x][j].first = hs[h].first
      BY <1>2, <2>1, <3>1 DEF Hands, InPlace
    <3>3. x \in Cluster /\ j \in Offset
      BY <3>2 DEF Slot
    <3>4. Slot(e, x, j) /\ e[x][j] = d[x][j] /\ new[hs[h].first] = ch[hs[h].first]
      BY <1>9, <1>13, <3>2, <3>3
    <3> QED BY <3>1, <3>2, <3>4 DEF InPlace
  <2> QED BY <1>2, <2>1 DEF Hands
<1>16. Sound(g, e, l, hs, new)
  BY <1>4, <1>5, <1>11, <1>12, <1>14, <1>15 DEF Sound, Filled
<1> QED BY <1>1, <1>16

\* A cluster is taken and belongs to nothing.
LEMMA SoundLeak ==
  ASSUME NEW f, NEW d, NEW l, NEW hs, NEW ch, Sound(f, d, l, hs, ch), NEW a \in Cluster, f[a] = 0
  PROVE  Sound([f EXCEPT ![a] = Eoc], d, l \cup {a}, hs, [ch EXCEPT ![a] = <<a>>])
<1>1. PICK g, new : g = [f EXCEPT ![a] = Eoc] /\ new = [ch EXCEPT ![a] = <<a>>]
  OBVIOUS
<1>2. Layout(f, ch) /\ SoundTree(d) /\ Filled(ch, d, l) /\ Hands(hs, ch, d)
  BY DEF Sound
<1>3. ch[a] = <<>> /\ a # Root /\ a \notin l /\ ~ FirstOf(d, a)
  BY FreeIsNew
<1>4. Layout(g, new)
  BY <1>1, <1>2, NewRewires, RewiredLayout
<1>5. /\ ch \in [Cluster -> Seq(Cluster)] /\ new[a] = <<a>>
      /\ \A x \in Cluster : x # a => new[x] = ch[x]
  BY <1>1, <1>2 DEF Layout, Chains
<1>6. Owned(new, d, l \cup {a})
  <2> SUFFICES ASSUME NEW x \in Cluster
               PROVE  new[x] # <<>> <=> x = Root \/ x \in l \cup {a} \/ FirstOf(d, x)
    BY DEF Owned
  <2>1. CASE x = a
    <3>1. <<a>> # <<>>
      OBVIOUS
    <3> QED BY <1>5, <2>1, <3>1
  <2>2. CASE x # a
    BY <1>2, <1>5, <2>2 DEF Filled, Owned
  <2> QED BY <2>1, <2>2
<1>7. Single(new, l \cup {a})
  <2>1. Len(new[a]) = 1
    BY <1>5
  <2>2. \A x \in l \cup {Root} : x # a /\ x \in Cluster /\ Len(ch[x]) = 1
    BY <1>2, <1>3, ClusterFacts DEF Filled, Single
  <2> QED BY <1>2, <1>5, <2>1, <2>2 DEF Filled, Single
<1>8. Unshared(d, l \cup {a})
  BY <1>2, <1>3 DEF Filled, Unshared
<1>9. ASSUME NEW x \in Cluster, FirstOf(d, x) PROVE new[x] = ch[x]
  BY <1>3, <1>5, <1>9
<1>10. Sized(new, d)
  <2> SUFFICES ASSUME NEW x \in Cluster, NEW j \in Offset, Slot(d, x, j)
               PROVE  d[x][j].size <= Capacity(Len(new[d[x][j].first]))
    BY DEF Sized
  <2>1. d[x][j].first \in Cluster /\ FirstOf(d, d[x][j].first)
    BY <1>2, SlotFields DEF SoundTree
  <2> QED BY <1>2, <1>9, <2>1 DEF Filled, Sized
<1>11. Hands(hs, new, d)
  <2>1. ASSUME NEW h \in Handle, hs[h].open PROVE InPlace(hs[h], new, d)
    <3>1. InPlace(hs[h], ch, d)
      BY <1>2, <2>1 DEF Hands
    <3>2. PICK x, j : x = hs[h].dirCluster /\ j = hs[h].dirIndex
      OBVIOUS
    <3>3. Slot(d, x, j) /\ d[x][j].first = hs[h].first
      BY <3>1, <3>2 DEF InPlace
    <3>4. d[x][j].first \in Cluster /\ FirstOf(d, d[x][j].first)
      BY <1>2, <3>3, SlotFields DEF SoundTree
    <3>5. new[hs[h].first] = ch[hs[h].first]
      BY <1>9, <3>3, <3>4
    <3> QED BY <3>1, <3>5 DEF InPlace
  <2> QED BY <1>2, <2>1 DEF Hands
<1>12. Sound(g, d, l \cup {a}, hs, new)
  BY <1>2, <1>4, <1>6, <1>7, <1>8, <1>10, <1>11 DEF Sound, Filled
<1> QED BY <1>1, <1>12

\* An entry that no open file uses is removed, and its chain given back.
LEMMA SoundRemove ==
  ASSUME NEW f, NEW d, NEW l, NEW hs, NEW ch, Sound(f, d, l, hs, ch),
         NEW c, NEW i, Slot(d, c, i), NEW a, a = d[c][i].first,
         d[c][i].dir => \A j \in Offset : ~ Slot(d, a, j),
         \A h \in Handle : hs[h].open => ~ (hs[h].dirCluster = c /\ hs[h].dirIndex = i)
  PROVE  Sound(Released(f, ch[a]), PutCell(d, c, i, Deleted), l, hs, [ch EXCEPT ![a] = <<>>])
<1>1. PICK e, g, new : /\ e = PutCell(d, c, i, Deleted) /\ g = Released(f, ch[a])
                       /\ new = [ch EXCEPT ![a] = <<>>]
  OBVIOUS
<1>2. Layout(f, ch) /\ SoundTree(d) /\ Filled(ch, d, l) /\ Hands(hs, ch, d)
  BY DEF Sound
<1>3. a \in Cluster /\ FirstOf(d, a) /\ c \in Cluster /\ i \in Offset
  BY <1>2, SlotFields DEF SoundTree, Slot
<1>4. a # Root /\ a \notin l
  BY <1>2, <1>3 DEF Filled, Unshared, SoundTree, BelowRoot
<1>5. Layout(g, new)
  BY <1>1, <1>2, <1>3, ReleaseRewires, RewiredLayout
<1>6. /\ new[a] = <<>> /\ \A x \in Cluster : x # a => new[x] = ch[x]
  BY <1>1, <1>2, <1>3 DEF Layout, Chains
<1>7. SoundTree(e) /\ Removed(d, e, c, i)
  BY <1>1, <1>2, RemoveTree
<1>8. \A x \in Cluster, j \in Offset : /\ Slot(e, x, j) <=> Slot(d, x, j) /\ ~ (x = c /\ j = i)
                                       /\ Slot(e, x, j) => e[x][j] = d[x][j]
  BY <1>7 DEF Removed
\* The other slots have other first clusters.
<1>9. ASSUME NEW x \in Cluster, NEW j \in Offset, Slot(e, x, j)
      PROVE  e[x][j].first \in Cluster /\ e[x][j].first # a /\ new[e[x][j].first] = ch[e[x][j].first]
  <2>1. Slot(d, x, j) /\ ~ (x = c /\ j = i) /\ e[x][j] = d[x][j]
    BY <1>8, <1>9
  <2>2. d[x][j].first # a
    BY <1>2, <1>3, <2>1 DEF SoundTree, FirstOnce
  <2>3. d[x][j].first \in Cluster
    BY <1>2, <2>1, SlotFields DEF SoundTree
  <2> QED BY <1>6, <2>1, <2>2, <2>3
<1>10. ASSUME NEW x \in Cluster PROVE FirstOf(e, x) <=> FirstOf(d, x) /\ x # a
  <2>1. ASSUME FirstOf(e, x) PROVE FirstOf(d, x) /\ x # a
    <3>1. PICK y \in Cluster, j \in Offset : Slot(e, y, j) /\ e[y][j].first = x
      BY <2>1 DEF FirstOf
    <3>2. x # a /\ Slot(d, y, j) /\ e[y][j] = d[y][j]
      BY <1>8, <1>9, <3>1
    <3> QED BY <3>1, <3>2 DEF FirstOf
  <2>2. ASSUME FirstOf(d, x), x # a PROVE FirstOf(e, x)
    <3>1. PICK y \in Cluster, j \in Offset : Slot(d, y, j) /\ d[y][j].first = x
      BY <2>2 DEF FirstOf
    <3>2. Slot(e, y, j) /\ e[y][j] = d[y][j]
      BY <1>8, <2>2, <3>1
    <3> QED BY <3>1, <3>2 DEF FirstOf
  <2> QED BY <2>1, <2>2
<1>11. Owned(new, e, l)
  <2> SUFFICES ASSUME NEW x \in Cluster
               PROVE  new[x] # <<>> <=> x = Root \/ x \in l \/ FirstOf(e, x)
    BY DEF Owned
  <2>1. CASE x = a
    BY <1>4, <1>6, <1>10, <2>1
  <2>2. CASE x # a
    BY <1>2, <1>6, <1>10, <2>2 DEF Filled, Owned
  <2> QED BY <2>1, <2>2
<1>12. Single(new, l)
  BY <1>2, <1>4, <1>6, ClusterFacts DEF Filled, Single
<1>13. Unshared(e, l)
  BY <1>2, <1>10 DEF Filled, Unshared, Single
<1>14. Sized(new, e)
  <2> SUFFICES ASSUME NEW x \in Cluster, NEW j \in Offset, Slot(e, x, j)
               PROVE  e[x][j].size <= Capacity(Len(new[e[x][j].first]))
    BY DEF Sized
  <2>1. Slot(d, x, j) /\ e[x][j] = d[x][j]
    BY <1>8
  <2> QED BY <1>2, <1>9, <2>1 DEF Filled, Sized
<1>15. Hands(hs, new, e)
  <2>1. ASSUME NEW h \in Handle, hs[h].open PROVE InPlace(hs[h], new, e)
    <3>1. PICK x, j : x = hs[h].dirCluster /\ j = hs[h].dirIndex
      OBVIOUS
    <3>2. InPlace(hs[h], ch, d) /\ Slot(d, x, j) /\ d[x][j].first = hs[h].first
      BY <1>2, <2>1, <3>1 DEF Hands, InPlace
    <3>3. x \in Cluster /\ j \in Offset /\ ~ (x = c /\ j = i)
      BY <2>1, <3>1, <3>2 DEF Slot
    <3>4. Slot(e, x, j) /\ e[x][j] = d[x][j]
      BY <1>8, <3>2, <3>3
    <3>5. new[hs[h].first] = ch[hs[h].first]
      BY <1>9, <3>2, <3>3, <3>4
    <3> QED BY <3>1, <3>2, <3>4, <3>5 DEF InPlace
  <2> QED BY <1>2, <2>1 DEF Hands
<1>16. Sound(g, e, l, hs, new)
  BY <1>5, <1>7, <1>11, <1>12, <1>13, <1>14, <1>15 DEF Sound, Filled
<1> QED BY <1>1, <1>16

\* The size in an entry changes.
LEMMA SoundResize ==
  ASSUME NEW f, NEW d, NEW l, NEW hs, NEW ch, Sound(f, d, l, hs, ch),
         NEW c, NEW i, Slot(d, c, i), NEW k \in 0..MaxSize, NEW x,
         x = Entry(d[c][i].name, d[c][i].first, k, d[c][i].dir),
         k <= Capacity(Len(ch[d[c][i].first])),
         \A h \in Handle : hs[h].open /\ hs[h].dirCluster = c /\ hs[h].dirIndex = i => k <= hs[h].size
  PROVE  Sound(f, PutCell(d, c, i, x), l, hs, ch)
<1>1. PICK e : e = PutCell(d, c, i, x)
  OBVIOUS
<1>2. Layout(f, ch) /\ SoundTree(d) /\ Filled(ch, d, l) /\ Hands(hs, ch, d)
  BY DEF Sound
<1>3. SoundTree(e) /\ Resized(d, e, c, i, k)
  BY <1>1, <1>2, ResizeTree
<1>4. c \in Cluster /\ i \in Offset
  BY DEF Slot
<1>5. \A y \in Cluster, j \in Offset : /\ Slot(e, y, j) <=> Slot(d, y, j)
                                       /\ e[y][j].first = d[y][j].first \/ ~ Slot(d, y, j)
                                       /\ e[y][j].dir = d[y][j].dir \/ ~ Slot(d, y, j)
                                       /\ y # c \/ j # i => e[y][j] = d[y][j]
  BY <1>3 DEF Resized
<1>6. e[c][i].size = k
  BY <1>3 DEF Resized
<1>7. \A y : FirstOf(e, y) <=> FirstOf(d, y)
  BY <1>5 DEF FirstOf
<1>8. Owned(ch, e, l) /\ Unshared(e, l) /\ Single(ch, l)
  BY <1>2, <1>7 DEF Filled, Owned, Unshared
<1>9. Sized(ch, e)
  <2> SUFFICES ASSUME NEW y \in Cluster, NEW j \in Offset, Slot(e, y, j)
               PROVE  e[y][j].size <= Capacity(Len(ch[e[y][j].first]))
    BY DEF Sized
  <2>1. Slot(d, y, j) /\ e[y][j].first = d[y][j].first
    BY <1>5
  <2>2. CASE y = c /\ j = i
    BY <1>6, <2>1, <2>2
  <2>3. CASE ~ (y = c /\ j = i)
    BY <1>2, <1>5, <2>1, <2>3 DEF Filled, Sized
  <2> QED BY <2>2, <2>3
<1>10. Hands(hs, ch, e)
  <2>1. ASSUME NEW h \in Handle, hs[h].open PROVE InPlace(hs[h], ch, e)
    <3>1. PICK y, j : y = hs[h].dirCluster /\ j = hs[h].dirIndex
      OBVIOUS
    <3>2. InPlace(hs[h], ch, d) /\ Slot(d, y, j)
      BY <1>2, <2>1, <3>1 DEF Hands, InPlace
    <3>3. y \in Cluster /\ j \in Offset
      BY <3>2 DEF Slot
    <3>4. Slot(e, y, j) /\ e[y][j].first = d[y][j].first /\ e[y][j].dir = d[y][j].dir
      BY <1>5, <3>2, <3>3
    <3>5. e[y][j].size <= hs[h].size
      <4>1. CASE y = c /\ j = i
        BY <1>6, <2>1, <3>1, <4>1
      <4>2. CASE ~ (y = c /\ j = i)
        BY <1>5, <3>1, <3>2, <3>3, <4>2 DEF InPlace
      <4> QED BY <4>1, <4>2
    <3> QED BY <3>1, <3>2, <3>4, <3>5 DEF InPlace
  <2> QED BY <1>2, <2>1 DEF Hands
<1>11. Sound(f, e, l, hs, ch)
  BY <1>2, <1>3, <1>8, <1>9, <1>10 DEF Sound, Filled
<1> QED BY <1>1, <1>11

\* The chain of a file changes and stays long enough.
LEMMA SoundRewire ==
  ASSUME NEW f, NEW d, NEW l, NEW hs, NEW ch, Sound(f, d, l, hs, ch),
         NEW c, NEW i, Slot(d, c, i), NEW a, a = d[c][i].first, NEW s, NEW g,
         Rewired(f, ch, a, s, g), s # <<>>, d[c][i].size <= Capacity(Len(s)),
         \A h \in Handle : hs[h].open /\ hs[h].dirCluster = c /\ hs[h].dirIndex = i
            => hs[h].size <= Capacity(Len(s))
  PROVE  Sound(g, d, l, hs, [ch EXCEPT ![a] = s])
<1>1. PICK new : new = [ch EXCEPT ![a] = s]
  OBVIOUS
<1>2. Layout(f, ch) /\ SoundTree(d) /\ Filled(ch, d, l) /\ Hands(hs, ch, d)
  BY DEF Sound
<1>3. a \in Cluster /\ FirstOf(d, a) /\ c \in Cluster /\ i \in Offset
  BY <1>2, SlotFields DEF SoundTree, Slot
<1>4. a # Root /\ a \notin l
  BY <1>2, <1>3 DEF Filled, Unshared, SoundTree, BelowRoot
<1>5. Layout(g, new)
  BY <1>1, <1>2, <1>3, RewiredLayout
<1>6. /\ new[a] = s /\ \A x \in Cluster : x # a => new[x] = ch[x]
  BY <1>1, <1>2, <1>3 DEF Layout, Chains
<1>7. Owned(new, d, l)
  <2> SUFFICES ASSUME NEW x \in Cluster
               PROVE  new[x] # <<>> <=> x = Root \/ x \in l \/ FirstOf(d, x)
    BY DEF Owned
  <2>1. CASE x = a
    BY <1>3, <1>6, <2>1
  <2>2. CASE x # a
    BY <1>2, <1>6, <2>2 DEF Filled, Owned
  <2> QED BY <2>1, <2>2
<1>8. Single(new, l)
  BY <1>2, <1>4, <1>6, ClusterFacts DEF Filled, Single
<1>9. ASSUME NEW x \in Cluster, NEW j \in Offset, Slot(d, x, j), ~ (x = c /\ j = i)
      PROVE  d[x][j].first # a /\ d[x][j].first \in Cluster
  <2>1. d[x][j].first # a
    BY <1>2, <1>3, <1>9 DEF SoundTree, FirstOnce
  <2>2. d[x][j].first \in Cluster
    BY <1>2, <1>9, SlotFields DEF SoundTree
  <2> QED BY <2>1, <2>2
<1>10. Sized(new, d)
  <2> SUFFICES ASSUME NEW x \in Cluster, NEW j \in Offset, Slot(d, x, j)
               PROVE  d[x][j].size <= Capacity(Len(new[d[x][j].first]))
    BY DEF Sized
  <2>1. CASE x = c /\ j = i
    BY <1>6, <2>1
  <2>2. CASE ~ (x = c /\ j = i)
    BY <1>2, <1>6, <1>9, <2>2 DEF Filled, Sized
  <2> QED BY <2>1, <2>2
<1>11. Hands(hs, new, d)
  <2>1. ASSUME NEW h \in Handle, hs[h].open PROVE InPlace(hs[h], new, d)
    <3>1. PICK x, j : x = hs[h].dirCluster /\ j = hs[h].dirIndex
      OBVIOUS
    <3>2. InPlace(hs[h], ch, d) /\ Slot(d, x, j) /\ d[x][j].first = hs[h].first
      BY <1>2, <2>1, <3>1 DEF Hands, InPlace
    <3>3. x \in Cluster /\ j \in Offset
      BY <3>2 DEF Slot
    <3>4. hs[h].size <= Capacity(Len(new[hs[h].first]))
      <4>1. CASE x = c /\ j = i
        BY <1>6, <2>1, <3>1, <3>2, <4>1
      <4>2. CASE ~ (x = c /\ j = i)
        <5>1. new[hs[h].first] = ch[hs[h].first]
          BY <1>6, <1>9, <3>2, <3>3, <4>2
        <5> QED BY <3>2, <5>1 DEF InPlace
      <4> QED BY <4>1, <4>2
    <3> QED BY <3>2, <3>4 DEF InPlace
  <2> QED BY <1>2, <2>1 DEF Hands
<1>12. Sound(g, d, l, hs, new)
  BY <1>2, <1>5, <1>7, <1>8, <1>10, <1>11 DEF Sound, Filled
<1> QED BY <1>1, <1>12

\* One handle changes: a file is opened, or its handle moves;
LEMMA SoundHandle ==
  ASSUME NEW f, NEW d, NEW l, NEW hs, NEW ch, Sound(f, d, l, hs, ch),
         NEW h \in Handle, NEW x \in File, InPlace(x, ch, d),
         \A g \in Handle : g # h /\ hs[g].open /\ hs[g].dirCluster = x.dirCluster
            /\ hs[g].dirIndex = x.dirIndex => hs[g].size = x.size
  PROVE  Sound(f, d, l, [hs EXCEPT ![h] = x], ch)
<1>1. PICK new : new = [hs EXCEPT ![h] = x]
  OBVIOUS
<1>2. Hands(hs, ch, d)
  BY DEF Sound
<1>3. /\ new \in [Handle -> {Closed} \cup File] /\ new[h] = x
      /\ \A g \in Handle : g # h => new[g] = hs[g]
  BY <1>1, <1>2 DEF Hands
<1>4. Agree(new)
  <2> SUFFICES ASSUME NEW u \in Handle, NEW v \in Handle, new[u].open, new[v].open,
                      new[u].dirCluster = new[v].dirCluster, new[u].dirIndex = new[v].dirIndex
               PROVE  new[u].size = new[v].size
    BY DEF Agree
  <2>1. CASE u = h /\ v = h
    BY <2>1
  <2>2. CASE u = h /\ v # h
    BY <1>3, <2>2
  <2>3. CASE u # h /\ v = h
    BY <1>3, <2>3
  <2>4. CASE u # h /\ v # h
    BY <1>2, <1>3, <2>4 DEF Hands, Agree
  <2> QED BY <2>1, <2>2, <2>3, <2>4
<1>5. \A g \in Handle : new[g].open => InPlace(new[g], ch, d)
  BY <1>2, <1>3 DEF Hands
<1>6. Hands(new, ch, d)
  BY <1>3, <1>4, <1>5 DEF Hands
<1>7. Sound(f, d, l, new, ch)
  BY <1>6 DEF Sound
<1> QED BY <1>1, <1>7

\* or it is closed.
LEMMA SoundClose ==
  ASSUME NEW f, NEW d, NEW l, NEW hs, NEW ch, Sound(f, d, l, hs, ch), NEW h \in Handle
  PROVE  Sound(f, d, l, [hs EXCEPT ![h] = Closed], ch)
<1>1. PICK new : new = [hs EXCEPT ![h] = Closed]
  OBVIOUS
<1>2. Hands(hs, ch, d)
  BY DEF Sound
<1>3. /\ new \in [Handle -> {Closed} \cup File] /\ ~ new[h].open
      /\ \A g \in Handle : g # h => new[g] = hs[g]
  BY <1>1, <1>2 DEF Hands, Closed
<1>4. \A g \in Handle : new[g].open => g # h
  BY <1>3
<1>5. Hands(new, ch, d)
  BY <1>2, <1>3, <1>4 DEF Hands, Agree
<1>6. Sound(f, d, l, new, ch)
  BY <1>5 DEF Sound
<1> QED BY <1>1, <1>6

Typed(f, d, l, hs) ==
  /\ f \in [Cluster -> FatEntry] /\ d \in Cells /\ l \subseteq Cluster
  /\ hs \in [Handle -> {Closed} \cup File]

\* A sound volume has its types.
LEMMA SoundTyped ==
  ASSUME NEW f, NEW d, NEW l, NEW hs, NEW ch, Sound(f, d, l, hs, ch)
  PROVE  Typed(f, d, l, hs)
BY DEF Sound, Layout, SoundTree, Filled, Single, Hands, Typed

\* Zeroing or forgetting clusters changes only those.
LEMMA ZeroedIs ==
  ASSUME NEW d \in Cells, NEW s \in Seq(Cluster)
  PROVE  /\ Zeroed(d, s) \in Cells /\ Forgotten(d, s) \in Cells
         /\ \A c \in Cluster : (\A i \in 1..Len(s) : s[i] # c) =>
               Zeroed(d, s)[c] = d[c] /\ Forgotten(d, s)[c] = d[c]
         /\ \A c \in Cluster : (\E i \in 1..Len(s) : s[i] = c) => Zeroed(d, s)[c] = ZeroCluster
<1>1. ZeroCluster \in [Offset -> Cell] /\ StaleCluster \in [Offset -> Cell]
  BY CellMembers DEF ZeroCluster, StaleCluster
<1>2. Zeroed(d, s) \in Cells /\ Forgotten(d, s) \in Cells
  BY <1>1 DEF Zeroed, Forgotten, Cells
<1>3. \A c : c \in ToSet(s) <=> \E i \in 1..Len(s) : s[i] = c
  BY InToSet
<1> QED BY <1>2, <1>3 DEF Zeroed, Forgotten

\* The cluster a creation takes is free.
LEMMA NewClusterIs ==
  ASSUME NEW p \in Path, MayCreate(p)
  PROVE  NewCluster \in Cluster /\ fat[NewCluster] = 0
<1>1. PICK s : s = FreeInOrder(fat)
  OBVIOUS
<1>2. s \in Seq(Cluster) /\ s # <<>> /\ \A i \in 1..Len(s) : fat[s[i]] = 0
  BY <1>1, FreeClusters DEF MayCreate
<1>3. 1 \in 1..Len(s) /\ Head(s) = s[1] /\ s[1] \in Cluster
  BY <1>2
<1> QED BY <1>1, <1>2, <1>3 DEF NewCluster

\* The place found for a new entry
LEMMA CreateMayAdd ==
  ASSUME NEW ch, Sound(fat, data, leaked, fds, ch), NEW p \in Path, MayCreate(p),
         Vacant(DirOf(p)) # {}, NEW b \in BOOLEAN, b => Len(p) = 1
  PROVE  LET zeroed == Zeroed(data, <<NewCluster>>)
         IN  /\ Sound(fat, zeroed, leaked, fds, ch)
             /\ MayAdd(zeroed, DirOf(p), Min(Vacant(DirOf(p))), Last(p), NewCluster, 0, b)
<1>1. PICK d, a, c, i : /\ a = NewCluster /\ d = Zeroed(data, <<a>>) /\ c = DirOf(p)
                        /\ i = Min(Vacant(c))
  OBVIOUS
<1>2. /\ Layout(fat, ch) /\ SoundTree(data) /\ data \in Cells
  BY DEF Sound, SoundTree
<1>3. a \in Cluster /\ fat[a] = 0
  BY <1>1, NewClusterIs
<1>4. a # Root /\ ~ FirstOf(data, a) /\ ~ IsDirectory(data, a)
  BY <1>3, FreeIsNew
<1>5. <<a>> \in Seq(Cluster) /\ Len(<<a>>) = 1 /\ <<a>>[1] = a
  BY <1>3
<1>6. d \in Cells /\ d[a] = ZeroCluster /\ \A x \in Cluster : x # a => d[x] = data[x]
  <2>1. PICK s \in Seq(Cluster) : s = <<a>>
    BY <1>5
  <2>2. d = Zeroed(data, s) /\ Len(s) = 1 /\ s[1] = a
    BY <1>1, <1>5, <2>1
  <2>3. \A x \in Cluster : x # a => \A k \in 1..Len(s) : s[k] # x
    BY <2>2
  <2>4. \E k \in 1..Len(s) : s[k] = a
    BY <2>2
  <2>5. d \in Cells
    BY <1>2, <2>2, ZeroedIs
  <2>6. d[a] = ZeroCluster
    BY <1>2, <1>3, <2>2, <2>4, ZeroedIs
  <2>7. \A x \in Cluster : x # a => d[x] = data[x]
    BY <1>2, <2>2, <2>3, ZeroedIs
  <2> QED BY <2>5, <2>6, <2>7
<1>7. Sound(fat, d, leaked, fds, ch)
  BY <1>4, <1>6, SoundSame
<1>8. SoundTree(d) /\ SameDirectories(data, d)
  BY <1>2, <1>4, <1>6, SameTree
<1>9. DirOf(p) # 0 /\ ~ Exists(p)
  BY DEF MayCreate
<1>10. c \in Cluster /\ IsDirectory(data, c) /\ IsDirectory(d, c) /\ d[c] = data[c]
  BY <1>1, <1>2, <1>8, <1>9, PathPlace DEF SameDirectories
<1>11. \A x, j : (Slot(d, x, j) <=> Slot(data, x, j)) /\ (Slot(data, x, j) => d[x][j] = data[x][j])
  BY <1>8 DEF SameDirectories, Slot
<1>12. i \in Offset /\ d[c][i].kind \in {"zero", "deleted"}
       /\ \A j \in Offset : j < i => d[c][j].kind = "entry"
  <2>1. Vacant(c) \in SUBSET Nat /\ Vacant(c) # {}
    BY <1>1, ClusterFacts DEF Vacant
  <2>2. i \in Vacant(c) /\ \A j \in Vacant(c) : i <= j
    BY <1>1, <2>1, MinExists
  <2>3. i \in Offset /\ data[c][i].kind \in {"zero", "deleted"}
    BY <2>2 DEF Vacant
  <2>4. ASSUME NEW j \in Offset, j < i PROVE data[c][j].kind = "entry"
    <3>1. j \notin Vacant(c)
      BY <2>2, <2>3, <2>4, ClusterFacts
    <3>2. data[c][j].kind \in {"entry", "zero", "deleted"}
      BY <1>2, <1>10 DEF SoundTree, Holds
    <3> QED BY <3>1, <3>2 DEF Vacant
  <2> QED BY <1>10, <2>3, <2>4
<1>13. PICK n : n = Last(p)
  OBVIOUS
<1>14. n \in Names
  BY <1>13, PathShape
<1>15. \A j \in Offset : Slot(d, c, j) => d[c][j].name # n
  <2> SUFFICES ASSUME NEW j \in Offset, Slot(d, c, j), d[c][j].name = n PROVE FALSE
    OBVIOUS
  <2>1. SlotIn(c, n) = j
    BY <1>2, <1>10, <1>11, SlotFound
  <2>2. j # 0
    BY CellsAssumption DEF Offset
  <2> QED BY <1>1, <1>9, <1>13, <2>1, <2>2 DEF Exists
<1>16. ~ FirstOf(d, a)
  BY <1>4, <1>11 DEF FirstOf
<1>17. Len(p) = 1 => c = Root
  BY <1>1 DEF DirOf
<1>18. c = Root => <<n>> \in Path
  <2> SUFFICES ASSUME c = Root PROVE <<n>> \in Path
    OBVIOUS
  <2>1. Len(p) = 1
    BY <1>1, <1>2, <1>9, PathPlace
  <2>2. OneName(p)
    BY <2>1, PathShape
  <2> QED BY <1>13, <2>2 DEF OneName
<1>19. ASSUME NEW j \in Offset, Slot(d, Root, j), d[Root][j].dir, d[Root][j].first = c
       PROVE  <<d[Root][j].name, n>> \in Path
  <2>1. Slot(data, Root, j) /\ d[Root][j] = data[Root][j]
    BY <1>11, <1>19
  <2>2. c # Root
    BY <1>2, <1>19, <2>1, ClusterFacts DEF SoundTree, BelowRoot
  <2>3. PICK m \in Offset : Slot(data, Root, m) /\ data[Root][m].first = c /\ data[Root][m].name = Head(p)
    BY <1>1, <1>2, <1>9, <2>2, PathPlace
  <2>4. m = j
    BY <1>2, <1>19, <2>1, <2>3, ClusterFacts DEF SoundTree, FirstOnce
  <2>5. Len(p) = 2
    BY <1>1, <1>2, <1>9, <2>2, PathPlace
  <2>6. TwoNames(p)
    BY <2>5, PathShape
  <2> QED BY <1>13, <2>1, <2>3, <2>4, <2>6 DEF TwoNames
<1>20. b => c = Root /\ d[a] = ZeroCluster
  BY <1>6, <1>17
<1>21. MayAdd(d, c, i, n, a, 0, b)
  BY <1>3, <1>4, <1>10, <1>12, <1>14, <1>15, <1>16, <1>18, <1>19, <1>20, WriteAssumption DEF MayAdd
<1> QED BY <1>1, <1>7, <1>13, <1>21

\* The file or directory is there, with a chain of one cluster.
Created(p, b, ch) ==
  LET e == DataWithNew(p, b)
      i == Min(Vacant(DirOf(p)))
  IN  /\ Slot(e, DirOf(p), i) /\ e[DirOf(p)][i] = Entry(Last(p), NewCluster, 0, b)
      /\ DirOf(p) \in Cluster /\ i \in Offset /\ NewCluster \in Cluster
      /\ ch[NewCluster] = <<NewCluster>>
      /\ \A h \in Handle : fds[h].open => ~ (fds[h].dirCluster = DirOf(p) /\ fds[h].dirIndex = i)
      /\ \A c \in Cluster, j \in Offset : Slot(data, c, j) =>
            Slot(e, c, j) /\ e[c][j] = data[c][j] /\ ~ (c = DirOf(p) /\ j = i)
      /\ \A c \in Cluster, j \in Offset : Slot(e, c, j) => Slot(data, c, j) \/ (c = DirOf(p) /\ j = i)

\* A creation keeps the volume sound and adds one entry with one cluster.
LEMMA SoundCreate ==
  ASSUME NEW ch, Sound(fat, data, leaked, fds, ch), NEW p \in Path, MayCreate(p),
         Vacant(DirOf(p)) # {}, NEW b \in BOOLEAN, b => Len(p) = 1
  PROVE  LET new == [ch EXCEPT ![NewCluster] = <<NewCluster>>]
         IN  Sound(FatWithNew, DataWithNew(p, b), leaked, fds, new) /\ Created(p, b, new)
<1>1. PICK a, c, i, n, new : /\ a = NewCluster /\ c = DirOf(p) /\ i = Min(Vacant(c)) /\ n = Last(p)
                             /\ new = [ch EXCEPT ![a] = <<a>>]
  OBVIOUS
<1>2. PICK d, e : d = Zeroed(data, <<a>>) /\ e = PutCell(d, c, i, Entry(n, a, 0, b))
  OBVIOUS
<1>3. e = DataWithNew(p, b) /\ FatWithNew = [fat EXCEPT ![a] = Eoc]
  BY <1>1, <1>2 DEF DataWithNew, FatWithNew
<1>4. a \in Cluster /\ fat[a] = 0
  BY <1>1, NewClusterIs
<1>5. Sound(fat, d, leaked, fds, ch) /\ MayAdd(d, c, i, n, a, 0, b)
  BY <1>1, <1>2, CreateMayAdd
<1>6. Sound([fat EXCEPT ![a] = Eoc], e, leaked, fds, new)
  BY <1>1, <1>2, <1>4, <1>5, SoundAdd
<1>7. SoundTree(e) /\ Added(d, e, c, i, n, a, 0, b)
  BY <1>2, <1>5, AddTree DEF Sound
<1>8. c \in Cluster /\ i \in Offset
  BY <1>5 DEF MayAdd
<1>9. Slot(e, c, i) /\ e[c][i] = Entry(n, a, 0, b) /\ ~ Slot(d, c, i)
  BY <1>7, <1>8 DEF Added
<1>10. new[a] = <<a>>
  BY <1>1, <1>4 DEF Sound, Layout, Chains
<1>11. ASSUME NEW h \in Handle, fds[h].open PROVE ~ (fds[h].dirCluster = c /\ fds[h].dirIndex = i)
  BY <1>5, <1>9, <1>11 DEF Sound, Hands, InPlace
<1>12. SameDirectories(data, d)
  <2>1. ~ IsDirectory(data, a)
    BY <1>4, FreeIsNew
  <2>2. <<a>> \in Seq(Cluster) /\ Len(<<a>>) = 1 /\ <<a>>[1] = a /\ data \in Cells
    BY <1>4 DEF Sound, SoundTree
  <2>3. d \in Cells /\ \A y \in Cluster : IsDirectory(data, y) => d[y] = data[y]
    <3>1. \A y \in Cluster : y # a => \A k \in 1..Len(<<a>>) : <<a>>[k] # y
      BY <2>2
    <3> QED BY <1>2, <2>1, <2>2, <3>1, ZeroedIs
  <2> QED BY <2>3, SameTree DEF Sound
<1>13. ASSUME NEW x \in Cluster, NEW j \in Offset
       PROVE  /\ Slot(data, x, j) => Slot(e, x, j) /\ e[x][j] = data[x][j] /\ ~ (x = c /\ j = i)
              /\ Slot(e, x, j) => Slot(data, x, j) \/ (x = c /\ j = i)
  <2>1. Slot(d, x, j) <=> Slot(data, x, j)
    BY <1>12 DEF SameDirectories, Slot
  <2>2. Slot(data, x, j) => d[x][j] = data[x][j]
    BY <1>12 DEF SameDirectories, Slot
  <2> QED BY <1>7, <1>9, <2>1, <2>2 DEF Added
<1>14. Created(p, b, new)
  BY <1>1, <1>3, <1>4, <1>8, <1>9, <1>10, <1>11, <1>13 DEF Created
<1> QED BY <1>1, <1>3, <1>6, <1>14

(***************************************************************************)
(* The inductive invariant                                                 *)
(***************************************************************************)
Kept == \E ch : Sound(fat, data, leaked, fds, ch)

VInv ==
  /\ Typed(fat, data, leaked, fds) /\ torn \in Path \cup {NoPath}
  /\ Intact => Kept

IInv == VInv /\ unsaved \in Path \cup {NoPath}

\* A step to a sound volume keeps the invariant.
LEMMA StillKept ==
  ASSUME NEW ch, Sound(fat', data', leaked', fds', ch), torn' = NoPath
  PROVE  VInv'
<1>1. Typed(fat', data', leaked', fds')
  BY SoundTyped
<1> QED BY <1>1 DEF VInv, Kept

\* So does an interrupted step, after which only the types are claimed.
LEMMA Interrupted ==
  ASSUME NEW p \in Path, Typed(fat', data', leaked', fds'), torn' = p
  PROVE  VInv'
<1>1. p # NoPath
  BY PathShape
<1>2. ~ Intact'
  BY <1>1 DEF Intact
<1> QED BY <1>2 DEF VInv

\* The same cell written to two equal clusters leaves them equal.
LEMMA PutSame ==
  ASSUME NEW d \in Cells, NEW e \in Cells, NEW c \in Cluster, NEW i \in Offset, NEW k,
         NEW x \in Cluster, d[x] = e[x]
  PROVE  PutCell(d, c, i, k)[x] = PutCell(e, c, i, k)[x]
BY DEF PutCell, Cells

\* A failed creation leaks the cluster it took and keeps the invariant.
LEMMA CreateFailsKept ==
  ASSUME NEW ch, Sound(fat, data, leaked, fds, ch), torn = NoPath, NEW p \in Path, CreateFails(p)
  PROVE  VInv'
<1>1. PICK a, d : a = NewCluster /\ d = Zeroed(data, <<a>>)
  OBVIOUS
<1>2. MayCreate(p) /\ a \in Cluster /\ fat[a] = 0
  BY <1>1, NewClusterIs DEF CreateFails
<1>3. data \in Cells /\ ~ IsDirectory(data, a)
  BY <1>2, FreeIsNew DEF Sound, SoundTree
<1>4. PICK s : s = <<a>>
  OBVIOUS
<1>5. s \in Seq(Cluster) /\ Len(s) = 1 /\ s[1] = a
  BY <1>2, <1>4
<1>6. d \in Cells /\ \A x \in Cluster : IsDirectory(data, x) => d[x] = data[x]
  <2>1. d = Zeroed(data, s)
    BY <1>1, <1>4
  <2>2. \A x \in Cluster : IsDirectory(data, x) => \A k \in 1..Len(s) : s[k] # x
    BY <1>3, <1>5
  <2> QED BY <1>3, <1>5, <2>1, <2>2, ZeroedIs
<1>7. Sound(fat, d, leaked, fds, ch)
  BY <1>6, SoundSame
<1>8. Sound([fat EXCEPT ![a] = Eoc], d, leaked \cup {a}, fds, [ch EXCEPT ![a] = <<a>>])
  BY <1>2, <1>7, SoundLeak
<1>9. /\ fat' = [fat EXCEPT ![a] = Eoc] /\ data' = d /\ leaked' = leaked \cup {a}
      /\ fds' = fds /\ torn' = NoPath
  BY <1>1 DEF CreateFails, FatWithNew
<1> QED BY <1>8, <1>9, StillKept

\* A new entry keeps the invariant, whether or not the disk has it.
LEMMA CreateEntryKept ==
  ASSUME NEW ch, Sound(fat, data, leaked, fds, ch), torn = NoPath, NEW p \in Path,
         NEW b \in BOOLEAN, b => Len(p) = 1, CreateEntry(p, b), fds' = fds
  PROVE  VInv'
<1>1. PICK new : new = [ch EXCEPT ![NewCluster] = <<NewCluster>>]
  OBVIOUS
<1>2. Sound(FatWithNew, DataWithNew(p, b), leaked, fds, new)
  BY <1>1, SoundCreate DEF CreateEntry
<1>3. /\ fat' = FatWithNew /\ data' = DataWithNew(p, b) /\ leaked' = leaked
      /\ fds' = fds /\ torn' = NoPath
  BY DEF CreateEntry
<1> QED BY <1>2, <1>3, StillKept

\* A new directory keeps the invariant.
LEMMA DirCreateKept ==
  ASSUME NEW ch, Sound(fat, data, leaked, fds, ch), torn = NoPath, NEW p \in Path, DirCreate(p)
  PROVE  VInv'
<1>1. CASE CreateFails(p)
  BY <1>1, CreateFailsKept
<1>2. CASE Len(p) = 1 /\ ((CreateSucceeds(p, TRUE) /\ UNCHANGED fds) \/ CreateUnsaved(p, TRUE))
  <2>1. PICK b \in BOOLEAN : b = TRUE
    OBVIOUS
  <2>2. CreateEntry(p, b) /\ fds' = fds /\ (b => Len(p) = 1)
    BY <1>2, <2>1 DEF CreateSucceeds, CreateUnsaved
  <2> QED BY <2>2, CreateEntryKept
<1> QED BY <1>1, <1>2 DEF DirCreate

\* A new file of which the disk does not know keeps the invariant.
LEMMA CreateUnsavedKept ==
  ASSUME NEW ch, Sound(fat, data, leaked, fds, ch), torn = NoPath, NEW p \in Path,
         CreateUnsaved(p, FALSE)
  PROVE  VInv'
<1>1. PICK b \in BOOLEAN : b = FALSE
  OBVIOUS
<1>2. CreateEntry(p, b) /\ fds' = fds /\ (b => Len(p) = 1)
  BY <1>1 DEF CreateUnsaved
<1> QED BY <1>2, CreateEntryKept

\* Released clusters leave a table of the same type.
LEMMA ReleasedTyped ==
  ASSUME NEW f \in [Cluster -> FatEntry], NEW s
  PROVE  Released(f, s) \in [Cluster -> FatEntry]
BY DEF Released, FatEntry

\* The chain of a path that exists
LEMMA PathChain ==
  ASSUME NEW ch, Sound(fat, data, leaked, fds, ch), NEW p \in Path, Exists(p)
  PROVE  LET a == EntryOf(p).first
         IN  /\ a \in Cluster /\ Chain(fat, a) = ch[a] /\ ch[a] # <<>> /\ ch[a] \in Seq(Cluster)
             /\ Len(ch[a]) \in Nat /\ Len(ch[a]) > 0 /\ ch[a][1] = a
             /\ (IsDirectory(data, a) <=> EntryOf(p).dir)
             /\ EntryOf(p).size <= Capacity(Len(ch[a]))
<1>1. PICK c, i : c = DirOf(p) /\ i = SlotOf(p)
  OBVIOUS
<1>2. SoundTree(data) /\ data \in Cells /\ Layout(fat, ch) /\ Filled(ch, data, leaked)
  BY DEF Sound, SoundTree
<1>3. Slot(data, c, i) /\ EntryOf(p) = data[c][i]
  BY <1>1, <1>2, PathSlot
<1>4. data[c][i].first \in Cluster /\ FirstOf(data, data[c][i].first)
  BY <1>2, <1>3, SlotFields
<1>5. ch[data[c][i].first] # <<>>
  BY <1>2, <1>4 DEF Filled, Owned
<1>6. IsDirectory(data, data[c][i].first) <=> data[c][i].dir
  BY <1>2, <1>3, SlotDirectory
<1>7. data[c][i].size <= Capacity(Len(ch[data[c][i].first]))
  BY <1>2, <1>3 DEF Filled, Sized, Slot
<1>8. PICK a \in Cluster : a = data[c][i].first
  BY <1>4
<1>9. /\ Chain(fat, a) = ch[a] /\ ch[a] # <<>> /\ ch[a] \in Seq(Cluster)
      /\ Len(ch[a]) \in Nat /\ Len(ch[a]) > 0 /\ ch[a][1] = a
  BY <1>2, <1>5, <1>8, ChainFacts
<1> QED BY <1>3, <1>6, <1>7, <1>8, <1>9

\* Removing what is not open and not a full directory keeps the invariant.
LEMMA RemovalKept ==
  ASSUME NEW ch, Sound(fat, data, leaked, fds, ch), torn = NoPath, NEW p \in Path, Exists(p),
         ~ InUse(p), EntryOf(p).dir => IsEmpty(EntryOf(p).first), Removal(p)
  PROVE  VInv'
<1>1. PICK c, i : c = DirOf(p) /\ i = SlotOf(p)
  OBVIOUS
<1>2. PICK a : a = EntryOf(p).first
  OBVIOUS
<1>3. SoundTree(data) /\ data \in Cells /\ Layout(fat, ch)
  BY DEF Sound, SoundTree
<1>4. /\ Slot(data, c, i) /\ EntryOf(p) = data[c][i] /\ c \in Cluster /\ i \in Offset
  BY <1>1, <1>3, PathSlot DEF Slot
<1>5. /\ a \in Cluster /\ Chain(fat, a) = ch[a] /\ ch[a] \in Seq(Cluster)
      /\ (IsDirectory(data, a) <=> data[c][i].dir)
  BY <1>2, <1>4, PathChain
<1>6. CASE RemovalInterrupted(p, Chain(fat, a))
  <2>1. PICK s : fat' = Released(fat, s)
    BY <1>6 DEF RemovalInterrupted
  <2>2. data' = data /\ fds' = fds /\ leaked' = leaked /\ torn' = p
    BY <1>6 DEF RemovalInterrupted
  <2>3. Typed(fat, data, leaked, fds)
    BY SoundTyped
  <2>4. Typed(fat', data', leaked', fds')
    BY <2>1, <2>2, <2>3, ReleasedTyped DEF Typed
  <2> QED BY <2>2, <2>4, Interrupted
<1>7. CASE /\ fat' = Released(fat, ch[a])
           /\ data' = DeletedEntry(Forgotten(data, ch[a]), p)
           /\ UNCHANGED <<fds, leaked, torn>>
  <2>1. PICK w, e, v : /\ w = Forgotten(data, ch[a]) /\ e = PutCell(data, c, i, Deleted)
                       /\ v = PutCell(w, c, i, Deleted)
    OBVIOUS
  <2>2. \A j \in Offset : data[c][i].dir => ~ Slot(data, a, j)
    <3> SUFFICES ASSUME NEW j \in Offset, data[c][i].dir, Slot(data, a, j) PROVE FALSE
      OBVIOUS
    <3>1. IsEmpty(a) /\ IsDirectory(data, a) /\ data[a][j].kind = "entry"
      BY <1>2, <1>4, <1>5 DEF Slot
    <3>2. PICK k \in 1..(j - 1) : data[a][k].kind = "zero"
      BY <3>1 DEF IsEmpty
    <3>3. k \in Offset /\ k < j
      BY CellsAssumption DEF Offset
    <3>4. data[a][j].kind = "zero"
      BY <1>3, <1>5, <3>1, <3>2, <3>3 DEF SoundTree, ZerosLast
    <3> QED BY <3>1, <3>4
  <2>3. \A h \in Handle : fds[h].open => ~ (fds[h].dirCluster = c /\ fds[h].dirIndex = i)
    BY <1>1 DEF InUse, Uses
  <2>4. Sound(Released(fat, ch[a]), e, leaked, fds, [ch EXCEPT ![a] = <<>>])
    BY <1>2, <1>4, <2>1, <2>2, <2>3, SoundRemove
  <2>5. Removed(data, e, c, i)
    BY <1>2, <1>3, <1>4, <2>1, <2>2, RemoveTree
  <2>6. w \in Cells /\ v \in Cells
    BY <1>3, <1>4, <1>5, <2>1, ZeroedIs, Put, CellMembers
  <2>7. ASSUME NEW x \in Cluster, IsDirectory(e, x) PROVE v[x] = e[x]
    <3>1. IsDirectory(data, x) /\ ~ (data[c][i].dir /\ a = x)
      BY <1>2, <1>4, <2>5, <2>7 DEF Removed
    <3>2. \A k \in 1..Len(ch[a]) : ch[a][k] # x
      BY <1>5, <3>1, DirectoryChain DEF InChain
    <3>3. w[x] = data[x]
      BY <1>3, <1>5, <2>1, <3>2, ZeroedIs, SMTT(30)
    <3> QED BY <1>3, <1>4, <2>1, <2>6, <3>3, PutSame
  <2>8. Sound(Released(fat, ch[a]), v, leaked, fds, [ch EXCEPT ![a] = <<>>])
    BY <2>4, <2>6, <2>7, SoundSame
  <2>9. data' = v
    BY <1>1, <1>7, <2>1 DEF DeletedEntry
  <2> QED BY <1>7, <2>8, <2>9, StillKept
<1> QED BY <1>2, <1>5, <1>6, <1>7 DEF Removal

\* Deleting a file keeps the invariant.
LEMMA FileDeleteKept ==
  ASSUME NEW ch, Sound(fat, data, leaked, fds, ch), torn = NoPath, NEW p \in Path, FileDelete(p)
  PROVE  VInv'
BY RemovalKept DEF FileDelete, IsFile

\* Deleting an empty directory keeps the invariant.
LEMMA DirDeleteKept ==
  ASSUME NEW ch, Sound(fat, data, leaked, fds, ch), torn = NoPath, NEW p \in Path, DirDelete(p)
  PROVE  VInv'
<1>1. Exists(p) /\ EntryOf(p).dir /\ IsEmpty(EntryOf(p).first) /\ Removal(p)
  BY DEF DirDelete, IsDir
\* Handles are on files.
<1>2. ~ InUse(p)
  BY <1>1 DEF InUse, Uses, EntryOf, Sound, Hands, InPlace
<1> QED BY <1>1, <1>2, RemovalKept

\* The fields of a fresh handle are those of its entry and slot.
LEMMA HandleOnIs ==
  ASSUME NEW c \in Cluster, NEW i \in Offset, NEW flags \in Flags, NEW n, NEW a \in Cluster,
         NEW k \in 0..MaxSize, NEW b \in BOOLEAN
  PROVE  LET x == HandleOn(c, i, Entry(n, a, k, b), flags)
         IN  /\ x \in File /\ x.dirCluster = c /\ x.dirIndex = i /\ x.first = a /\ x.size = k
             /\ x.pos <= k
<1>1. k \in 0..MaxSize /\ 0 <= k /\ k <= k /\ 0 \in 0..MaxSize
  BY WriteAssumption
<1>2. Entry(n, a, k, b).first = a /\ Entry(n, a, k, b).size = k
  BY EntryFields
<1> QED BY <1>1, <1>2 DEF HandleOn, File

\* Opening a file that exists keeps the invariant.
LEMMA OpenExistingKept ==
  ASSUME NEW ch, Sound(fat, data, leaked, fds, ch), torn = NoPath, NEW h \in Handle, NEW p \in Path,
         NEW flags \in Flags, OpenExisting(h, p, flags)
  PROVE  VInv'
<1>1. PICK c, i : c = DirOf(p) /\ i = SlotOf(p)
  OBVIOUS
<1>2. PICK x, n, a, k, b : /\ x = HandleOn(c, i, EntryOf(p), flags) /\ n = Last(p)
                           /\ a = EntryOf(p).first /\ k = EntryOf(p).size /\ b = EntryOf(p).dir
  OBVIOUS
<1>3. SoundTree(data) /\ Exists(p) /\ ~ EntryOf(p).dir
  BY DEF Sound, OpenExisting, IsFile
<1>4. /\ Slot(data, c, i) /\ EntryOf(p) = data[c][i] /\ EntryOf(p) = Entry(n, a, k, b)
      /\ a \in Cluster /\ k \in 0..MaxSize /\ b \in BOOLEAN /\ c \in Cluster /\ i \in Offset
  BY <1>1, <1>2, <1>3, PathSlot DEF Slot
<1>5. x \in File /\ x.dirCluster = c /\ x.dirIndex = i /\ x.first = a /\ x.size = k /\ x.pos <= k
  BY <1>2, <1>4, HandleOnIs
<1>6. k <= Capacity(Len(ch[a]))
  BY <1>2, <1>3, PathChain
<1>7. InPlace(x, ch, data)
  <2>1. data[c][i].first = a /\ data[c][i].size = k /\ ~ data[c][i].dir /\ k \in Nat
    BY <1>2, <1>3, <1>4, WriteAssumption
  <2>2. /\ Slot(data, x.dirCluster, x.dirIndex) /\ ~ data[x.dirCluster][x.dirIndex].dir
        /\ data[x.dirCluster][x.dirIndex].first = x.first
        /\ data[x.dirCluster][x.dirIndex].size = x.size
    BY <1>4, <1>5, <2>1
  <2>3. x.size <= Capacity(Len(ch[x.first])) /\ x.pos <= x.size /\ x.size <= x.size
    BY <1>5, <1>6, <2>1
  <2> QED BY <2>2, <2>3 DEF InPlace
<1>8. ASSUME NEW g \in Handle, g # h, fds[g].open, fds[g].dirCluster = x.dirCluster,
             fds[g].dirIndex = x.dirIndex
      PROVE  fds[g].size = x.size
  BY <1>1, <1>2, <1>3, <1>5, <1>8 DEF OpenExisting, Uses
<1>9. Sound(fat, data, leaked, [fds EXCEPT ![h] = x], ch)
  BY <1>5, <1>7, <1>8, SoundHandle
<1>10. /\ fat' = fat /\ data' = data /\ leaked' = leaked /\ torn' = NoPath
       /\ fds' = [fds EXCEPT ![h] = x]
  BY <1>1, <1>2 DEF OpenExisting
<1> QED BY <1>9, <1>10, StillKept

\* Opening a file that has to be created keeps the invariant.
LEMMA OpenCreatedKept ==
  ASSUME NEW ch, Sound(fat, data, leaked, fds, ch), torn = NoPath, NEW h \in Handle, NEW p \in Path,
         NEW flags \in Flags, OpenCreated(h, p, flags)
  PROVE  VInv'
<1>1. PICK a, c, i, new, e : /\ a = NewCluster /\ c = DirOf(p) /\ i = Min(Vacant(DirOf(p)))
                             /\ new = [ch EXCEPT ![a] = <<a>>] /\ e = DataWithNew(p, FALSE)
  OBVIOUS
<1>2. PICK b, n : b = FALSE /\ n = Last(p)
  OBVIOUS
<1> DEFINE x == HandleOn(c, i, Entry(n, a, 0, b), flags)
<1>3. CreateEntry(p, FALSE) /\ MayCreate(p) /\ Vacant(DirOf(p)) # {}
  BY DEF OpenCreated, CreateSucceeds, CreateEntry
<1>4. Sound(FatWithNew, e, leaked, fds, new) /\ Created(p, FALSE, new)
  BY <1>1, <1>3, SoundCreate
<1>5. /\ Slot(e, c, i) /\ e[c][i] = Entry(Last(p), a, 0, FALSE) /\ c \in Cluster /\ i \in Offset
      /\ a \in Cluster /\ new[a] = <<a>>
      /\ \A g \in Handle : fds[g].open => ~ (fds[g].dirCluster = c /\ fds[g].dirIndex = i)
  BY <1>1, <1>4 DEF Created
<1> HIDE DEF x
<1>6. x \in File /\ x.dirCluster = c /\ x.dirIndex = i /\ x.first = a /\ x.size = 0 /\ x.pos <= 0
  <2>1. b \in BOOLEAN
    BY <1>2
  <2>2. 0 \in 0..MaxSize
    BY WriteAssumption
  <2> QED BY <1>5, <2>1, <2>2, HandleOnIs DEF x
<1>7. e[c][i].first = a /\ e[c][i].size = 0 /\ ~ e[c][i].dir
  <2>1. b \in BOOLEAN /\ e[c][i] = Entry(n, a, 0, b)
    BY <1>2, <1>5
  <2> QED BY <1>2, <2>1, EntryFields
<1>8. 0 <= Capacity(Len(new[a]))
  <2>1. Len(new[a]) = 1
    BY <1>5
  <2>2. Capacity(1) \in Nat
    BY CapacityFacts
  <2> QED BY <2>1, <2>2
<1>9. InPlace(x, new, e)
  <2>1. /\ Slot(e, x.dirCluster, x.dirIndex) /\ ~ e[x.dirCluster][x.dirIndex].dir
        /\ e[x.dirCluster][x.dirIndex].first = x.first
        /\ e[x.dirCluster][x.dirIndex].size = x.size
    BY <1>5, <1>6, <1>7
  <2>2. x.size <= Capacity(Len(new[x.first])) /\ x.pos <= x.size /\ x.size <= x.size
    BY <1>6, <1>8
  <2> QED BY <2>1, <2>2 DEF InPlace
<1>10. Sound(FatWithNew, e, leaked, [fds EXCEPT ![h] = x], new)
  BY <1>4, <1>5, <1>6, <1>9, SoundHandle
<1>11. fat' = FatWithNew /\ data' = e /\ leaked' = leaked /\ torn' = NoPath
  BY <1>1, <1>3 DEF CreateEntry
<1>12. fds' = fds \/ fds' = [fds EXCEPT ![h] = x]
  BY <1>1, <1>2 DEF OpenCreated, x
<1> QED BY <1>4, <1>10, <1>11, <1>12, StillKept

\* Opening with truncation cuts the file to one empty cluster.
LEMMA OpenTruncatedKept ==
  ASSUME NEW ch, Sound(fat, data, leaked, fds, ch), torn = NoPath, NEW h \in Handle, NEW p \in Path,
         NEW flags \in Flags, OpenTruncated(h, p, flags)
  PROVE  VInv'
<1>1. PICK c, i : c = DirOf(p) /\ i = SlotOf(p)
  OBVIOUS
<1>2. PICK n, a, k, b : /\ n = Last(p) /\ a = EntryOf(p).first /\ k = EntryOf(p).size
                        /\ b = EntryOf(p).dir
  OBVIOUS
<1>3. SoundTree(data) /\ data \in Cells /\ Exists(p) /\ ~ EntryOf(p).dir
  BY DEF Sound, SoundTree, OpenTruncated, IsFile
<1>4. /\ Slot(data, c, i) /\ EntryOf(p) = data[c][i] /\ EntryOf(p) = Entry(n, a, k, b)
      /\ a \in Cluster /\ k \in 0..MaxSize /\ b \in BOOLEAN /\ c \in Cluster /\ i \in Offset
      /\ data[c][i].name = n /\ data[c][i].first = a /\ data[c][i].dir = b
  BY <1>1, <1>2, <1>3, PathSlot DEF Slot
<1>5. PICK x : x = Entry(n, a, 0, b)
  OBVIOUS
<1>6. [EntryOf(p) EXCEPT !.size = 0] = x
  BY <1>4, <1>5 DEF Entry
<1>7. /\ Chain(fat, a) = ch[a] /\ ch[a] \in Seq(Cluster) /\ ch[a] # <<>> /\ ~ IsDirectory(data, a)
      /\ ch[a][1] = a /\ Len(ch[a]) > 0 /\ Len(ch[a]) \in Nat
  BY <1>2, <1>3, PathChain
<1>8. PICK z \in {<<>>, <<a>>} :
         data' = PutCell(Zeroed(Forgotten(data, ch[a]), z), c, i, x)
  <2>1. x.first = a
    BY <1>4, <1>5, EntryFields
  <2> QED BY <1>1, <1>2, <1>6, <1>7, <2>1 DEF OpenTruncated
<1>9. PICK d : d = Zeroed(Forgotten(data, ch[a]), z)
  OBVIOUS
<1>10. d \in Cells /\ \A y \in Cluster : IsDirectory(data, y) => d[y] = data[y]
  <2>1. Forgotten(data, ch[a]) \in Cells
    BY <1>3, <1>7, ZeroedIs
  <2>2. z \in Seq(Cluster) /\ \A m \in 1..Len(z) : z[m] = a
    <3>1. CASE z = <<>>
      BY <3>1
    <3>2. CASE z = <<a>>
      BY <1>4, <3>2
    <3> QED BY <3>1, <3>2
  <2>3. d \in Cells
    BY <1>9, <2>1, <2>2, ZeroedIs
  <2>4. ASSUME NEW y \in Cluster, IsDirectory(data, y) PROVE d[y] = data[y]
    <3>1. \A m \in 1..Len(ch[a]) : ch[a][m] # y
      BY <1>4, <1>7, <2>4, DirectoryChain DEF InChain
    <3>2. Forgotten(data, ch[a])[y] = data[y]
      BY <1>3, <1>7, <3>1, ZeroedIs
    <3>3. \A m \in 1..Len(z) : z[m] # y
      BY <1>7, <2>2, <2>4
    <3> QED BY <1>9, <2>1, <2>2, <3>2, <3>3, ZeroedIs
  <2> QED BY <2>3, <2>4
<1>11. Sound(fat, d, leaked, fds, ch)
  BY <1>10, SoundSame
<1>12. Slot(d, c, i) /\ d[c][i] = data[c][i]
  BY <1>4, <1>10, <1>3, SameTree DEF SameDirectories, Slot
<1>13. ASSUME NEW g \in Handle, fds[g].open PROVE ~ (fds[g].dirCluster = c /\ fds[g].dirIndex = i)
  BY <1>1, <1>3, <1>13 DEF OpenTruncated, InUse, Uses
<1>14. PICK e : e = PutCell(d, c, i, x)
  OBVIOUS
<1>15. 0 <= Capacity(Len(ch[a]))
  BY <1>7, CapacityFacts
<1>16. Sound(fat, e, leaked, fds, ch) /\ SoundTree(e) /\ Resized(d, e, c, i, 0)
  <2>1. x = Entry(d[c][i].name, d[c][i].first, 0, d[c][i].dir)
    BY <1>4, <1>5, <1>12
  <2>4. 0 \in 0..MaxSize
    BY WriteAssumption
  <2>2. 0 <= Capacity(Len(ch[d[c][i].first]))
    BY <1>4, <1>12, <1>15
  <2>3. SoundTree(d)
    BY <1>11 DEF Sound
  <2>5. \A g \in Handle : fds[g].open /\ fds[g].dirCluster = c /\ fds[g].dirIndex = i => 0 <= fds[g].size
    BY <1>13
  <2>6. Sound(fat, e, leaked, fds, ch)
    BY <1>11, <1>12, <1>14, <2>1, <2>2, <2>4, <2>5, SoundResize
  <2>7. SoundTree(e) /\ Resized(d, e, c, i, 0)
    BY <1>12, <1>14, <2>1, <2>3, <2>4, ResizeTree
  <2> QED BY <2>6, <2>7
<1>17. Slot(e, c, i) /\ e[c][i].first = a /\ e[c][i].size = 0 /\ e[c][i].dir = b
  BY <1>4, <1>12, <1>16 DEF Resized
<1>18. PICK g, s, new : /\ g = [Released(fat, Tail(ch[a])) EXCEPT ![a] = Eoc] /\ s = <<a>>
                        /\ new = [ch EXCEPT ![a] = s]
  OBVIOUS
<1>19. Rewired(fat, ch, a, s, g)
  BY <1>4, <1>7, <1>18, CutRewires DEF Sound
<1>20. s # <<>> /\ 0 <= Capacity(Len(s))
  <2>1. Len(s) \in Nat /\ s # <<>>
    BY <1>18
  <2> QED BY <2>1, CapacityFacts
<1>21. Sound(g, e, leaked, fds, new)
  <2>1. e[c][i].size <= Capacity(Len(s))
    BY <1>17, <1>20
  <2>2. \A y \in Handle : fds[y].open /\ fds[y].dirCluster = c /\ fds[y].dirIndex = i
            => fds[y].size <= Capacity(Len(s))
    BY <1>13
  <2>3. a = e[c][i].first /\ Slot(e, c, i)
    BY <1>17
  <2>4. Sound(g, e, leaked, fds, [ch EXCEPT ![a] = s])
    <3>1. Sound(fat, e, leaked, fds, ch)
      BY <1>16
    <3>2. s # <<>>
      BY <1>20
    <3> QED BY <1>19, <2>1, <2>2, <2>3, <3>1, <3>2, SoundRewire
  <2> QED BY <1>18, <2>4
<1>22. PICK v : v = HandleOn(c, i, x, flags)
  OBVIOUS
<1>23. v \in File /\ v.dirCluster = c /\ v.dirIndex = i /\ v.first = a /\ v.size = 0 /\ v.pos <= 0
  <2>1. 0 \in 0..MaxSize
    BY WriteAssumption
  <2> QED BY <1>4, <1>5, <1>22, <2>1, HandleOnIs
<1>24. InPlace(v, new, e)
  <2>1. new[a] = s
    BY <1>4, <1>18 DEF Sound, Layout, Chains
  <2> QED BY <1>2, <1>3, <1>17, <1>20, <1>23, <2>1 DEF InPlace
<1>25. Sound(g, e, leaked, [fds EXCEPT ![h] = v], new)
  BY <1>13, <1>21, <1>23, <1>24, SoundHandle
<1>26. /\ fat' = g /\ data' = e /\ leaked' = leaked /\ torn' = NoPath
       /\ fds' = [fds EXCEPT ![h] = v]
  <2>1. x.first = a
    BY <1>4, <1>5, EntryFields
  <2>2. fat' = Truncated(a) /\ fds' = [fds EXCEPT ![h] = v] /\ leaked' = leaked /\ torn' = NoPath
    BY <1>1, <1>6, <1>22, <2>1 DEF OpenTruncated
  <2> QED BY <1>7, <1>8, <1>9, <1>14, <1>18, <2>2 DEF Truncated
<1> QED BY <1>25, <1>26, StillKept

\* A truncation cut short keeps the types.
LEMMA TruncationInterruptedKept ==
  ASSUME NEW ch, Sound(fat, data, leaked, fds, ch), torn = NoPath, NEW p \in Path,
         TruncationInterrupted(p)
  PROVE  VInv'
<1>1. PICK a : a = EntryOf(p).first
  OBVIOUS
<1>2. Exists(p)
  BY DEF TruncationInterrupted, IsFile
<1>3. a \in Cluster /\ Chain(fat, a) = ch[a] /\ ch[a] \in Seq(Cluster) /\ ch[a][1] = a
  BY <1>1, <1>2, PathChain
<1>4. Typed(fat, data, leaked, fds)
  BY SoundTyped
<1>5. \A s : [Released(fat, s) EXCEPT ![a] = Eoc] \in [Cluster -> FatEntry]
  BY <1>4, ReleasedTyped DEF Typed, FatEntry
<1>6. Truncated(a) \in [Cluster -> FatEntry]
  BY <1>5 DEF Truncated
<1>7. Zeroed(data, <<a>>) \in Cells
  <2>1. <<a>> \in Seq(Cluster)
    BY <1>3
  <2> QED BY <1>4, <2>1, ZeroedIs DEF Typed
<1>8. torn' = p /\ fds' = fds /\ leaked' = leaked
  BY DEF TruncationInterrupted
<1>9. fat' \in [Cluster -> FatEntry] /\ data' \in Cells
  <2>1. CASE /\ \E k \in 1..(Len(ch[a]) - 1) :
                    fat' = [Released(fat, SubSeq(ch[a], 2, k)) EXCEPT ![a] = Eoc]
             /\ UNCHANGED data
    BY <1>4, <1>5, <2>1 DEF Typed
  <2>2. CASE fat' = Truncated(a) /\ data' = Zeroed(data, <<a>>)
    BY <1>6, <1>7, <2>2
  <2> QED BY <1>1, <1>3, <2>1, <2>2 DEF TruncationInterrupted
<1> QED BY <1>4, <1>8, <1>9, Interrupted DEF Typed

\* popen keeps the invariant, whichever of its ways it takes.
LEMMA PopenKept ==
  ASSUME NEW ch, Sound(fat, data, leaked, fds, ch), torn = NoPath, NEW h \in Handle, NEW p \in Path,
         NEW flags \in Flags, Popen(h, p, flags)
  PROVE  VInv'
<1>1. CASE OpenExisting(h, p, flags)
  BY <1>1, OpenExistingKept
<1>2. CASE OpenTruncated(h, p, flags)
  BY <1>2, OpenTruncatedKept
<1>3. CASE OpenCreated(h, p, flags)
  BY <1>3, OpenCreatedKept
<1>4. CASE CreateFails(p)
  BY <1>4, CreateFailsKept
<1>5. CASE TruncationInterrupted(p)
  BY <1>5, TruncationInterruptedKept
<1>6. CASE CreateUnsaved(p, FALSE)
  BY <1>6, CreateUnsavedKept
<1> QED BY <1>1, <1>2, <1>3, <1>4, <1>5, <1>6 DEF Popen

(***************************************************************************)
(* Seek, read, close                                                       *)
(***************************************************************************)
LEMMA HandleFacts ==
  ASSUME NEW f, NEW d, NEW l, NEW hs, NEW ch, Sound(f, d, l, hs, ch), NEW h \in Handle, hs[h].open
  PROVE  LET x == hs[h]
             a == hs[h].first
         IN  /\ x \in File /\ InPlace(x, ch, d) /\ x.size \in Nat /\ x.pos \in Nat
             /\ x.size <= MaxSize /\ x.pos <= x.size
             /\ Slot(d, x.dirCluster, x.dirIndex) /\ d[x.dirCluster][x.dirIndex].first = a
             /\ a \in Cluster /\ Chain(f, a) = ch[a] /\ ch[a] # <<>> /\ ch[a] \in Seq(Cluster)
             /\ Len(ch[a]) \in Nat /\ Len(ch[a]) > 0 /\ ch[a][1] = a /\ ~ IsDirectory(d, a)
             /\ d[x.dirCluster][x.dirIndex].size <= Capacity(Len(ch[a]))
             /\ x.size <= Capacity(Len(ch[a]))
<1>1. PICK x, a : x = hs[h] /\ a = x.first
  OBVIOUS
<1>2. x \in {Closed} \cup File /\ x.open /\ InPlace(x, ch, d)
  BY <1>1 DEF Sound, Hands
<1>3. x \in File
  BY <1>2 DEF Closed
<1>4. x.size \in 0..MaxSize /\ x.pos \in 0..MaxSize /\ a \in Cluster /\ MaxSize \in Nat
  BY <1>1, <1>3, WriteAssumption DEF File
<1>5. PICK c, i : c = x.dirCluster /\ i = x.dirIndex
  OBVIOUS
<1>6. /\ Slot(d, c, i) /\ ~ d[c][i].dir /\ d[c][i].first = a /\ d[c][i].size <= x.size
      /\ x.size <= Capacity(Len(ch[a])) /\ x.pos <= x.size
  BY <1>1, <1>2, <1>5 DEF InPlace
<1>7. SoundTree(d) /\ Layout(f, ch) /\ FirstOf(d, a) /\ ch[a] # <<>>
  <2>1. SoundTree(d) /\ Layout(f, ch) /\ Owned(ch, d, l)
    BY DEF Sound, Filled
  <2>2. FirstOf(d, a)
    BY <1>6 DEF FirstOf, Slot
  <2> QED BY <1>4, <2>1, <2>2 DEF Owned
<1>8. ~ IsDirectory(d, a)
  BY <1>6, <1>7, SlotDirectory
<1>9. /\ Chain(f, a) = ch[a] /\ ch[a] \in Seq(Cluster) /\ Len(ch[a]) \in Nat /\ Len(ch[a]) > 0
      /\ ch[a][1] = a
  BY <1>4, <1>7, ChainFacts
<1>10. d[c][i].size <= Capacity(Len(ch[a]))
  BY <1>6, <1>7 DEF Sound, Filled, Sized, Slot
<1> QED BY <1>1, <1>2, <1>3, <1>4, <1>5, <1>6, <1>7, <1>8, <1>9, <1>10

\* A handle with another position and size keeps its other fields.
LEMMA FileWith ==
  ASSUME NEW x \in File, NEW pos \in 0..MaxSize, NEW size \in 0..MaxSize
  PROVE  LET y == [x EXCEPT !.pos = pos, !.size = size]
         IN  /\ y \in File /\ y.pos = pos /\ y.size = size /\ y.open
             /\ y.first = x.first /\ y.dirCluster = x.dirCluster /\ y.dirIndex = x.dirIndex
BY DEF File

\* A handle with another position keeps its other fields.
LEMMA FileAt ==
  ASSUME NEW x \in File, NEW pos \in 0..MaxSize
  PROVE  LET z == [x EXCEPT !.pos = pos]
         IN  /\ z \in File /\ z.pos = pos /\ z.size = x.size
             /\ z.first = x.first /\ z.dirCluster = x.dirCluster /\ z.dirIndex = x.dirIndex
BY DEF File

\* The position of an open file moves within the file.
LEMMA SoundMoved ==
  ASSUME NEW f, NEW d, NEW l, NEW hs, NEW ch, Sound(f, d, l, hs, ch), NEW h \in Handle, hs[h].open,
         NEW pos \in Nat, pos <= hs[h].size
  PROVE  Sound(f, d, l, [hs EXCEPT ![h].pos = pos], ch)
<1>1. PICK x, z : x = hs[h] /\ z = [x EXCEPT !.pos = pos]
  OBVIOUS
<1>2. x \in File /\ InPlace(x, ch, d) /\ x.size \in Nat /\ x.size <= MaxSize
  BY <1>1, HandleFacts
<1>3. pos \in 0..MaxSize /\ 0 \in 0..MaxSize
  BY <1>1, <1>2, WriteAssumption
<1>4. /\ z \in File /\ z.pos = pos /\ z.size = x.size /\ z.first = x.first
      /\ z.dirCluster = x.dirCluster /\ z.dirIndex = x.dirIndex
  BY <1>1, <1>2, <1>3, FileAt
<1>5. InPlace(z, ch, d)
  BY <1>1, <1>2, <1>4 DEF InPlace
<1>6. ASSUME NEW g \in Handle, g # h, hs[g].open, hs[g].dirCluster = z.dirCluster,
             hs[g].dirIndex = z.dirIndex
      PROVE  hs[g].size = z.size
  BY <1>1, <1>4, <1>6 DEF Sound, Hands, Agree
<1>7. Sound(f, d, l, [hs EXCEPT ![h] = z], ch)
  BY <1>4, <1>5, <1>6, SoundHandle
<1>8. [hs EXCEPT ![h].pos = pos] = [hs EXCEPT ![h] = z]
  BY <1>1
<1> QED BY <1>7, <1>8

\* A seek or a read stays within the size.
LEMMA MovePositionKept ==
  ASSUME NEW ch, Sound(fat, data, leaked, fds, ch), torn = NoPath, NEW h \in Handle, MovePosition(h)
  PROVE  VInv'
<1>1. PICK pos \in 0..fds[h].size : fds' = [fds EXCEPT ![h].pos = pos]
  BY DEF MovePosition
<1>2. fds[h].open /\ fat' = fat /\ data' = data /\ leaked' = leaked /\ torn' = NoPath
  BY DEF MovePosition
<1>3. pos \in Nat /\ pos <= fds[h].size
  BY <1>2, HandleFacts
<1>4. Sound(fat, data, leaked, fds', ch)
  BY <1>1, <1>2, <1>3, SoundMoved
<1> QED BY <1>2, <1>4, StillKept

\* The directory entry takes the size of the handle.
LEMMA SoundUpdated ==
  ASSUME NEW f, NEW d, NEW l, NEW hs, NEW ch, Sound(f, d, l, hs, ch), NEW h \in Handle, hs[h].open,
         \A g \in Handle : hs[g].open /\ hs[g].dirCluster = hs[h].dirCluster
            /\ hs[g].dirIndex = hs[h].dirIndex => hs[g].size = hs[h].size
  PROVE  Sound(f, UpdatedEntry(d, hs[h]), l, hs, ch)
<1>1. PICK x, c, i, k : x = hs[h] /\ c = x.dirCluster /\ i = x.dirIndex /\ k = x.size
  OBVIOUS
<1>2. /\ Slot(d, c, i) /\ d[c][i].first = x.first /\ k \in Nat /\ k <= MaxSize
      /\ k <= Capacity(Len(ch[x.first]))
  BY <1>1, HandleFacts
<1>3. k \in 0..MaxSize
  BY <1>2, WriteAssumption
<1>4. PICK y, z : y = d[c][i] /\ z = [y EXCEPT !.first = x.first, !.size = x.size]
  OBVIOUS
<1>5. y = Entry(y.name, y.first, y.size, y.dir)
  <2>1. y \in Cell
    BY <1>2, <1>4 DEF Sound, SoundTree, Cells, Slot
  <2> QED BY <1>2, <1>4, <2>1, CellKinds DEF Slot
<1>6. z = Entry(y.name, y.first, k, y.dir)
  <2>1. PICK n, a, s, b : n = y.name /\ a = y.first /\ s = y.size /\ b = y.dir
    OBVIOUS
  <2>2. y = Entry(n, a, s, b) /\ x.first = a
    BY <1>2, <1>4, <1>5, <2>1
  <2>3. z = [Entry(n, a, s, b) EXCEPT !.first = a, !.size = k]
    BY <1>1, <1>4, <2>2
  <2>4. z = Entry(n, a, k, b)
    BY <2>3 DEF Entry
  <2> QED BY <2>1, <2>4
<1>7. \A g \in Handle : hs[g].open /\ hs[g].dirCluster = c /\ hs[g].dirIndex = i => k <= hs[g].size
  BY <1>1, <1>2
<1>8. Sound(f, PutCell(d, c, i, z), l, hs, ch)
  <2>1. z = Entry(d[c][i].name, d[c][i].first, k, d[c][i].dir)
    BY <1>4, <1>6
  <2>2. k <= Capacity(Len(ch[d[c][i].first]))
    BY <1>2
  <2> QED BY <1>2, <1>3, <1>7, <2>1, <2>2, SoundResize
<1>9. UpdatedEntry(d, x) = PutCell(d, c, i, z)
  BY <1>1, <1>4 DEF UpdatedEntry
<1> QED BY <1>1, <1>8, <1>9

\* Closing writes the size of the handle, which the chain covers, or fails to.
LEMMA PcloseKept ==
  ASSUME NEW ch, Sound(fat, data, leaked, fds, ch), torn = NoPath, NEW h \in Handle, Pclose(h)
  PROVE  VInv'
<1>1. /\ fds[h].open /\ fat' = fat /\ leaked' = leaked /\ torn' = NoPath
      /\ fds' = [fds EXCEPT ![h] = Closed] /\ data' \in {data, UpdatedEntry(data, fds[h])}
  BY DEF Pclose
<1>2. Sound(fat, UpdatedEntry(data, fds[h]), leaked, fds, ch)
  <2>1. \A g \in Handle : fds[g].open /\ fds[g].dirCluster = fds[h].dirCluster
            /\ fds[g].dirIndex = fds[h].dirIndex => fds[g].size = fds[h].size
    BY <1>1 DEF Sound, Hands, Agree
  <2> QED BY <1>1, <2>1, SoundUpdated
<1>3. Sound(fat, data', leaked, fds, ch)
  BY <1>1, <1>2
<1>4. Sound(fat, data', leaked, fds', ch)
  BY <1>1, <1>3, SoundClose
<1> QED BY <1>1, <1>4, StillKept

(***************************************************************************)
(* Write                                                                   *)
(***************************************************************************)
\* ClustersFor rounds up.
LEMMA ClustersForFacts ==
  ASSUME NEW k \in Nat
  PROVE  /\ ClustersFor(k) \in Nat /\ k <= Capacity(ClustersFor(k))
         /\ k > 0 => ClustersFor(k) > 0 /\ Capacity(ClustersFor(k) - 1) <= k
<1>1. CellsPerCluster \in Nat /\ CellsPerCluster > 0
  BY CellsAssumption
<1>2. PICK m \in Nat : m = k + CellsPerCluster - 1
  BY <1>1
<1>3. /\ m \div CellsPerCluster \in Nat /\ m % CellsPerCluster \in 0..(CellsPerCluster - 1)
      /\ m = CellsPerCluster * (m \div CellsPerCluster) + (m % CellsPerCluster)
  BY <1>1, <1>2
<1>4. PICK q \in Nat : q = m \div CellsPerCluster
  BY <1>3
<1>5. q * CellsPerCluster = CellsPerCluster * q
  BY <1>1
<1>6. k <= q * CellsPerCluster
  BY <1>1, <1>2, <1>3, <1>4, <1>5
<1>7. ASSUME k > 0 PROVE q > 0 /\ (q - 1) * CellsPerCluster <= k
  <2>1. q # 0
    BY <1>1, <1>2, <1>3, <1>4, <1>7
  <2>2. (q - 1) * CellsPerCluster = q * CellsPerCluster - CellsPerCluster
    BY <1>1
  <2>3. q * CellsPerCluster <= m
    BY <1>1, <1>3, <1>4, <1>5
  <2>4. q * CellsPerCluster \in Int
    BY <1>1
  <2> QED BY <1>1, <1>2, <2>1, <2>2, <2>3, <2>4
<1> QED BY <1>2, <1>4, <1>6, <1>7 DEF ClustersFor, Capacity

\* Cells are written into the clusters of the chain only.
LEMMA PutCellsIs ==
  ASSUME NEW d \in Cells, NEW chain \in Seq(Cluster), NEW pos \in Nat, NEW new \in Seq(Cell)
  PROVE  /\ PutCells(d, chain, pos, new) \in Cells
         /\ \A c \in Cluster : (\A j \in 1..Len(chain) : chain[j] # c) =>
               PutCells(d, chain, pos, new)[c] = d[c]
<1> DEFINE js(c) == {j \in 1..Len(chain) : chain[j] = c}
           at(c, i) == Capacity((CHOOSE j \in js(c) : TRUE) - 1) + i - 1
           put(c, i) == js(c) # {} /\ at(c, i) >= pos /\ at(c, i) < pos + Len(new)
           val(c, i) == IF put(c, i) THEN new[at(c, i) - pos + 1] ELSE d[c][i]
<1>1. PutCells(d, chain, pos, new) = [c \in Cluster |-> [i \in Offset |-> val(c, i)]]
  BY DEF PutCells
<1>2. ASSUME NEW c \in Cluster, NEW i \in Offset PROVE val(c, i) \in Cell
  <2>1. d[c][i] \in Cell
    BY DEF Cells
  <2>2. CASE put(c, i)
    <3>1. PICK j : j = CHOOSE k \in js(c) : TRUE
      OBVIOUS
    <3>2. j \in js(c)
      BY <2>2, <3>1
    <3>3. j \in 1..Len(chain) /\ Len(chain) \in Nat
      BY <3>2
    <3>4. j - 1 \in Nat /\ i \in Nat
      BY <3>3, ClusterFacts
    <3>5. Capacity(j - 1) \in Nat
      BY <3>4, CapacityFacts
    <3>6. PICK x : x = at(c, i)
      OBVIOUS
    <3>7. x = Capacity(j - 1) + i - 1
      BY <3>1, <3>6
    <3>8. x >= pos /\ x < pos + Len(new)
      BY <2>2, <3>6
    <3>9. x - pos + 1 \in 1..Len(new)
      BY <3>4, <3>5, <3>7, <3>8
    <3>10. new[x - pos + 1] \in Cell
      BY <3>9, ElementOfSeq
    <3> QED BY <2>2, <3>6, <3>10
  <2>3. CASE ~ put(c, i)
    BY <2>1, <2>3
  <2> QED BY <2>2, <2>3
<1>3. ASSUME NEW c \in Cluster, \A j \in 1..Len(chain) : chain[j] # c
      PROVE  [i \in Offset |-> val(c, i)] = d[c]
  <2>1. \A i \in Offset : ~ put(c, i)
    BY <1>3
  <2> HIDE DEF put
  <2>2. \A i \in Offset : val(c, i) = d[c][i]
    BY <2>1
  <2>3. d[c] \in [Offset -> Cell]
    BY DEF Cells
  <2> HIDE DEF val
  <2> QED BY <2>2, <2>3
<1> HIDE DEF val
<1> QED BY <1>1, <1>2, <1>3 DEF Cells

\* What every write of s leaves when the file that begins at a has gained k clusters.
More(k) == SubSeq(FreeInOrder(fat), 1, k)

GrownChains(ch, a, k) == [ch EXCEPT ![a] = ch[a] \o More(k)]

GrownFat(ch, a, k) == Linked(fat, ch[a], More(k))

Written(ch, a, k, pos, s) == PutCells(Zeroed(data, More(k)), ch[a] \o More(k), pos, s)

\* Only clusters of the file or free ones have other cells.
LEMMA StoredSound ==
  ASSUME NEW ch, Sound(fat, data, leaked, fds, ch), NEW h \in Handle, fds[h].open,
         NEW gained \in Nat, gained <= Len(FreeInOrder(fat)), NEW pos \in Nat, NEW new \in Seq(Cell)
  PROVE  LET a == fds[h].first
         IN  /\ Sound(GrownFat(ch, a, gained), Written(ch, a, gained, pos, new), leaked, fds,
                      GrownChains(ch, a, gained))
             /\ Len(GrownChains(ch, a, gained)[a]) = Len(ch[a]) + gained
<1>1. PICK x, a, c, i : x = fds[h] /\ a = x.first /\ c = x.dirCluster /\ i = x.dirIndex
  OBVIOUS
<1>2. PICK free, more : free = FreeInOrder(fat) /\ more = SubSeq(free, 1, gained)
  OBVIOUS
<1>3. PICK s, g : s = ch[a] \o more /\ g = Linked(fat, ch[a], more)
  OBVIOUS
<1>4. PICK z, e : z = Zeroed(data, more) /\ e = PutCells(z, s, pos, new)
  OBVIOUS
<1>5. /\ Slot(data, c, i) /\ data[c][i].first = a /\ a \in Cluster /\ ch[a] # <<>> /\ ch[a] \in Seq(Cluster)
      /\ Len(ch[a]) \in Nat /\ Len(ch[a]) > 0 /\ ~ IsDirectory(data, a)
      /\ data[c][i].size <= Capacity(Len(ch[a]))
  BY <1>1, HandleFacts
<1>6. /\ free \in Seq(Cluster) /\ Once(free) /\ \A m \in 1..Len(free) : fat[free[m]] = 0
  BY <1>2, FreeClusters
<1>7. more \in Seq(Cluster) /\ Len(more) = gained /\ \A m \in 1..Len(more) : more[m] = free[m]
  BY <1>2, <1>6
<1>8. Once(more) /\ \A m \in 1..Len(more) : fat[more[m]] = 0 /\ more[m] \in Cluster
  <2>1. \A m \in 1..Len(more) : m \in 1..Len(free)
    BY <1>2, <1>6, <1>7
  <2>2. \A m \in 1..Len(more) : more[m] \in Cluster
    BY <1>7, ElementOfSeq
  <2> QED BY <1>6, <1>7, <2>1, <2>2 DEF Once
<1>9. /\ s \in Seq(Cluster) /\ Len(s) = Len(ch[a]) + gained /\ s # <<>> /\ Len(s) \in Nat
      /\ \A m \in 1..Len(s) : s[m] = IF m <= Len(ch[a]) THEN ch[a][m] ELSE more[m - Len(ch[a])]
  <2>1. PICK u, v : u = ch[a] /\ v = more
    OBVIOUS
  <2>2. u \in Seq(Cluster) /\ v \in Seq(Cluster) /\ s = u \o v /\ Len(u) \in Nat /\ Len(u) > 0
    BY <1>3, <1>5, <1>7, <2>1
  <2>3. /\ s \in Seq(Cluster) /\ Len(s) = Len(u) + Len(v)
        /\ \A m \in 1..Len(s) : s[m] = IF m <= Len(u) THEN u[m] ELSE v[m - Len(u)]
    BY <2>2
  <2>4. Len(v) = gained
    BY <1>7, <2>1
  <2>5. s # <<>> /\ Len(s) \in Nat
    BY <2>2, <2>3
  <2> QED BY <2>1, <2>3, <2>4, <2>5
<1>10. Layout(fat, ch) /\ data \in Cells
  BY DEF Sound, SoundTree
<1>11. Rewired(fat, ch, a, s, g)
  BY <1>3, <1>5, <1>7, <1>8, <1>10, LinkRewires
<1>12. z \in Cells /\ e \in Cells
  <2>1. z \in Cells
    BY <1>4, <1>7, <1>10, ZeroedIs
  <2> QED BY <1>4, <1>9, <2>1, PutCellsIs
<1>13. ASSUME NEW y \in Cluster, IsDirectory(data, y) PROVE e[y] = data[y]
  <2>1. \A m \in 1..Len(ch[a]) : ch[a][m] # y
    BY <1>5, <1>13, DirectoryChain DEF InChain
  <2>2. \A m \in 1..Len(more) : more[m] # y
    BY <1>8, <1>13, FreeIsNew
  <2>3. z[y] = data[y]
    BY <1>4, <1>7, <1>10, <2>2, ZeroedIs
  <2>4. \A m \in 1..Len(s) : s[m] # y
    <3> TAKE m \in 1..Len(s)
    <3>1. CASE m <= Len(ch[a])
      <4>1. m \in 1..Len(ch[a]) /\ s[m] = ch[a][m]
        BY <1>5, <1>9, <3>1
      <4> QED BY <2>1, <4>1
    <3>2. CASE m > Len(ch[a])
      <4>1. PICK k : k = m - Len(ch[a])
        OBVIOUS
      <4>2. k \in 1..Len(more)
        BY <1>5, <1>7, <1>9, <3>2, <4>1
      <4>3. ~ (m <= Len(ch[a]))
        BY <1>5, <1>9, <3>2
      <4>4. s[m] = more[k]
        BY <1>9, <4>1, <4>3
      <4> QED BY <2>2, <4>2, <4>4
    <3> QED BY <1>5, <1>9, <3>1, <3>2
  <2>5. e[y] = z[y]
    BY <1>4, <1>9, <1>12, <2>4, PutCellsIs, SMTT(30)
  <2> QED BY <2>3, <2>5
<1>14. Sound(fat, e, leaked, fds, ch)
  BY <1>12, <1>13, SoundSame
<1>15. Slot(e, c, i) /\ e[c][i] = data[c][i]
  <2>1. SoundTree(data)
    BY DEF Sound
  <2> QED BY <1>5, <1>12, <1>13, <2>1, SameTree DEF SameDirectories, Slot
<1>16. Capacity(Len(ch[a])) <= Capacity(Len(s)) /\ Capacity(Len(s)) \in Nat /\ Capacity(Len(ch[a])) \in Nat
  <2>1. PICK m, n \in Nat : m = Len(ch[a]) /\ n = Len(s)
    BY <1>5, <1>9
  <2>2. m <= n
    BY <1>9, <2>1
  <2> QED BY <2>1, <2>2, CapacityFacts
<1>17. Sound(g, e, leaked, fds, [ch EXCEPT ![a] = s])
  <2>1. e[c][i].size <= Capacity(Len(s))
    <3>1. data[c][i].size \in Nat
      BY <1>5, <1>10, SlotFields
    <3> QED BY <1>5, <1>15, <1>16, <3>1
  <2>2. ASSUME NEW y \in Handle, fds[y].open, fds[y].dirCluster = c, fds[y].dirIndex = i
        PROVE  fds[y].size <= Capacity(Len(s))
    <3>1. fds[y].size <= Capacity(Len(ch[fds[y].first])) /\ fds[y].size \in Nat
      BY <2>2, HandleFacts
    <3>2. data[c][i].first = fds[y].first
      BY <2>2, HandleFacts
    <3> QED BY <1>5, <1>16, <3>1, <3>2
  <2>3. a = e[c][i].first
    BY <1>5, <1>15
  <2>4. \A y \in Handle : fds[y].open /\ fds[y].dirCluster = c /\ fds[y].dirIndex = i
           => fds[y].size <= Capacity(Len(s))
    BY <2>2
  <2>5. s # <<>> /\ Slot(e, c, i)
    BY <1>9, <1>15
  <2> QED BY <1>11, <1>14, <2>1, <2>3, <2>4, <2>5, SoundRewire
<1>18. [ch EXCEPT ![a] = s][a] = s
  BY <1>5, <1>10 DEF Layout, Chains
<1>19. /\ GrownFat(ch, a, gained) = g /\ Written(ch, a, gained, pos, new) = e
       /\ GrownChains(ch, a, gained) = [ch EXCEPT ![a] = s]
  BY <1>2, <1>3, <1>4 DEF GrownFat, Written, GrownChains, More
<1> QED BY <1>1, <1>9, <1>17, <1>18, <1>19

\* The clusters a write is short of make the chain cover its end.
LEMMA MissingFacts ==
  ASSUME NEW ch, Sound(fat, data, leaked, fds, ch), NEW h \in Handle, fds[h].open, NEW n \in Nat
  PROVE  LET pos == AppendPosition(fds[h])
             have == Len(ch[fds[h].first])
         IN  /\ pos \in Nat /\ pos <= fds[h].size
             /\ Missing(h, n) \in Nat /\ pos + n <= Capacity(have + Missing(h, n))
<1>1. PICK x, a, pos, have : x = fds[h] /\ a = x.first /\ pos = AppendPosition(x) /\ have = Len(ch[a])
  OBVIOUS
<1>2. Chain(fat, a) = ch[a] /\ have \in Nat /\ x.size \in Nat /\ x.pos \in Nat /\ x.pos <= x.size
  BY <1>1, HandleFacts
<1>3. pos \in Nat /\ pos <= x.size
  BY <1>1, <1>2 DEF AppendPosition
<1>4. PICK need : need = ClustersFor(pos + n)
  OBVIOUS
<1>5. need \in Nat /\ pos + n <= Capacity(need) /\ pos + n \in Nat
  BY <1>3, <1>4, ClustersForFacts
<1>6. Missing(h, n) = IF need > have THEN need - have ELSE 0
  BY <1>1, <1>2, <1>4 DEF Missing
<1>7. PICK m : m = Missing(h, n)
  OBVIOUS
<1>8. m \in Nat /\ need <= have + m /\ have + m \in Nat
  BY <1>2, <1>5, <1>6, <1>7
<1>9. Capacity(need) <= Capacity(have + m) /\ Capacity(need) \in Nat /\ Capacity(have + m) \in Nat
  <2>1. PICK k \in Nat : k = have + m
    BY <1>8
  <2> QED BY <1>5, <1>8, <2>1, CapacityFacts
<1>10. pos + n <= Capacity(have + m)
  BY <1>5, <1>9
<1> QED BY <1>1, <1>3, <1>7, <1>8, <1>10

\* The handle of a write that has gone through.
LEMMA AdvancedSound ==
  ASSUME NEW f, NEW d, NEW l, NEW ch, Sound(f, d, l, fds, ch), NEW h \in Handle, fds[h].open, Alone(h),
         NEW n \in Nat, AppendPosition(fds[h]) + n <= MaxSize,
         AppendPosition(fds[h]) + n <= Capacity(Len(ch[fds[h].first]))
  PROVE  LET after == Advanced(fds[h], n)
             hs == [fds EXCEPT ![h] = after]
         IN  /\ Sound(f, d, l, hs, ch) /\ Sound(f, UpdatedEntry(d, after), l, hs, ch)
             /\ after.size \in Nat /\ fds[h].size \in Nat
<1>1. PICK x, y, end, k, hs : /\ x = fds[h] /\ end = AppendPosition(x) + n /\ y = Advanced(x, n)
                              /\ k = (IF end > x.size THEN end ELSE x.size)
                              /\ hs = [fds EXCEPT ![h] = y]
  OBVIOUS
<1>2. /\ x \in File /\ InPlace(x, ch, d) /\ x.size \in Nat /\ x.pos \in Nat /\ x.size <= MaxSize
      /\ x.pos <= x.size /\ x.size <= Capacity(Len(ch[x.first])) /\ x.first \in Cluster
      /\ Len(ch[x.first]) \in Nat /\ Slot(d, x.dirCluster, x.dirIndex)
  BY <1>1, HandleFacts
<1>3. end \in Nat /\ end <= MaxSize /\ end <= Capacity(Len(ch[x.first])) /\ MaxSize \in Nat
  <2>1. AppendPosition(x) \in Nat
    BY <1>2 DEF AppendPosition
  <2> QED BY <1>1, <2>1, WriteAssumption
<1>4. /\ end \in 0..MaxSize /\ k \in 0..MaxSize /\ k <= Capacity(Len(ch[x.first])) /\ x.size <= k
      /\ end <= k /\ k \in Nat
  BY <1>1, <1>2, <1>3
<1>5. y = [x EXCEPT !.pos = end, !.size = k]
  BY <1>1 DEF Advanced
<1>6. /\ y \in File /\ y.pos = end /\ y.size = k /\ y.open /\ y.first = x.first
      /\ y.dirCluster = x.dirCluster /\ y.dirIndex = x.dirIndex
  BY <1>2, <1>4, <1>5 DEF File
<1>7. InPlace(y, ch, d)
  <2>1. PICK c, i : c = x.dirCluster /\ i = x.dirIndex
    OBVIOUS
  <2>2. d[c][i].size <= x.size /\ d[c][i].size \in Nat
    <3>1. d \in Cells
      BY DEF Sound, SoundTree
    <3> QED BY <1>2, <2>1, <3>1, SlotFields DEF InPlace
  <2>3. d[c][i].size <= k
    BY <1>2, <1>4, <2>2
  <2>4. Slot(d, c, i) /\ ~ d[c][i].dir /\ d[c][i].first = x.first
    BY <1>2, <2>1 DEF InPlace
  <2> QED BY <1>4, <1>6, <2>1, <2>3, <2>4 DEF InPlace
<1>8. ASSUME NEW g \in Handle, g # h, fds[g].open, fds[g].dirCluster = x.dirCluster,
             fds[g].dirIndex = x.dirIndex
      PROVE  FALSE
  BY <1>1, <1>8 DEF Alone
<1>9. Sound(f, d, l, hs, ch)
  BY <1>1, <1>6, <1>7, <1>8, SoundHandle
<1>10. hs[h] = y /\ \A g \in Handle : g # h => hs[g] = fds[g]
  BY <1>1 DEF Sound, Hands
<1>11. \A g \in Handle : hs[g].open /\ hs[g].dirCluster = hs[h].dirCluster
          /\ hs[g].dirIndex = hs[h].dirIndex => hs[g].size = hs[h].size
  BY <1>6, <1>8, <1>10
<1>12. Sound(f, UpdatedEntry(d, y), l, hs, ch)
  BY <1>6, <1>9, <1>10, <1>11, SoundUpdated
<1> QED BY <1>1, <1>2, <1>4, <1>6, <1>9, <1>12

\* A write keeps the invariant: it extends the chain before the size.
LEMMA PwriteKept ==
  ASSUME NEW ch, Sound(fat, data, leaked, fds, ch), torn = NoPath, NEW h \in Handle, NEW v \in Value,
         NEW n \in 1..MaxWrite, Pwrite(h, [i \in 1..n |-> Unit(v)])
  PROVE  VInv'
<1>1. PICK new : new = [i \in 1..n |-> Unit(v)]
  OBVIOUS
<1>2. new \in Seq(Cell) /\ Len(new) = n /\ n \in Nat
  <2>1. n \in Nat
    BY WriteAssumption
  <2>2. Unit(v) \in Cell
    BY DEF Cell
  <2> QED BY <1>1, <2>1, <2>2
<1>3. PICK x, a, pos : x = fds[h] /\ a = x.first /\ pos = AppendPosition(x)
  OBVIOUS
<1>4. /\ x.open /\ Alone(h) /\ pos + n <= MaxSize /\ leaked' = leaked /\ torn' = NoPath
      /\ WriteSucceeds(h, new) \/ WriteFails(h, new) \/ WriteUnrecorded(h, new)
  BY <1>1, <1>2, <1>3 DEF Pwrite
<1>5. Chain(fat, a) = ch[a] /\ Len(ch[a]) \in Nat /\ pos \in Nat /\ pos <= x.size /\ x.size \in Nat
  <2>1. Chain(fat, a) = ch[a] /\ Len(ch[a]) \in Nat /\ x.size \in Nat
    BY <1>3, <1>4, HandleFacts
  <2>2. pos \in Nat /\ pos <= x.size
    BY <1>2, <1>3, <1>4, MissingFacts
  <2> QED BY <2>1, <2>2
<1>6. ASSUME NEW k \in Nat, k <= Len(FreeInOrder(fat)), NEW s \in Seq(Cell)
      PROVE  /\ Sound(GrownFat(ch, a, k), Written(ch, a, k, pos, s), leaked, fds, GrownChains(ch, a, k))
             /\ Len(GrownChains(ch, a, k)[a]) = Len(ch[a]) + k
  BY <1>3, <1>4, <1>5, <1>6, StoredSound
<1>7. PICK m : m = Missing(h, n)
  OBVIOUS
<1>8. m \in Nat /\ pos + n <= Capacity(Len(ch[a]) + m)
  BY <1>2, <1>3, <1>4, <1>7, MissingFacts
<1>9. PICK after, hs : after = Advanced(x, n) /\ hs = [fds EXCEPT ![h] = after]
  OBVIOUS
\* All the clusters needed were there.
<1>10. ASSUME m <= Len(FreeInOrder(fat)), NEW s \in Seq(Cell)
       PROVE  /\ Sound(GrownFat(ch, a, m), Written(ch, a, m, pos, s), leaked, hs, GrownChains(ch, a, m))
              /\ Sound(GrownFat(ch, a, m), UpdatedEntry(Written(ch, a, m, pos, s), after), leaked, hs, GrownChains(ch, a, m))
  <2>1. Sound(GrownFat(ch, a, m), Written(ch, a, m, pos, s), leaked, fds, GrownChains(ch, a, m)) /\ Len(GrownChains(ch, a, m)[a]) = Len(ch[a]) + m
    BY <1>6, <1>8, <1>10
  <2>2. pos + n <= Capacity(Len(GrownChains(ch, a, m)[a]))
    BY <1>8, <2>1
  <2> QED BY <1>2, <1>3, <1>4, <1>9, <2>1, <2>2, AdvancedSound
<1>11. CASE WriteSucceeds(h, new)
  <2>1. /\ m <= Len(FreeInOrder(fat)) /\ fat' = GrownFat(ch, a, m) /\ fds' = hs
        /\ data' \in {Written(ch, a, m, pos, new), UpdatedEntry(Written(ch, a, m, pos, new), after)}
    BY <1>2, <1>3, <1>5, <1>7, <1>9, <1>11 DEF WriteSucceeds, GrownFat, Written, More
  <2> QED BY <1>2, <1>4, <1>10, <2>1, StillKept
<1>12. CASE WriteUnrecorded(h, new)
  <2>1. PICK s : s = SubSeq(new, 1, n)
    OBVIOUS
  <2>2. s \in Seq(Cell)
    BY <1>2, <2>1
  <2>3. m <= Len(FreeInOrder(fat)) /\ fat' = GrownFat(ch, a, m) /\ fds' = hs /\ data' = Written(ch, a, m, pos, s)
    BY <1>2, <1>3, <1>5, <1>7, <1>9, <1>12, <2>1 DEF WriteUnrecorded, Stored, GrownFat, Written, More
  <2> QED BY <1>4, <1>10, <2>2, <2>3, StillKept
<1>13. CASE WriteFails(h, new)
  <2>1. PICK k \in 0..m, done \in 0..(n - 1) :
           k <= Len(FreeInOrder(fat)) /\ Stored(h, k, done, new) /\ fds' = [fds EXCEPT ![h].pos = pos]
    BY <1>2, <1>3, <1>7, <1>13 DEF WriteFails
  <2>2. PICK s : s = SubSeq(new, 1, done)
    OBVIOUS
  <2>3. s \in Seq(Cell) /\ k \in Nat
    BY <1>2, <1>8, <2>1, <2>2
  <2>4. fat' = GrownFat(ch, a, k) /\ data' = Written(ch, a, k, pos, s)
    BY <1>3, <1>5, <2>1, <2>2 DEF Stored, GrownFat, Written, More
  <2>5. Sound(GrownFat(ch, a, k), Written(ch, a, k, pos, s), leaked, fds, GrownChains(ch, a, k))
    BY <1>6, <2>1, <2>3
  <2>6. Sound(GrownFat(ch, a, k), Written(ch, a, k, pos, s), leaked, fds', GrownChains(ch, a, k))
    BY <1>3, <1>4, <1>5, <2>1, <2>5, SoundMoved
  <2> QED BY <1>4, <2>4, <2>6, StillKept
<1> QED BY <1>4, <1>11, <1>12, <1>13

(***************************************************************************)
(* Rename                                                                  *)
(***************************************************************************)
\* Reading k cells from cluster c on: the cells of c, then what the next cluster holds.
ReadRule(w, c, k) ==
  IF k <= CellsPerCluster \/ fat[c] \notin Cluster
  THEN [i \in 1..Min({k, CellsPerCluster}) |-> data[c][i]]
  ELSE data[c] \o w[<<fat[c], k - CellsPerCluster>>]

Reader(read) == \A c \in Cluster, k \in 0..MaxSize : read[<<c, k>>] = ReadRule(read, c, k)

\* What one cluster gives is a sequence of cells, and no more than was asked for.
LEMMA FirstCells ==
  ASSUME data \in Cells, NEW c \in Cluster, NEW k \in 0..MaxSize
  PROVE  LET s == [i \in 1..Min({k, CellsPerCluster}) |-> data[c][i]]
         IN  /\ s \in Seq(Cell) /\ Len(s) <= k
             /\ k <= CellsPerCluster => Len(s) = k
             /\ \A i \in 1..Len(s) : s[i] = data[c][i]
<1>1. MaxSize \in Nat /\ CellsPerCluster \in Nat /\ CellsPerCluster > 0
  BY WriteAssumption, CellsAssumption
<1>2. PICK m : m = Min({k, CellsPerCluster})
  OBVIOUS
<1>3. m \in {k, CellsPerCluster} /\ m <= k /\ m <= CellsPerCluster
  <2>1. {k, CellsPerCluster} \in SUBSET Nat /\ {k, CellsPerCluster} # {}
    BY <1>1
  <2> QED BY <1>2, <2>1, MinExists
<1>4. m \in Nat /\ k \in Nat
  BY <1>1, <1>3
<1>5. \A i \in 1..m : data[c][i] \in Cell
  <2>1. \A i \in 1..m : i \in Offset
    BY <1>1, <1>3, <1>4 DEF Offset
  <2> QED BY <2>1 DEF Cells
<1>6. PICK s : s = [i \in 1..m |-> data[c][i]]
  OBVIOUS
<1>7. s \in [1..m -> Cell]
  BY <1>5, <1>6
<1>8. s \in Seq(Cell) /\ Len(s) = m /\ \A i \in 1..m : s[i] = data[c][i]
  BY <1>4, <1>6, <1>7
<1> QED BY <1>1, <1>2, <1>3, <1>4, <1>6, <1>8

\* The recursion of fat32_read is well defined: it goes down with the cells that are left.
LEMMA ReaderExists ==
  ASSUME fat \in [Cluster -> FatEntry], data \in Cells
  PROVE  \E read : /\ Reader(read)
                   /\ \A p : FileCells(p) = read[<<EntryOf(p).first, EntryOf(p).size>>]
<1> DEFINE n == MaxSize
           D == Cluster \X (0..n)
           Q == [D -> Seq(Cell)]
           first(c, k) == [i \in 1..Min({k, CellsPerCluster}) |-> data[c][i]]
           rule(w, c, k) == IF k <= CellsPerCluster \/ fat[c] \notin Cluster THEN first(c, k)
                            ELSE data[c] \o w[<<fat[c], k - CellsPerCluster>>]
           base == [at \in D |-> first(at[1], at[2])]
           Step(w, m) == [at \in D |-> IF at[2] = m THEN rule(w, at[1], at[2]) ELSE w[at]]
           next_ == [m \in 1..n |-> [w \in Q |-> Step(w, m)]]
           read == CHOOSE g : g = [at \in D |-> rule(g, at[1], at[2])]
<1>1. n \in Nat /\ CellsPerCluster \in Nat /\ CellsPerCluster > 0
  BY WriteAssumption, CellsAssumption
<1>2. \A p : FileCells(p) = read[<<EntryOf(p).first, EntryOf(p).size>>]
  BY DEF FileCells
<1>3. ASSUME NEW c \in Cluster
      PROVE  data[c] \in Seq(Cell) /\ Len(data[c]) = CellsPerCluster
  <2>1. data[c] \in [1..CellsPerCluster -> Cell]
    BY DEF Cells, Offset
  <2> QED BY <1>1, <2>1
<1>4. ASSUME NEW c \in Cluster, NEW k \in 0..n
      PROVE  first(c, k) \in Seq(Cell) /\ Len(first(c, k)) <= k
  BY <1>4, FirstCells
<1> HIDE DEF first
<1>5. ASSUME NEW w \in Q, NEW c \in Cluster, NEW k \in 0..n
      PROVE  rule(w, c, k) \in Seq(Cell)
  <2>1. CASE k <= CellsPerCluster \/ fat[c] \notin Cluster
    BY <1>4, <2>1
  <2>2. CASE ~ (k <= CellsPerCluster \/ fat[c] \notin Cluster)
    <3>1. <<fat[c], k - CellsPerCluster>> \in D
      BY <1>1, <2>2
    <3>2. w[<<fat[c], k - CellsPerCluster>>] \in Seq(Cell)
      BY <3>1
    <3>3. rule(w, c, k) = data[c] \o w[<<fat[c], k - CellsPerCluster>>]
      BY <2>2
    <3>4. PICK u, v : u = data[c] /\ v = w[<<fat[c], k - CellsPerCluster>>]
      OBVIOUS
    <3>5. u \in Seq(Cell) /\ v \in Seq(Cell)
      BY <1>3, <3>2, <3>4
    <3>6. u \o v \in Seq(Cell)
      BY <3>5
    <3> QED BY <3>3, <3>4, <3>6
  <2> QED BY <2>1, <2>2
<1>6. base \in Q /\ \A w \in Q, m \in 1..n : Step(w, m) \in Q
  <2> HIDE DEF rule
  <2>1. \A at \in D : at[1] \in Cluster /\ at[2] \in 0..n
    OBVIOUS
  <2>2. \A at \in D : first(at[1], at[2]) \in Seq(Cell)
    BY <1>4, <2>1
  <2>3. \A w \in Q, at \in D : rule(w, at[1], at[2]) \in Seq(Cell)
    BY <1>5, <2>1
  <2> HIDE DEF D
  <2> QED BY <2>2, <2>3
<1>7. PICK g : StepsFrom(g, base, n, Q, next_)
  <2>1. next_ \in [1..n -> [Q -> Q]]
    <3> HIDE DEF Q, Step
    <3> QED BY <1>6
  <2> HIDE DEF Q, Step, n, base, next_
  <2> QED BY <1>1, <1>6, <2>1, RecursionExists
<1>8. g \in [0..n -> Q] /\ g[0] = base /\ \A m \in 1..n : g[m] = Step(g[m - 1], m)
  <2> HIDE DEF Q, Step, base
  <2>1. \A m \in 1..n : g[m - 1] \in Q
    BY <1>1, <1>7 DEF StepsFrom
  <2> QED BY <1>7, <2>1 DEF StepsFrom
<1> HIDE DEF n
\* The table settles at k once the step k is done.
<1> DEFINE Settled == {k \in 0..n : \A m \in 0..n, at \in D : at[2] <= m /\ m <= k => g[k][at] = g[m][at]}
<1>9. 0 \in Settled
  <2>1. \A m \in 0..n : m <= 0 => m = 0
    BY <1>1
  <2> HIDE DEF D
  <2> QED BY <1>1, <2>1
<1>10. ASSUME NEW k \in 0..(n - 1), k \in Settled PROVE k + 1 \in Settled
  <2>1. k + 1 \in 1..n /\ k + 1 \in 0..n /\ (k + 1) - 1 = k
    BY <1>1
  <2>2. \A at \in D : at[2] \in 0..n
    OBVIOUS
  <2>3. PICK j : j = k + 1
    OBVIOUS
  <2>4. g[j] = Step(g[k], j)
    BY <1>8, <2>1, <2>3, ZenonT(60)
  <2> HIDE DEF D, rule
  <2>5. \A at \in D : at[2] # j => g[j][at] = g[k][at]
    BY <2>4
  <2>6. ASSUME NEW m \in 0..n, NEW at \in D, at[2] <= m, m <= j
        PROVE  g[j][at] = g[m][at]
    <3>1. CASE m = j
      BY <3>1
    <3>2. CASE m # j
      <4>1. m <= k /\ at[2] # j
        BY <1>1, <2>2, <2>3, <2>6, <3>2
      <4> QED BY <1>10, <2>5, <2>6, <4>1
    <3> QED BY <3>1, <3>2
  <2> QED BY <2>1, <2>3, <2>6
<1> HIDE DEF Settled
<1>11. \A k \in 0..n : k \in Settled
  BY <1>1, <1>9, <1>10, IntervalInduction
<1>12. \A m \in 0..n, at \in D : at[2] <= m => g[n][at] = g[m][at]
  <2> HIDE DEF D
  <2> QED BY <1>1, <1>11 DEF Settled
<1>13. ASSUME NEW at \in D
       PROVE  g[n][at] = rule(g[n], at[1], at[2])
  <2>1. PICK c, k : c = at[1] /\ k = at[2]
    OBVIOUS
  <2>2. c \in Cluster /\ k \in 0..n /\ k \in Nat
    BY <1>1, <2>1
  <2>3. g[n][at] = g[k][at]
    BY <1>1, <1>12, <2>1, <2>2
  <2>4. CASE k = 0
    <3>1. g[k][at] = first(c, k)
      BY <1>8, <2>1, <2>4
    <3>2. rule(g[n], c, k) = first(c, k)
      BY <1>1, <2>4
    <3> QED BY <2>1, <2>3, <3>1, <3>2
  <2>5. CASE k # 0
    <3>1. k \in 1..n /\ k - 1 \in 0..n
      BY <1>1, <2>2, <2>5
    <3>2. g[k][at] = rule(g[k - 1], c, k)
      <4>1. g[k] = Step(g[k - 1], k)
        BY <1>8, <3>1
      <4> HIDE DEF rule, D
      <4> QED BY <2>1, <4>1
    <3>3. rule(g[k - 1], c, k) = rule(g[n], c, k)
      <4>1. CASE k <= CellsPerCluster \/ fat[c] \notin Cluster
        BY <4>1
      <4>2. CASE ~ (k <= CellsPerCluster \/ fat[c] \notin Cluster)
        <5>1. PICK b : b = <<fat[c], k - CellsPerCluster>>
          OBVIOUS
        <5>2. b \in D /\ b[2] <= k - 1
          BY <1>1, <2>2, <4>2, <5>1
        <5>3. g[n][b] = g[k - 1][b]
          BY <1>12, <3>1, <5>2
        <5> QED BY <4>2, <5>1, <5>3
      <4> QED BY <4>1, <4>2
    <3> HIDE DEF rule
    <3> QED BY <2>1, <2>3, <3>2, <3>3
  <2> QED BY <2>4, <2>5
<1>14. read = [at \in D |-> rule(read, at[1], at[2])]
  <2>1. DOMAIN g[n] = D /\ g[n] = [at \in D |-> g[n][at]]
    <3>1. g[n] \in Q
      BY <1>1, <1>8
    <3> HIDE DEF D
    <3> QED BY <3>1
  <2>2. g[n] = [at \in D |-> rule(g[n], at[1], at[2])]
    <3> HIDE DEF D, rule
    <3> QED BY <1>13, <2>1
  <2> HIDE DEF D, rule
  <2> QED BY <2>2
<1> HIDE DEF read
<1>15. ASSUME NEW c \in Cluster, NEW k \in 0..n PROVE read[<<c, k>>] = rule(read, c, k)
  <2>1. PICK at : at = <<c, k>>
    OBVIOUS
  <2>2. at \in D /\ at[1] = c /\ at[2] = k
    BY <2>1
  <2>3. read[at] = rule(read, at[1], at[2])
    <3> HIDE DEF rule, D
    <3> QED BY <1>14, <2>2
  <2> HIDE DEF rule
  <2> QED BY <2>1, <2>2, <2>3
<1>16. Reader(read)
  <2>1. \A c \in Cluster, k \in 0..n : rule(read, c, k) = ReadRule(read, c, k)
    BY DEF ReadRule, first
  <2> HIDE DEF rule
  <2> QED BY <1>15, <2>1 DEF Reader, n
<1> QED BY <1>2, <1>16

\* Reading a file returns at most as many cells as its size says.
LEMMA FileCellsTyped ==
  ASSUME fat \in [Cluster -> FatEntry], data \in Cells, NEW p,
         EntryOf(p).first \in Cluster, EntryOf(p).size \in 0..MaxSize
  PROVE  FileCells(p) \in Seq(Cell) /\ Len(FileCells(p)) \in Nat /\ Len(FileCells(p)) <= MaxSize
<1> DEFINE n == MaxSize
           first(c, k) == [i \in 1..Min({k, CellsPerCluster}) |-> data[c][i]]
<1>1. n \in Nat /\ CellsPerCluster \in Nat /\ CellsPerCluster > 0
  BY WriteAssumption, CellsAssumption
<1>2. PICK read : /\ Reader(read)
                  /\ \A q : FileCells(q) = read[<<EntryOf(q).first, EntryOf(q).size>>]
  BY ReaderExists
<1>3. ASSUME NEW c \in Cluster
      PROVE  data[c] \in Seq(Cell) /\ Len(data[c]) = CellsPerCluster
  <2>1. data[c] \in [1..CellsPerCluster -> Cell]
    BY DEF Cells, Offset
  <2> QED BY <1>1, <2>1
<1>4. ASSUME NEW c \in Cluster, NEW k \in 0..n
      PROVE  first(c, k) \in Seq(Cell) /\ Len(first(c, k)) <= k
  BY <1>4, FirstCells
<1>15. ASSUME NEW c \in Cluster, NEW k \in 0..n
       PROVE  read[<<c, k>>] = IF k <= CellsPerCluster \/ fat[c] \notin Cluster THEN first(c, k)
                               ELSE data[c] \o read[<<fat[c], k - CellsPerCluster>>]
  BY <1>2 DEF Reader, ReadRule
<1> HIDE DEF first
<1> DEFINE Good == {k \in 0..n : \A c \in Cluster, j \in 0..n : j <= k =>
                       read[<<c, j>>] \in Seq(Cell) /\ Len(read[<<c, j>>]) <= j}
<1>16. ASSUME NEW c \in Cluster, NEW j \in 0..n,
              \A e \in Cluster, i \in 0..n : i < j =>
                 read[<<e, i>>] \in Seq(Cell) /\ Len(read[<<e, i>>]) <= i
       PROVE  read[<<c, j>>] \in Seq(Cell) /\ Len(read[<<c, j>>]) <= j
  <2>1. CASE j <= CellsPerCluster \/ fat[c] \notin Cluster
    <3>1. read[<<c, j>>] = first(c, j)
      BY <1>15, <2>1
    <3> QED BY <1>4, <3>1
  <2>2. CASE ~ (j <= CellsPerCluster \/ fat[c] \notin Cluster)
    <3>1. PICK i, e, w : i = j - CellsPerCluster /\ e = fat[c] /\ w = read[<<e, i>>]
      OBVIOUS
    <3>2. i \in 0..n /\ i < j /\ e \in Cluster
      BY <1>1, <2>2, <3>1
    <3>3. w \in Seq(Cell) /\ Len(w) <= i
      BY <1>16, <3>1, <3>2
    <3>4. read[<<c, j>>] = data[c] \o w
      BY <1>15, <2>2, <3>1
    <3>5. data[c] \o w \in Seq(Cell) /\ Len(data[c] \o w) = CellsPerCluster + Len(w)
      <4>1. PICK u : u = data[c]
        OBVIOUS
      <4>2. u \in Seq(Cell) /\ Len(u) = CellsPerCluster
        BY <1>3, <4>1
      <4>3. u \o w \in Seq(Cell) /\ Len(u \o w) = Len(u) + Len(w)
        BY <3>3, <4>2
      <4> QED BY <4>1, <4>2, <4>3
    <3> QED BY <1>1, <3>1, <3>2, <3>3, <3>4, <3>5
  <2> QED BY <2>1, <2>2
<1>17. 0 \in Good
  <2>1. \A j \in 0..n : j <= 0 => j = 0
    BY <1>1
  <2>2. 0 \in 0..n /\ \A i \in 0..n : ~ (i < 0)
    BY <1>1
  <2> QED BY <1>16, <2>1, <2>2
<1>18. ASSUME NEW k \in 0..(n - 1), k \in Good PROVE k + 1 \in Good
  <2>1. k + 1 \in 0..n
    BY <1>1
  <2>2. \A c \in Cluster, j \in 0..n : j <= k => read[<<c, j>>] \in Seq(Cell) /\ Len(read[<<c, j>>]) <= j
    BY <1>18
  <2>3. ASSUME NEW c \in Cluster, NEW j \in 0..n, j <= k + 1
        PROVE  read[<<c, j>>] \in Seq(Cell) /\ Len(read[<<c, j>>]) <= j
    <3>1. \A i \in 0..n : i < j => i <= k
      BY <1>1, <2>3
    <3> QED BY <1>16, <2>2, <3>1
  <2> QED BY <2>1, <2>3
<1> HIDE DEF Good
<1>19. \A k \in 0..n : k \in Good
  BY <1>1, <1>17, <1>18, IntervalInduction
<1>20. PICK a, s : a = EntryOf(p).first /\ s = EntryOf(p).size
  OBVIOUS
<1>21. a \in Cluster /\ s \in 0..n
  BY <1>20
<1>22. read[<<a, s>>] \in Seq(Cell) /\ Len(read[<<a, s>>]) <= s
  BY <1>1, <1>19, <1>21 DEF Good
<1> QED BY <1>1, <1>2, <1>20, <1>21, <1>22

\* What a concatenation holds.
LEMMA ConcatIs ==
  ASSUME NEW E, NEW u \in Seq(E), NEW v \in Seq(E)
  PROVE  /\ u \o v \in Seq(E) /\ Len(u \o v) = Len(u) + Len(v)
         /\ \A m \in 1..Len(u \o v) : (u \o v)[m] = IF m <= Len(u) THEN u[m] ELSE v[m - Len(u)]
OBVIOUS

\* The new file of a rename, with `more` clusters behind its first and the cells s in them.
CopyChains(ch, more) ==
  [[ch EXCEPT ![NewCluster] = <<NewCluster>>] EXCEPT ![NewCluster] = <<NewCluster>> \o more]

CopyFat(more) == Linked(FatWithNew, <<NewCluster>>, more)

CopyData(q, more, s) ==
  PutCells(Zeroed(DataWithNew(q, FALSE), more), <<NewCluster>> \o more, 0, s)

Copied(q, d, new, ch, more) ==
  LET c == DirOf(q)
      i == Min(Vacant(DirOf(q)))
      a == NewCluster
  IN  /\ Slot(d, c, i) /\ d[c][i] = Entry(Last(q), a, 0, FALSE)
      /\ a \in Cluster /\ new[a] = <<a>> \o more /\ ch[a] = <<>>
      /\ \A b \in Cluster : b # a => new[b] = ch[b]
      /\ \A h \in Handle : fds[h].open => ~ (fds[h].dirCluster = c /\ fds[h].dirIndex = i)
      /\ \A x \in Cluster, j \in Offset : Slot(data, x, j) =>
            Slot(d, x, j) /\ d[x][j] = data[x][j] /\ ~ (x = c /\ j = i)
      /\ \A x \in Cluster, j \in Offset : Slot(d, x, j) => Slot(data, x, j) \/ (x = c /\ j = i)

\* The copy that a rename makes is a new file with all its clusters.
LEMMA CopySound ==
  ASSUME NEW ch, Sound(fat, data, leaked, fds, ch), NEW q \in Path, MayCreate(q),
         Vacant(DirOf(q)) # {}, NEW more \in Seq(Cluster), Once(more),
         \A i \in 1..Len(more) : fat[more[i]] = 0 /\ more[i] # NewCluster, NEW s \in Seq(Cell)
  PROVE  /\ Sound(CopyFat(more), CopyData(q, more, s), leaked, fds, CopyChains(ch, more))
         /\ Copied(q, CopyData(q, more, s), CopyChains(ch, more), ch, more)
<1>1. PICK a, c, i, b, n, one : /\ a = NewCluster /\ c = DirOf(q) /\ i = Min(Vacant(DirOf(q)))
                                /\ b = FALSE /\ n = Last(q) /\ one = <<a>>
  OBVIOUS
<1>2. PICK e, f, new : e = DataWithNew(q, b) /\ f = FatWithNew /\ new = [ch EXCEPT ![a] = one]
  OBVIOUS
<1>3. Sound(f, e, leaked, fds, new) /\ Created(q, b, new)
  <2>1. b \in BOOLEAN /\ (b => Len(q) = 1)
    BY <1>1
  <2>2. LET w == [ch EXCEPT ![NewCluster] = <<NewCluster>>]
        IN  Sound(FatWithNew, DataWithNew(q, b), leaked, fds, w) /\ Created(q, b, w)
    BY <2>1, SoundCreate
  <2> QED BY <1>1, <1>2, <2>2
<1>4. /\ Slot(e, c, i) /\ e[c][i] = Entry(n, a, 0, b) /\ c \in Cluster /\ i \in Offset /\ a \in Cluster
      /\ new[a] = one
      /\ \A h \in Handle : fds[h].open => ~ (fds[h].dirCluster = c /\ fds[h].dirIndex = i)
      /\ \A x \in Cluster, j \in Offset : Slot(data, x, j) =>
            Slot(e, x, j) /\ e[x][j] = data[x][j] /\ ~ (x = c /\ j = i)
      /\ \A x \in Cluster, j \in Offset : Slot(e, x, j) => Slot(data, x, j) \/ (x = c /\ j = i)
  BY <1>1, <1>2, <1>3 DEF Created
<1>5. Layout(f, new) /\ SoundTree(e) /\ e \in Cells /\ Layout(fat, ch) /\ ch \in [Cluster -> Seq(Cluster)]
      /\ new \in [Cluster -> Seq(Cluster)]
  BY <1>3 DEF Sound, SoundTree, Layout, Chains
<1>6. one \in Seq(Cluster) /\ Len(one) = 1 /\ one[1] = a /\ one # <<>>
  BY <1>1, <1>4
<1>7. PICK t : t = one \o more
  OBVIOUS
<1>8. /\ t \in Seq(Cluster) /\ Len(t) = 1 + Len(more) /\ t # <<>> /\ Len(t) \in Nat
      /\ \A m \in 1..Len(t) : t[m] = IF m = 1 THEN a ELSE more[m - 1]
  <2>1. /\ t \in Seq(Cluster) /\ Len(t) = Len(one) + Len(more)
        /\ \A m \in 1..Len(t) : t[m] = IF m <= Len(one) THEN one[m] ELSE more[m - Len(one)]
    BY <1>6, <1>7, ConcatIs
  <2>2. Len(t) \in Nat /\ Len(more) \in Nat
    BY <2>1
  <2>3. t # <<>>
    BY <1>6, <2>1, <2>2
  <2>4. \A m \in 1..Len(t) : m <= 1 <=> m = 1
    BY <2>2
  <2> QED BY <1>6, <2>1, <2>2, <2>3, <2>4
<1>9. \A m \in 1..Len(more) : f[more[m]] = 0 /\ more[m] \in Cluster
  <2>1. \A m \in 1..Len(more) : more[m] \in Cluster
    BY ElementOfSeq
  <2>2. \A y \in Cluster : y # a => f[y] = fat[y]
    BY <1>1, <1>2, <1>5 DEF FatWithNew, Layout
  <2> QED BY <1>1, <2>1, <2>2
<1>10. Rewired(f, new, a, t, Linked(f, one, more))
  BY <1>4, <1>5, <1>6, <1>7, <1>9, LinkRewires
<1>11. PICK z, d : z = Zeroed(e, more) /\ d = PutCells(z, t, 0, s)
  OBVIOUS
<1>12. z \in Cells /\ d \in Cells
  <2>1. z \in Cells
    BY <1>5, <1>11, ZeroedIs
  <2>2. 0 \in Nat
    OBVIOUS
  <2> QED BY <1>8, <1>11, <2>1, <2>2, PutCellsIs
\* The clusters written are no directories.
<1>13. ~ IsDirectory(e, a)
  <2>1. b \in BOOLEAN
    BY <1>1
  <2>2. e[c][i].first = a /\ e[c][i].dir = b
    BY <1>4, <2>1, EntryFields
  <2> QED BY <1>1, <1>4, <1>5, <2>2, SlotDirectory
<1>14. ASSUME NEW y \in Cluster, IsDirectory(e, y) PROVE d[y] = e[y]
  <2>1. \A m \in 1..Len(more) : more[m] # y
    BY <1>3, <1>9, <1>14, FreeIsNew
  <2>2. z[y] = e[y]
    BY <1>5, <1>11, <2>1, ZeroedIs
  <2>3. \A m \in 1..Len(t) : t[m] # y
    <3> TAKE m \in 1..Len(t)
    <3>1. CASE m = 1
      BY <1>8, <1>13, <1>14, <3>1
    <3>2. CASE m # 1
      <4>1. m - 1 \in 1..Len(more)
        BY <1>8, <3>2
      <4> QED BY <1>8, <2>1, <3>2, <4>1
    <3> QED BY <3>1, <3>2
  <2>4. 0 \in Nat
    OBVIOUS
  <2>5. d[y] = z[y]
    BY <1>8, <1>11, <1>12, <2>3, <2>4, PutCellsIs, ZenonT(60)
  <2> QED BY <2>2, <2>5
<1>15. Sound(f, d, leaked, fds, new)
  BY <1>3, <1>12, <1>14, SoundSame
<1>16. \A x \in Cluster, j \in Offset : /\ Slot(d, x, j) <=> Slot(e, x, j)
                                        /\ Slot(e, x, j) => d[x][j] = e[x][j]
  BY <1>5, <1>12, <1>14, SameTree DEF SameDirectories, Slot
<1>17. Slot(d, c, i) /\ d[c][i] = Entry(n, a, 0, b)
  BY <1>4, <1>16
<1>18. d[c][i].first = a /\ d[c][i].size = 0
  <2>1. b \in BOOLEAN
    BY <1>1
  <2> QED BY <1>17, <2>1, EntryFields
<1>19. PICK g, last : g = Linked(f, one, more) /\ last = [new EXCEPT ![a] = t]
  OBVIOUS
<1>20. Sound(g, d, leaked, fds, last)
  <2>1. d[c][i].size <= Capacity(Len(t))
    BY <1>8, <1>18, CapacityFacts
  <2>2. \A h \in Handle : fds[h].open /\ fds[h].dirCluster = c /\ fds[h].dirIndex = i
           => fds[h].size <= Capacity(Len(t))
    BY <1>4
  <2>3. t # <<>> /\ Slot(d, c, i) /\ a = d[c][i].first
    BY <1>8, <1>17, <1>18
  <2>4. Rewired(f, new, a, t, g)
    BY <1>10, <1>19
  <2>5. Sound(g, d, leaked, fds, [new EXCEPT ![a] = t])
    BY <1>15, <2>1, <2>2, <2>3, <2>4, SoundRewire
  <2> QED BY <1>19, <2>5
<1>21. last[a] = t /\ \A y \in Cluster : y # a => last[y] = ch[y]
  BY <1>2, <1>4, <1>5, <1>19
<1>22. ch[a] = <<>>
  <2>1. fat[a] = 0
    BY <1>1, NewClusterIs
  <2> QED BY <1>4, <1>5, <2>1, FreeIsAlone
<1>23. g = CopyFat(more) /\ d = CopyData(q, more, s) /\ last = CopyChains(ch, more)
  BY <1>1, <1>2, <1>7, <1>11, <1>19 DEF CopyFat, CopyData, CopyChains
<1>24. /\ \A x \in Cluster, j \in Offset : Slot(data, x, j) =>
            Slot(d, x, j) /\ d[x][j] = data[x][j] /\ ~ (x = c /\ j = i)
       /\ \A x \in Cluster, j \in Offset : Slot(d, x, j) => Slot(data, x, j) \/ (x = c /\ j = i)
  BY <1>4, <1>16
<1>25. Copied(q, d, last, ch, more)
  BY <1>1, <1>4, <1>7, <1>17, <1>21, <1>22, <1>24 DEF Copied
<1> QED BY <1>20, <1>23, <1>25

\* The entries after a rename: that of q is there, that of p is not.
Renamed(p, q, k, w) ==
  LET c == DirOf(q)
      i == Min(Vacant(DirOf(q)))
      Old(x, j) == x = DirOf(p) /\ j = SlotOf(p)
  IN  /\ ~ Old(c, i) /\ w[c][i] = Entry(Last(q), NewCluster, k, FALSE)
      /\ \A x \in Cluster, j \in Offset :
            /\ Slot(w, x, j) <=> (Slot(data, x, j) \/ (x = c /\ j = i)) /\ ~ Old(x, j)
            /\ Slot(data, x, j) /\ ~ Old(x, j) => w[x][j] = data[x][j] /\ ~ (x = c /\ j = i)

\* The copy is complete: the new file gets its size, the old one is removed.
LEMMA RenamedSound ==
  ASSUME NEW ch, Sound(fat, data, leaked, fds, ch), NEW p \in Path, NEW q \in Path, Exists(p),
         ~ EntryOf(p).dir, ~ InUse(p), MayCreate(q), Vacant(DirOf(q)) # {},
         NEW more \in Seq(Cluster), Once(more),
         \A i \in 1..Len(more) : fat[more[i]] = 0 /\ more[i] # NewCluster, NEW s \in Seq(Cell),
         Len(s) <= MaxSize, Len(s) <= Capacity(1 + Len(more))
  PROVE  LET old == Chain(fat, EntryOf(p).first)
             new == Entry(Last(q), NewCluster, Len(s), FALSE)
             e == PutCell(Forgotten(CopyData(q, more, s), old), DirOf(q), Min(Vacant(DirOf(q))), new)
         IN  \E last : /\ Sound(Released(CopyFat(more), old), DeletedEntry(e, p), leaked, fds, last)
                       /\ last[NewCluster] = <<NewCluster>> \o more
                       /\ Renamed(p, q, Len(s), DeletedEntry(e, p))
<1>1. PICK a, c, i, b, n, k : /\ a = NewCluster /\ c = DirOf(q) /\ i = Min(Vacant(DirOf(q)))
                              /\ b = FALSE /\ n = Last(q) /\ k = Len(s)
  OBVIOUS
<1>2. PICK pc, pi, pa : pc = DirOf(p) /\ pi = SlotOf(p) /\ pa = EntryOf(p).first
  OBVIOUS
<1>3. PICK g, d, new : g = CopyFat(more) /\ d = CopyData(q, more, s) /\ new = CopyChains(ch, more)
  OBVIOUS
<1>4. Sound(g, d, leaked, fds, new) /\ Copied(q, d, new, ch, more)
  BY <1>3, CopySound
<1>5. /\ Slot(d, c, i) /\ d[c][i] = Entry(n, a, 0, b) /\ a \in Cluster /\ new[a] = <<a>> \o more
      /\ ch[a] = <<>> /\ \A y \in Cluster : y # a => new[y] = ch[y]
      /\ \A h \in Handle : fds[h].open => ~ (fds[h].dirCluster = c /\ fds[h].dirIndex = i)
      /\ \A x \in Cluster, j \in Offset : Slot(data, x, j) =>
            Slot(d, x, j) /\ d[x][j] = data[x][j] /\ ~ (x = c /\ j = i)
      /\ \A x \in Cluster, j \in Offset : Slot(d, x, j) => Slot(data, x, j) \/ (x = c /\ j = i)
  BY <1>1, <1>4 DEF Copied
<1>6. SoundTree(data) /\ SoundTree(d) /\ d \in Cells
  BY <1>4 DEF Sound, SoundTree
<1>7. /\ Slot(data, pc, pi) /\ data[pc][pi].first = pa /\ ~ data[pc][pi].dir
      /\ pc \in Cluster /\ pi \in Offset
  BY <1>2, <1>6, PathSlot DEF Slot
<1>8. pa \in Cluster /\ Chain(fat, pa) = ch[pa] /\ ch[pa] # <<>> /\ ch[pa] \in Seq(Cluster)
  BY <1>2, PathChain
<1>9. Slot(d, pc, pi) /\ d[pc][pi] = data[pc][pi] /\ ~ (pc = c /\ pi = i)
  BY <1>5, <1>7
<1>10. new[pa] = ch[pa]
  BY <1>5, <1>8
<1>11. PICK e : e = Forgotten(d, ch[pa])
  OBVIOUS
<1>12. e \in Cells /\ \A y \in Cluster : IsDirectory(d, y) => e[y] = d[y]
  <2>1. e \in Cells
    BY <1>6, <1>8, <1>11, ZeroedIs
  <2>2. ASSUME NEW y \in Cluster, IsDirectory(d, y) PROVE e[y] = d[y]
    <3>1. ~ IsDirectory(d, pa)
      <4>1. d[pc][pi].first = pa /\ ~ d[pc][pi].dir
        BY <1>7, <1>9
      <4> QED BY <1>6, <1>9, <4>1, SlotDirectory
    <3>2. \A m \in 1..Len(ch[pa]) : ch[pa][m] # y
      BY <1>4, <1>8, <1>10, <2>2, <3>1, DirectoryChain DEF InChain
    <3> QED BY <1>6, <1>8, <1>11, <3>2, ZeroedIs
  <2> QED BY <2>1, <2>2
<1>13. Sound(g, e, leaked, fds, new)
  BY <1>4, <1>12, SoundSame
<1>14. \A x \in Cluster, j \in Offset : /\ Slot(e, x, j) <=> Slot(d, x, j)
                                        /\ Slot(d, x, j) => e[x][j] = d[x][j]
  BY <1>6, <1>12, SameTree DEF SameDirectories, Slot
<1>15. PICK x, v : x = Entry(n, a, k, b) /\ v = PutCell(e, c, i, x)
  OBVIOUS
<1>16. k \in 0..MaxSize
  BY <1>1, WriteAssumption
<1>17. /\ Slot(e, c, i) /\ x = Entry(e[c][i].name, e[c][i].first, k, e[c][i].dir)
       /\ e[c][i].first = a /\ c \in Cluster /\ i \in Offset
  <2>1. Slot(e, c, i) /\ e[c][i] = Entry(n, a, 0, b) /\ c \in Cluster /\ i \in Offset
    BY <1>5, <1>14 DEF Slot
  <2>2. b \in BOOLEAN
    BY <1>1
  <2>3. e[c][i].name = n /\ e[c][i].first = a /\ e[c][i].dir = b
    BY <2>1, <2>2, EntryFields
  <2> QED BY <1>15, <2>1, <2>3
<1>18. k <= Capacity(Len(new[a]))
  <2>1. PICK t, one : one = <<a>> /\ t = one \o more
    OBVIOUS
  <2>2. one \in Seq(Cluster) /\ Len(one) = 1
    BY <1>5, <2>1
  <2>3. Len(t) = 1 + Len(more)
    BY <2>1, <2>2, ConcatIs
  <2> QED BY <1>1, <1>5, <2>1, <2>3
<1>19. Sound(g, v, leaked, fds, new) /\ Resized(e, v, c, i, k)
  <2>1. \A h \in Handle : fds[h].open /\ fds[h].dirCluster = c /\ fds[h].dirIndex = i => k <= fds[h].size
    BY <1>5
  <2>2. k <= Capacity(Len(new[e[c][i].first]))
    BY <1>17, <1>18
  <2>3. Sound(g, v, leaked, fds, new)
    BY <1>13, <1>15, <1>16, <1>17, <2>1, <2>2, SoundResize
  <2>4. SoundTree(e)
    BY <1>13 DEF Sound
  <2>5. Resized(e, v, c, i, k)
    BY <1>15, <1>16, <1>17, <2>4, ResizeTree
  <2> QED BY <2>3, <2>5
<1>20. Slot(v, pc, pi) /\ v[pc][pi] = data[pc][pi]
  <2>1. Slot(e, pc, pi) /\ e[pc][pi] = data[pc][pi]
    BY <1>7, <1>9, <1>14
  <2>2. v[pc][pi] = e[pc][pi]
    BY <1>7, <1>9, <1>19 DEF Resized
  <2> QED BY <1>7, <1>19, <2>1, <2>2 DEF Resized
<1>21. Sound(Released(g, new[pa]), PutCell(v, pc, pi, Deleted), leaked, fds, [new EXCEPT ![pa] = <<>>])
  <2>1. pa = v[pc][pi].first /\ ~ v[pc][pi].dir
    BY <1>7, <1>20
  <2>2. \A h \in Handle : fds[h].open => ~ (fds[h].dirCluster = pc /\ fds[h].dirIndex = pi)
    BY <1>2 DEF InUse, Uses
  <2>3. v[pc][pi].dir => \A j \in Offset : ~ Slot(v, pa, j)
    BY <2>1
  <2> QED BY <1>19, <1>20, <2>1, <2>2, <2>3, SoundRemove
<1>22. PICK w : w = PutCell(v, pc, pi, Deleted)
  OBVIOUS
<1>23. DeletedEntry(v, p) = w
  BY <1>2, <1>22 DEF DeletedEntry
<1>24. Sound(Released(g, ch[pa]), DeletedEntry(v, p), leaked, fds, [new EXCEPT ![pa] = <<>>])
  BY <1>10, <1>21, <1>22, <1>23
<1>25. /\ Released(CopyFat(more), Chain(fat, EntryOf(p).first)) = Released(g, ch[pa])
       /\ v = PutCell(Forgotten(CopyData(q, more, s), Chain(fat, EntryOf(p).first)), DirOf(q),
                      Min(Vacant(DirOf(q))), Entry(Last(q), NewCluster, Len(s), FALSE))
  BY <1>1, <1>2, <1>3, <1>8, <1>11, <1>15
<1>26. [new EXCEPT ![pa] = <<>>][a] = <<a>> \o more
  BY <1>4, <1>5, <1>8 DEF Sound, Layout, Chains
<1>27. Removed(v, w, pc, pi)
  <2>1. SoundTree(v) /\ Slot(v, pc, pi) /\ ~ v[pc][pi].dir
    BY <1>7, <1>19, <1>20 DEF Sound
  <2> QED BY <1>22, <2>1, RemoveTree
<1>28. Renamed(p, q, k, w)
  <2>1. ASSUME NEW y \in Cluster, NEW j \in Offset
        PROVE  /\ Slot(w, y, j) <=> (Slot(data, y, j) \/ (y = c /\ j = i)) /\ ~ (y = pc /\ j = pi)
               /\ Slot(data, y, j) /\ ~ (y = pc /\ j = pi) => w[y][j] = data[y][j] /\ ~ (y = c /\ j = i)
    <3>1. Slot(d, y, j) <=> Slot(data, y, j) \/ (y = c /\ j = i)
      BY <1>5
    <3>2. Slot(w, y, j) <=> Slot(d, y, j) /\ ~ (y = pc /\ j = pi)
      BY <1>14, <1>19, <1>27 DEF Resized, Removed
    <3>3. ASSUME Slot(data, y, j), ~ (y = pc /\ j = pi) PROVE w[y][j] = data[y][j] /\ ~ (y = c /\ j = i)
      <4>1. d[y][j] = data[y][j] /\ Slot(d, y, j) /\ ~ (y = c /\ j = i)
        BY <1>5, <3>3
      <4>2. e[y][j] = d[y][j]
        BY <1>14, <4>1
      <4>3. v[y][j] = e[y][j]
        BY <1>19, <4>1 DEF Resized
      <4>4. w[y][j] = v[y][j]
        BY <1>27, <3>3 DEF Removed
      <4> QED BY <4>1, <4>2, <4>3, <4>4
    <3> QED BY <3>1, <3>2, <3>3
  <2>2. w[c][i] = x
    <3>1. w[c][i] = v[c][i]
      BY <1>9, <1>17, <1>27 DEF Removed
    <3>2. v[c][i] = x
      <4>1. e \in Cells
        BY <1>12
      <4> QED BY <1>15, <1>17, <4>1 DEF PutCell, Cells
    <3> QED BY <3>1, <3>2
  <2>3. x = Entry(Last(q), NewCluster, k, FALSE)
    BY <1>1, <1>15
  <2> QED BY <1>1, <1>2, <1>9, <2>1, <2>2, <2>3 DEF Renamed
<1>29. DeletedEntry(v, p) = w /\ a = NewCluster /\ k = Len(s)
  BY <1>1, <1>23
<1>30. PICK last : last = [new EXCEPT ![pa] = <<>>]
  OBVIOUS
<1>31. /\ Sound(Released(g, ch[pa]), DeletedEntry(v, p), leaked, fds, last)
       /\ last[NewCluster] = <<NewCluster>> \o more
       /\ Renamed(p, q, Len(s), DeletedEntry(v, p))
  BY <1>24, <1>26, <1>28, <1>29, <1>30
<1> QED BY <1>25, <1>31

\* The disk is full: the new file is removed again.
LEMMA RefusedSound ==
  ASSUME NEW ch, Sound(fat, data, leaked, fds, ch), NEW q \in Path, MayCreate(q),
         Vacant(DirOf(q)) # {}, NEW more \in Seq(Cluster), Once(more),
         \A i \in 1..Len(more) : fat[more[i]] = 0 /\ more[i] # NewCluster, NEW s \in Seq(Cell)
  PROVE  LET chain == <<NewCluster>> \o more
             e == PutCell(Forgotten(CopyData(q, more, s), chain), DirOf(q), Min(Vacant(DirOf(q))),
                          Deleted)
         IN  /\ \E last : Sound(Released(CopyFat(more), chain), e, leaked, fds, last)
             /\ \A x \in Cluster, j \in Offset : /\ Slot(e, x, j) <=> Slot(data, x, j)
                                                 /\ Slot(data, x, j) => e[x][j] = data[x][j]
<1>1. PICK a, c, i, b, n, t : /\ a = NewCluster /\ c = DirOf(q) /\ i = Min(Vacant(DirOf(q)))
                              /\ b = FALSE /\ n = Last(q) /\ t = <<NewCluster>> \o more
  OBVIOUS
<1>2. PICK g, d, new : g = CopyFat(more) /\ d = CopyData(q, more, s) /\ new = CopyChains(ch, more)
  OBVIOUS
<1>3. Sound(g, d, leaked, fds, new) /\ Copied(q, d, new, ch, more)
  BY <1>2, CopySound
<1>4. /\ Slot(d, c, i) /\ d[c][i] = Entry(n, a, 0, b) /\ a \in Cluster /\ new[a] = t
      /\ \A h \in Handle : fds[h].open => ~ (fds[h].dirCluster = c /\ fds[h].dirIndex = i)
      /\ \A x \in Cluster, j \in Offset : Slot(data, x, j) =>
            Slot(d, x, j) /\ d[x][j] = data[x][j] /\ ~ (x = c /\ j = i)
      /\ \A x \in Cluster, j \in Offset : Slot(d, x, j) => Slot(data, x, j) \/ (x = c /\ j = i)
  BY <1>1, <1>3 DEF Copied
<1>5. SoundTree(d) /\ d \in Cells /\ new \in [Cluster -> Seq(Cluster)]
  BY <1>3 DEF Sound, SoundTree, Layout, Chains
<1>6. d[c][i].first = a /\ ~ d[c][i].dir /\ t \in Seq(Cluster)
  <2>1. b \in BOOLEAN
    BY <1>1
  <2>2. d[c][i].first = a /\ d[c][i].dir = b
    BY <1>4, <2>1, EntryFields
  <2> QED BY <1>1, <1>4, <1>5, <2>2
<1>7. PICK e : e = Forgotten(d, t)
  OBVIOUS
<1>8. e \in Cells /\ \A y \in Cluster : IsDirectory(d, y) => e[y] = d[y]
  <2>1. e \in Cells
    BY <1>5, <1>6, <1>7, ZeroedIs
  <2>2. ASSUME NEW y \in Cluster, IsDirectory(d, y) PROVE e[y] = d[y]
    <3>1. ~ IsDirectory(d, a)
      BY <1>4, <1>5, <1>6, SlotDirectory
    <3>2. \A m \in 1..Len(t) : t[m] # y
      BY <1>3, <1>4, <2>2, <3>1, DirectoryChain DEF InChain
    <3> QED BY <1>5, <1>6, <1>7, <3>2, ZeroedIs
  <2> QED BY <2>1, <2>2
<1>9. Sound(g, e, leaked, fds, new)
  BY <1>3, <1>8, SoundSame
<1>10. /\ Slot(e, c, i) /\ e[c][i] = d[c][i] /\ c \in Cluster /\ i \in Offset
       /\ \A x \in Cluster, j \in Offset : /\ Slot(e, x, j) <=> Slot(d, x, j)
                                           /\ Slot(d, x, j) => e[x][j] = d[x][j]
  <2>1. \A x \in Cluster, j \in Offset : /\ Slot(e, x, j) <=> Slot(d, x, j)
                                         /\ Slot(d, x, j) => e[x][j] = d[x][j]
    BY <1>5, <1>8, SameTree DEF SameDirectories, Slot
  <2>2. c \in Cluster /\ i \in Offset
    BY <1>4 DEF Slot
  <2> QED BY <1>4, <2>1, <2>2
<1>11. Sound(Released(g, new[a]), PutCell(e, c, i, Deleted), leaked, fds, [new EXCEPT ![a] = <<>>])
  <2>1. a = e[c][i].first /\ ~ e[c][i].dir
    BY <1>6, <1>10
  <2>2. e[c][i].dir => \A j \in Offset : ~ Slot(e, a, j)
    BY <2>1
  <2> QED BY <1>4, <1>9, <1>10, <2>1, <2>2, SoundRemove
<1>12. PICK last : last = [new EXCEPT ![a] = <<>>]
  OBVIOUS
<1>13. PICK w : w = PutCell(e, c, i, Deleted)
  OBVIOUS
<1>14. Sound(Released(g, t), w, leaked, fds, last)
  BY <1>4, <1>11, <1>12, <1>13
<1>15. Removed(e, w, c, i)
  <2>1. SoundTree(e) /\ ~ e[c][i].dir
    BY <1>6, <1>9, <1>10 DEF Sound
  <2> QED BY <1>10, <1>13, <2>1, RemoveTree
<1>16. ASSUME NEW x \in Cluster, NEW j \in Offset
       PROVE  (Slot(w, x, j) <=> Slot(data, x, j)) /\ (Slot(data, x, j) => w[x][j] = data[x][j])
  <2>1. Slot(w, x, j) <=> Slot(d, x, j) /\ ~ (x = c /\ j = i)
    BY <1>10, <1>15 DEF Removed
  <2>2. Slot(data, x, j) => w[x][j] = data[x][j]
    BY <1>4, <1>10, <1>15 DEF Removed
  <2> QED BY <1>4, <2>1, <2>2
<1>17. w = PutCell(Forgotten(CopyData(q, more, s), <<NewCluster>> \o more), DirOf(q),
                   Min(Vacant(DirOf(q))), Deleted)
  BY <1>1, <1>2, <1>7, <1>13
<1>18. Released(g, t) = Released(CopyFat(more), <<NewCluster>> \o more)
  BY <1>1, <1>2
<1> QED BY <1>14, <1>16, <1>17, <1>18

\* The clusters and cells that a rename copies to: all of the file p, or as much as fits.
Renames(p, q, more, s) ==
  LET old == Chain(fat, EntryOf(p).first)
      new == <<NewCluster>> \o more
      c == DirOf(q)
      i == Min(Vacant(DirOf(q)))
  IN  /\ Exists(p) /\ ~ EntryOf(p).dir /\ ~ InUse(p) /\ MayCreate(q) /\ Vacant(DirOf(q)) # {}
      /\ leaked' = leaked /\ fds' = fds /\ torn' = NoPath
      /\ more \in Seq(Cluster) /\ Once(more) /\ s \in Seq(Cell)
      /\ \A m \in 1..Len(more) : fat[more[m]] = 0 /\ more[m] # NewCluster
      /\ \/ /\ s = FileCells(p) /\ Len(s) <= MaxSize /\ Len(s) <= Capacity(1 + Len(more))
            /\ fat' = Released(CopyFat(more), old)
            /\ data' = DeletedEntry(PutCell(Forgotten(CopyData(q, more, s), old), c, i,
                                            Entry(Last(q), NewCluster, Len(s), FALSE)), p)
         \/ /\ fat' = Released(CopyFat(more), new)
            /\ data' = PutCell(Forgotten(CopyData(q, more, s), new), c, i, Deleted)

LEMMA RenameIs ==
  ASSUME NEW ch, Sound(fat, data, leaked, fds, ch), torn = NoPath, NEW p \in Path, NEW q \in Path,
         FileRename(p, q)
  PROVE  \E more, s : Renames(p, q, more, s)
<1>1. PICK cells, all, free, need : /\ cells = FileCells(p) /\ all = FreeInOrder(fat) /\ free = Tail(all)
                                    /\ need = IF cells = <<>> THEN 0 ELSE ClustersFor(Len(cells)) - 1
  OBVIOUS
<1>2. PICK enough, more, chain : /\ enough = (need <= Len(free))
                                 /\ more = IF enough THEN SubSeq(free, 1, need) ELSE free
                                 /\ chain = <<NewCluster>> \o more
  OBVIOUS
<1>3. PICK fits : fits = IF enough THEN cells ELSE SubSeq(cells, 1, Capacity(Len(chain)))
  OBVIOUS
<1>4. /\ Exists(p) /\ ~ EntryOf(p).dir /\ ~ InUse(p) /\ MayCreate(q) /\ Vacant(DirOf(q)) # {}
      /\ leaked' = leaked /\ fds' = fds /\ torn' = NoPath
  BY DEF FileRename, IsFile
<1>5. SoundTree(data) /\ data \in Cells /\ fat \in [Cluster -> FatEntry]
  BY DEF Sound, SoundTree, Layout
\* The clusters that are free
<1>6. /\ all \in Seq(Cluster) /\ Once(all) /\ all # <<>> /\ Len(all) \in Nat /\ Len(all) > 0
      /\ \A m \in 1..Len(all) : fat[all[m]] = 0
      /\ NewCluster = all[1] /\ NewCluster \in Cluster
  <2>1. all \in Seq(Cluster) /\ Once(all) /\ \A m \in 1..Len(all) : fat[all[m]] = 0
    BY <1>1, FreeClusters
  <2>2. all # <<>> /\ NewCluster = Head(all)
    BY <1>1, <1>4 DEF MayCreate, NewCluster
  <2>3. NewCluster \in Cluster
    BY <1>4, NewClusterIs
  <2>4. Len(all) \in Nat /\ Len(all) > 0 /\ Head(all) = all[1]
    BY <2>1, <2>2
  <2> QED BY <2>1, <2>2, <2>3, <2>4
<1>7. /\ free \in Seq(Cluster) /\ Len(free) = Len(all) - 1 /\ Len(free) \in Nat
      /\ \A m \in 1..Len(free) : free[m] = all[m + 1] /\ m + 1 \in 1..Len(all)
  BY <1>1, <1>6
<1>8. Once(free) /\ \A m \in 1..Len(free) : fat[free[m]] = 0 /\ free[m] # NewCluster
  <2>1. \A m \in 1..Len(free) : fat[free[m]] = 0 /\ m + 1 # 1
    BY <1>6, <1>7
  <2>2. 1 \in 1..Len(all)
    BY <1>6
  <2>3. \A m \in 1..Len(free) : all[m + 1] # all[1]
    BY <1>6, <1>7, <2>1, <2>2 DEF Once
  <2>4. Once(free)
    <3> SUFFICES ASSUME NEW m \in 1..Len(free), NEW j \in 1..Len(free), free[m] = free[j]
                 PROVE  m = j
      BY DEF Once
    <3>1. m + 1 = j + 1
      BY <1>6, <1>7 DEF Once
    <3> QED BY <1>7, <3>1
  <2> QED BY <1>6, <1>7, <2>1, <2>3, <2>4
\* What is copied
<1>9. cells \in Seq(Cell) /\ Len(cells) \in Nat /\ Len(cells) <= MaxSize
  <2>1. EntryOf(p).first \in Cluster /\ EntryOf(p).size \in 0..MaxSize
    BY <1>4, <1>5, PathSlot
  <2> QED BY <1>1, <1>5, <2>1, FileCellsTyped
<1>10. /\ need \in Nat /\ Len(cells) <= Capacity(1 + need)
       /\ \A m \in Nat : m <= need /\ need > 0 => Capacity(m) <= Len(cells)
  <2>1. CASE cells = <<>>
    <3>1. need = 0 /\ Len(cells) = 0
      BY <1>1, <2>1
    <3>2. Capacity(1 + need) \in Nat
      BY <3>1, CapacityFacts
    <3> QED BY <3>1, <3>2
  <2>2. CASE cells # <<>>
    <3>1. PICK k \in Nat : k = Len(cells)
      BY <1>9
    <3>2. k > 0
      BY <1>9, <2>2, <3>1
    <3>3. PICK r : r = ClustersFor(k)
      OBVIOUS
    <3>4. r \in Nat /\ r > 0 /\ k <= Capacity(r) /\ Capacity(r - 1) <= k
      BY <3>1, <3>2, <3>3, ClustersForFacts
    <3>5. need = r - 1 /\ need \in Nat /\ 1 + need = r
      BY <1>1, <2>2, <3>1, <3>3, <3>4
    <3>6. \A m \in Nat : m <= need => Capacity(m) <= Capacity(need) /\ Capacity(m) \in Nat /\ Capacity(need) \in Nat
      BY <3>5, CapacityFacts
    <3> QED BY <3>1, <3>4, <3>5, <3>6
  <2> QED BY <2>1, <2>2
<1>11. /\ more \in Seq(Cluster) /\ Len(more) = (IF enough THEN need ELSE Len(free))
       /\ \A m \in 1..Len(more) : more[m] = free[m] /\ m \in 1..Len(free)
  <2>1. CASE enough
    <3>1. need <= Len(free) /\ more = SubSeq(free, 1, need)
      BY <1>2, <2>1
    <3> QED BY <1>7, <1>10, <2>1, <3>1
  <2>2. CASE ~ enough
    BY <1>2, <1>7, <2>2
  <2> QED BY <2>1, <2>2
<1>12. Once(more) /\ \A m \in 1..Len(more) : fat[more[m]] = 0 /\ more[m] # NewCluster
  BY <1>8, <1>11 DEF Once
<1>13. Tail(chain) = more /\ Len(chain) = 1 + Len(more) /\ Len(more) \in Nat
  <2>1. PICK one : one = <<NewCluster>>
    OBVIOUS
  <2>2. one \in Seq(Cluster) /\ Len(one) = 1
    BY <1>6, <2>1
  <2>3. /\ chain \in Seq(Cluster) /\ Len(chain) = Len(one) + Len(more)
        /\ \A m \in 1..Len(chain) : chain[m] = IF m <= Len(one) THEN one[m] ELSE more[m - Len(one)]
    BY <1>2, <1>11, <2>1, <2>2, ConcatIs
  <2>4. Len(more) \in Nat /\ Len(chain) = 1 + Len(more) /\ chain # <<>>
    BY <1>11, <2>2, <2>3
  <2>5. /\ Tail(chain) \in Seq(Cluster) /\ Len(Tail(chain)) = Len(more)
        /\ \A m \in 1..Len(more) : Tail(chain)[m] = chain[m + 1] /\ m + 1 \in 1..Len(chain)
    BY <2>3, <2>4
  <2>6. \A m \in 1..Len(more) : Tail(chain)[m] = more[m]
    <3> TAKE m \in 1..Len(more)
    <3>1. PICK j : j = m + 1
      OBVIOUS
    <3>2. j \in 1..Len(chain) /\ ~ (j <= Len(one)) /\ j - Len(one) = m
      BY <2>2, <2>4, <3>1
    <3>3. chain[j] = more[m]
      BY <2>3, <3>2
    <3> QED BY <2>5, <3>1, <3>3
  <2>7. Tail(chain) = more
    BY <1>11, <2>5, <2>6
  <2> QED BY <2>4, <2>7
<1>14. fits \in Seq(Cell)
  <2>1. CASE enough
    BY <1>3, <1>9, <2>1
  <2>2. CASE ~ enough
    <3>1. PICK k : k = Capacity(Len(chain))
      OBVIOUS
    <3>2. need > Len(free) /\ Len(chain) = 1 + Len(free)
      <4>1. ~ (need <= Len(free))
        BY <1>2, <2>2
      <4>2. Len(chain) = 1 + Len(free)
        BY <1>11, <1>13, <2>2
      <4> QED BY <1>7, <1>10, <4>1, <4>2
    <3>3. Len(chain) \in Nat /\ Len(chain) <= need /\ need > 0
      BY <1>7, <1>10, <3>2
    <3>4. k <= Len(cells) /\ k \in Nat
      BY <1>10, <3>1, <3>3, CapacityFacts
    <3>5. fits = SubSeq(cells, 1, k)
      BY <1>3, <2>2, <3>1
    <3> QED BY <1>9, <3>4, <3>5
  <2> QED BY <2>1, <2>2
<1>15. PICK old : old = Chain(fat, EntryOf(p).first)
  OBVIOUS
<1>16. CASE enough
  <2>1. fits = cells /\ Len(cells) <= Capacity(1 + Len(more))
    BY <1>3, <1>10, <1>11, <1>16
  <2>2. PICK e : e = PutCell(Forgotten(CopyData(q, more, cells), old), DirOf(q), Min(Vacant(DirOf(q))),
                             Entry(Last(q), NewCluster, Len(cells), FALSE))
    OBVIOUS
  <2>3. fat' = Released(CopyFat(more), old) /\ data' = DeletedEntry(e, p)
    BY <1>1, <1>2, <1>3, <1>13, <1>15, <1>16, <2>1, <2>2 DEF FileRename, CopyFat, CopyData
  <2>4. Renames(p, q, more, cells)
    BY <1>1, <1>4, <1>9, <1>11, <1>12, <1>15, <2>1, <2>2, <2>3 DEF Renames
  <2> QED BY <2>4
<1>17. CASE ~ enough
  <2>1. PICK e : e = PutCell(Forgotten(CopyData(q, more, fits), chain), DirOf(q),
                             Min(Vacant(DirOf(q))), Deleted)
    OBVIOUS
  <2>2. fat' = Released(CopyFat(more), chain) /\ data' = e
    BY <1>1, <1>2, <1>3, <1>13, <1>17, <2>1 DEF FileRename, CopyFat, CopyData
  <2>3. Renames(p, q, more, fits)
    BY <1>2, <1>4, <1>11, <1>12, <1>14, <2>1, <2>2 DEF Renames
  <2> QED BY <2>3
<1> QED BY <1>16, <1>17

\* A rename, a copy and a removal of the old file, keeps the invariant.
LEMMA FileRenameKept ==
  ASSUME NEW ch, Sound(fat, data, leaked, fds, ch), torn = NoPath, NEW p \in Path, NEW q \in Path,
         FileRename(p, q)
  PROVE  VInv'
<1>1. PICK more, s : Renames(p, q, more, s)
  BY RenameIs
<1>2. /\ Exists(p) /\ ~ EntryOf(p).dir /\ ~ InUse(p) /\ MayCreate(q) /\ Vacant(DirOf(q)) # {}
      /\ leaked' = leaked /\ fds' = fds /\ torn' = NoPath
      /\ more \in Seq(Cluster) /\ Once(more) /\ s \in Seq(Cell)
      /\ \A m \in 1..Len(more) : fat[more[m]] = 0 /\ more[m] # NewCluster
  BY <1>1 DEF Renames
<1>3. \E last : Sound(fat', data', leaked, fds, last)
  <2>1. PICK old, new, c, i : /\ old = Chain(fat, EntryOf(p).first) /\ new = <<NewCluster>> \o more
                              /\ c = DirOf(q) /\ i = Min(Vacant(DirOf(q)))
    OBVIOUS
  <2>2. CASE /\ s = FileCells(p) /\ Len(s) <= MaxSize /\ Len(s) <= Capacity(1 + Len(more))
             /\ fat' = Released(CopyFat(more), old)
             /\ data' = DeletedEntry(PutCell(Forgotten(CopyData(q, more, s), old), c, i,
                                             Entry(Last(q), NewCluster, Len(s), FALSE)), p)
    BY <1>2, <2>1, <2>2, RenamedSound
  <2>3. CASE /\ fat' = Released(CopyFat(more), new)
             /\ data' = PutCell(Forgotten(CopyData(q, more, s), new), c, i, Deleted)
    BY <1>2, <2>1, <2>3, RefusedSound
  <2> QED BY <1>1, <2>1, <2>2, <2>3 DEF Renames
<1> QED BY <1>2, <1>3, StillKept

(***************************************************************************)
(* The invariant                                                           *)
(***************************************************************************)
LEMMA InitIInv ==
  Init => IInv
<1> SUFFICES ASSUME Init PROVE IInv
  OBVIOUS
<1>1. PICK ch : ch = [a \in Cluster |-> IF a = Root THEN <<Root>> ELSE <<>>]
  OBVIOUS
<1>2. PICK one : one = <<Root>>
  OBVIOUS
<1>3. one \in Seq(Cluster) /\ Len(one) = 1 /\ one[1] = Root /\ one # <<>>
  BY <1>2, ClusterFacts
<1>4. /\ ch \in [Cluster -> Seq(Cluster)] /\ ch[Root] = one
      /\ \A a \in Cluster : a # Root => ch[a] = <<>> /\ Len(ch[a]) = 0
  BY <1>1, <1>2, <1>3, ClusterFacts
<1>5. /\ fat \in [Cluster -> FatEntry] /\ fat[Root] = Eoc
      /\ \A c \in Cluster : c # Root => fat[c] = 0
  BY ClusterFacts DEF Init, FatEntry
<1>6. /\ data \in Cells /\ \A i \in Offset : data[Root][i].kind = "zero"
  <2>1. ZeroCluster \in [Offset -> Cell] /\ StaleCluster \in [Offset -> Cell]
    BY CellMembers DEF ZeroCluster, StaleCluster
  <2>2. data \in Cells
    BY <2>1 DEF Init, Cells
  <2>3. data[Root] = ZeroCluster
    BY ClusterFacts DEF Init
  <2>4. \A i \in Offset : data[Root][i] = Zero
    BY <2>3 DEF ZeroCluster
  <2> QED BY <2>2, <2>4, CellMembers
<1>7. (\A h \in Handle : ~ fds[h].open) /\ fds \in [Handle -> {Closed} \cup File] /\ leaked = {} /\ torn = NoPath
  BY DEF Init, Closed
<1>8. Layout(fat, ch)
  <2>1. IsChain(fat, Root, one)
    <3>1. Once(one) /\ \A i \in 1..(Len(one) - 1) : fat[one[i]] = one[i + 1]
      BY <1>3 DEF Once
    <3> QED BY <1>3, <1>5, <3>1 DEF IsChain
  <2>2. Follow(fat, ch)
    BY <1>4, <2>1 DEF Follow
  <2>3. Apart(ch)
    BY <1>4 DEF Apart
  <2>4. Covered(fat, ch)
    BY <1>3, <1>4, <1>5, ClusterFacts DEF Covered, InChain
  <2> QED BY <1>4, <1>5, <2>2, <2>3, <2>4 DEF Layout, Chains
<1>9. \A c \in Cluster : IsDirectory(data, c) <=> c = Root
  BY <1>6 DEF IsDirectory
<1>10. \A c, i : ~ Slot(data, c, i)
  BY <1>6, <1>9 DEF Slot
<1>11. SoundTree(data)
  <2>1. Holds(data) /\ ZerosLast(data)
    BY <1>6, <1>9 DEF Holds, ZerosLast
  <2>2. NamedOnce(data) /\ Flat(data) /\ FirstOnce(data) /\ BelowRoot(data) /\ Paths(data)
    BY <1>10 DEF NamedOnce, Flat, FirstOnce, BelowRoot, Paths
  <2> QED BY <1>6, <2>1, <2>2 DEF SoundTree
<1>12. Filled(ch, data, leaked)
  <2>1. Owned(ch, data, leaked)
    BY <1>3, <1>4, <1>7, <1>10 DEF Owned, FirstOf
  <2>2. Single(ch, leaked)
    BY <1>3, <1>4, <1>7 DEF Single
  <2>3. Unshared(data, leaked) /\ Sized(ch, data)
    BY <1>7, <1>10 DEF Unshared, Sized
  <2> QED BY <2>1, <2>2, <2>3 DEF Filled
<1>13. Hands(fds, ch, data)
  BY <1>7 DEF Hands, Agree
<1>14. Sound(fat, data, leaked, fds, ch)
  BY <1>8, <1>11, <1>12, <1>13 DEF Sound
<1>15. Typed(fat, data, leaked, fds)
  BY <1>14, SoundTyped
<1>16. unsaved = NoPath
  BY DEF Init
<1> QED BY <1>7, <1>14, <1>15, <1>16 DEF IInv, VInv, Kept

\* Every step keeps what the invariant says of the volume.
LEMMA StepVInv ==
  VInv /\ [Next]_vars => VInv'
<1> SUFFICES ASSUME VInv, [Next]_vars PROVE VInv'
  OBVIOUS
<1>1. CASE UNCHANGED vars
  <2>1. Typed(fat', data', leaked', fds') /\ torn' \in Path \cup {NoPath}
    BY <1>1 DEF VInv, vars
  <2>2. ASSUME Intact' PROVE Kept'
    <3>1. torn = NoPath /\ fat' = fat /\ data' = data /\ leaked' = leaked /\ fds' = fds
      BY <1>1, <2>2 DEF Intact, vars
    <3>2. PICK ch : Sound(fat, data, leaked, fds, ch)
      BY <3>1 DEF VInv, Intact, Kept
    <3>3. Sound(fat', data', leaked', fds', ch)
      BY <3>1, <3>2
    <3> QED BY <3>3 DEF Kept
  <2> QED BY <2>1, <2>2 DEF VInv
<1>2. CASE Next
  <2>1. torn = NoPath
    BY <1>2 DEF Next
  <2>2. PICK ch : Sound(fat, data, leaked, fds, ch)
    BY <2>1 DEF VInv, Intact, Kept
  <2>3. ASSUME NEW p \in Path, DirCreate(p) PROVE VInv'
    BY <2>1, <2>2, <2>3, DirCreateKept
  <2>4. ASSUME NEW p \in Path, DirDelete(p) PROVE VInv'
    BY <2>1, <2>2, <2>4, DirDeleteKept
  <2>5. ASSUME NEW p \in Path, FileDelete(p) PROVE VInv'
    BY <2>1, <2>2, <2>5, FileDeleteKept
  <2>6. ASSUME NEW p \in Path, NEW q \in Path, FileRename(p, q) PROVE VInv'
    BY <2>1, <2>2, <2>6, FileRenameKept
  <2>7. ASSUME NEW p \in Path, NEW q \in Path, RenameFails(p, q) PROVE VInv'
    BY <2>1, <2>2, <2>7, CreateFailsKept, CreateUnsavedKept DEF RenameFails
  <2>8. ASSUME NEW h \in Handle, NEW p \in Path, NEW flags \in Flags, Popen(h, p, flags) PROVE VInv'
    BY <2>1, <2>2, <2>8, PopenKept
  <2>9. ASSUME NEW h \in Handle, MovePosition(h) PROVE VInv'
    BY <2>1, <2>2, <2>9, MovePositionKept
  <2>10. ASSUME NEW h \in Handle, Pclose(h) PROVE VInv'
    BY <2>1, <2>2, <2>10, PcloseKept
  <2>11. ASSUME NEW h \in Handle, NEW v \in Value, NEW n \in 1..MaxWrite,
                Pwrite(h, [i \in 1..n |-> Unit(v)])
         PROVE  VInv'
    BY <2>1, <2>2, <2>11, PwriteKept
  <2>12. ASSUME NEW p \in Path, GoesFromView(p) PROVE VInv'
    <3>1. Typed(fat, data, leaked, fds)
      BY <2>2, SoundTyped
    <3>2. fat' = fat /\ data' = data /\ leaked' = leaked /\ fds' = fds /\ torn' = p
      BY <2>12 DEF GoesFromView
    <3> QED BY <3>1, <3>2, Interrupted
  <2> QED BY <1>2, <2>3, <2>4, <2>5, <2>6, <2>7, <2>8, <2>9, <2>10, <2>11, <2>12 DEF Next
<1> QED BY <1>1, <1>2

\* What is only in the cache is the entry of a path.
LEMMA UnsavedTyped ==
  ASSUME unsaved \in Path \cup {NoPath}, Next
  PROVE  unsaved' \in Path \cup {NoPath}
<1> DEFINE Ok == unsaved' \in Path \cup {NoPath}
<1>1. \A D : Saved(D) => Ok
  BY DEF Saved
<1>2. \A p \in Path : NotSaved(p) => Ok
  BY DEF NotSaved
<1>3. unsaved' = unsaved => Ok
  OBVIOUS
<1> HIDE DEF Ok
<1>4. ASSUME NEW p \in Path PROVE /\ CreateFails(p) => Ok
                                  /\ \A b : CreateUnsaved(p, b) => Ok
                                  /\ \A b : CreateSucceeds(p, b) => Ok
  BY <1>1, <1>2, <1>3 DEF CreateFails, CreateUnsaved, CreateSucceeds
<1>5. ASSUME NEW p \in Path, DirCreate(p) PROVE Ok
  BY <1>4, <1>5 DEF DirCreate
<1>6. ASSUME NEW p \in Path, Removal(p) PROVE Ok
  BY <1>1, <1>3, <1>6 DEF Removal, RemovalInterrupted
<1>7. ASSUME NEW p \in Path, DirDelete(p) \/ FileDelete(p) PROVE Ok
  BY <1>6, <1>7 DEF DirDelete, FileDelete
<1>8. ASSUME NEW p \in Path, GoesFromView(p) PROVE Ok
  BY <1>3, <1>8 DEF GoesFromView
<1>9. ASSUME NEW p \in Path, NEW q \in Path, FileRename(p, q) PROVE Ok
  <2>1. \E D : Saved(D)
    BY <1>9 DEF FileRename
  <2> QED BY <1>1, <2>1
<1>10. ASSUME NEW p \in Path, NEW q \in Path, RenameFails(p, q) PROVE Ok
  BY <1>4, <1>10 DEF RenameFails
<1>11. ASSUME NEW h \in Handle, NEW p \in Path, NEW flags \in Flags, Popen(h, p, flags) PROVE Ok
  <2>1. OpenExisting(h, p, flags) \/ TruncationInterrupted(p) => unsaved' = unsaved
    BY DEF OpenExisting, TruncationInterrupted
  <2>2. OpenTruncated(h, p, flags) => Saved({DirOf(p)})
    BY DEF OpenTruncated
  <2>3. OpenCreated(h, p, flags) => CreateSucceeds(p, FALSE)
    BY DEF OpenCreated
  <2> QED BY <1>1, <1>3, <1>4, <1>11, <2>1, <2>2, <2>3 DEF Popen
<1>12. ASSUME NEW h \in Handle, SavedOrNot(h) PROVE Ok
  BY <1>1, <1>2, <1>12 DEF SavedOrNot
<1>13. ASSUME NEW h \in Handle, MovePosition(h) \/ Pclose(h) PROVE Ok
  BY <1>3, <1>12, <1>13 DEF MovePosition, Pclose
<1>14. ASSUME NEW h \in Handle, NEW new, Pwrite(h, new) PROVE Ok
  <2>1. WriteSucceeds(h, new) => SavedOrNot(h) \/ unsaved' = unsaved
    BY DEF WriteSucceeds
  <2>2. WriteFails(h, new) \/ WriteUnrecorded(h, new) => unsaved' = unsaved
    BY DEF WriteFails, WriteUnrecorded
  <2> QED BY <1>3, <1>12, <1>14, <2>1, <2>2 DEF Pwrite
<1>15. Ok
  BY <1>5, <1>7, <1>8, <1>9, <1>10, <1>11, <1>13, <1>14 DEF Next
<1> QED BY <1>15 DEF Ok

\* Every step keeps the invariant.
LEMMA StepIInv ==
  IInv /\ [Next]_vars => IInv'
<1> SUFFICES ASSUME IInv, [Next]_vars PROVE IInv'
  OBVIOUS
<1>1. VInv'
  BY StepVInv DEF IInv
<1>2. unsaved' \in Path \cup {NoPath}
  BY UnsavedTyped DEF IInv, vars
<1> QED BY <1>1, <1>2 DEF IInv

\* The invariant has the types.
LEMMA IsTyped ==
  IInv => TypeOK
BY DEF IInv, VInv, Typed, TypeOK, FatEntry, Cells

(***************************************************************************)
(* In every reachable state the variables have their types and, as long as *)
(* no removal or truncation was interrupted by a card error and no entry   *)
(* that is only in the cache has gone from view, the chains of             *)
(* the allocation table are laid out without a shared cluster, every       *)
(* directory entry owns one of them, every owned chain covers the size of  *)
(* its entry, and every open handle is on the entry of its file, with a    *)
(* size that the chain covers and all handles of the file share.           *)
(***************************************************************************)
THEOREM Invariance ==
  Spec => []IInv
<1>1. Init => IInv
  BY InitIInv
<1>2. IInv /\ [Next]_vars => IInv'
  BY StepIInv
<1> QED BY <1>1, <1>2, PTL DEF Spec

\* The clusters that hold something are those of the chains.
LEMMA UsedClusters ==
  ASSUME NEW ch, Sound(fat, data, leaked, fds, ch), NEW c \in Cluster, fat[c] # 0
  PROVE  \E a \in Cluster : \E i \in 1..Len(ch[a]) :
            /\ ch[a][i] = c /\ ch[a] # <<>> /\ Len(ch[a]) \in Nat
            /\ fat[c] \in Cluster => i + 1 \in 1..Len(ch[a]) /\ fat[c] = ch[a][i + 1]
<1>1. Layout(fat, ch)
  BY DEF Sound
<1>2. PICK a \in Cluster : \E i \in 1..Len(ch[a]) : ch[a][i] = c
  BY <1>1 DEF Layout, Covered, InChain
<1>3. PICK i \in 1..Len(ch[a]) : ch[a][i] = c
  BY <1>2
<1>4. ch[a] \in Seq(Cluster) /\ Len(ch[a]) \in Nat
  BY <1>1, ChainFacts
<1>5. ch[a] # <<>>
  BY <1>3, <1>4
<1>6. IsChain(fat, a, ch[a])
  BY <1>1, <1>5, ChainFacts
<1>7. ASSUME fat[c] \in Cluster PROVE i + 1 \in 1..Len(ch[a]) /\ fat[c] = ch[a][i + 1]
  <2>1. i # Len(ch[a])
    BY <1>3, <1>6, <1>7, ClusterFacts DEF IsChain
  <2>2. i \in 1..(Len(ch[a]) - 1) /\ i + 1 \in 1..Len(ch[a])
    BY <1>4, <2>1
  <2> QED BY <1>3, <1>6, <2>2 DEF IsChain
<1> QED BY <1>3, <1>4, <1>5, <1>7

\* In a sound volume no two chains share a cluster.
LEMMA SoundApart ==
  ASSUME NEW ch, Sound(fat, data, leaked, fds, ch)
  PROVE  ChainsApart
<1>1. Layout(fat, ch) /\ Apart(ch) /\ SoundTree(data)
  BY DEF Sound, Layout
<1>2. ASSUME NEW c \in Cluster, fat[c] \in Cluster PROVE fat[fat[c]] # 0
  <2>1. fat[c] # 0
    BY <1>2, ClusterFacts
  <2>2. PICK a \in Cluster : \E i \in 1..Len(ch[a]) : i + 1 \in 1..Len(ch[a]) /\ fat[c] = ch[a][i + 1]
    BY <1>2, <2>1, UsedClusters
  <2>3. InChain(ch, a, fat[c])
    BY <2>2 DEF InChain
  <2> QED BY <1>1, <2>3, ChainFacts
<1>3. ASSUME NEW c \in Cluster, NEW d \in Cluster, fat[c] \in Cluster, fat[c] = fat[d]
      PROVE  c = d
  <2>1. fat[c] # 0 /\ fat[d] # 0
    BY <1>3, ClusterFacts
  <2>2. PICK a \in Cluster : \E i \in 1..Len(ch[a]) :
           /\ ch[a][i] = c /\ ch[a] # <<>> /\ i + 1 \in 1..Len(ch[a]) /\ fat[c] = ch[a][i + 1]
    BY <1>3, <2>1, UsedClusters
  <2>3. PICK i \in 1..Len(ch[a]) :
           /\ ch[a][i] = c /\ ch[a] # <<>> /\ i + 1 \in 1..Len(ch[a]) /\ fat[c] = ch[a][i + 1]
    BY <2>2
  <2>4. PICK b \in Cluster : \E j \in 1..Len(ch[b]) :
           ch[b][j] = d /\ j + 1 \in 1..Len(ch[b]) /\ fat[d] = ch[b][j + 1]
    BY <1>3, <2>1, UsedClusters
  <2>5. PICK j \in 1..Len(ch[b]) :
           ch[b][j] = d /\ j + 1 \in 1..Len(ch[b]) /\ fat[d] = ch[b][j + 1]
    BY <2>4
  <2>6. PICK k, m : k = i + 1 /\ m = j + 1
    OBVIOUS
  <2>7. k \in 1..Len(ch[a]) /\ m \in 1..Len(ch[b]) /\ ch[a][k] = ch[b][m]
    BY <1>3, <2>3, <2>5, <2>6
  <2>8. a = b
    BY <1>1, <2>7 DEF Apart
  <2>9. i = j
    <3>1. Once(ch[a])
      BY <1>1, <2>3, ChainFacts DEF IsChain
    <3>2. k = m
      BY <2>7, <2>8, <3>1 DEF Once
    <3>3. i \in Int /\ j \in Int
      OBVIOUS
    <3> QED BY <2>6, <3>2, <3>3
  <2> QED BY <2>3, <2>5, <2>8, <2>9
<1>4. ASSUME NEW p \in Named
      PROVE  LET a == EntryOf(p).first
             IN  fat[a] # 0 /\ (\A c \in Cluster : fat[c] # a) /\ a # Root
  <2>1. PICK a : a = EntryOf(p).first
    OBVIOUS
  <2>2. p \in Path /\ Exists(p)
    BY DEF Named
  <2>3. a \in Cluster /\ ch[a] # <<>> /\ Len(ch[a]) \in Nat /\ Len(ch[a]) > 0 /\ ch[a][1] = a
    BY <2>1, <2>2, PathChain
  <2>4. InChain(ch, a, a) /\ 1 \in 1..Len(ch[a])
    BY <2>3 DEF InChain
  <2>5. fat[a] # 0
    BY <1>1, <2>3, <2>4, ChainFacts
  <2>6. ASSUME NEW c \in Cluster, fat[c] = a PROVE FALSE
    <3>1. fat[c] # 0 /\ fat[c] \in Cluster
      BY <2>3, <2>6, ClusterFacts
    <3>2. PICK b \in Cluster : \E i \in 1..Len(ch[b]) : i + 1 \in 1..Len(ch[b]) /\ fat[c] = ch[b][i + 1]
      BY <3>1, UsedClusters
    <3>3. PICK i \in 1..Len(ch[b]) : i + 1 \in 1..Len(ch[b]) /\ fat[c] = ch[b][i + 1]
      BY <3>2
    <3>4. PICK j : j = i + 1
      OBVIOUS
    <3>5. j \in 1..Len(ch[b]) /\ ch[b][j] = ch[a][1]
      BY <2>3, <2>6, <3>3, <3>4
    <3>6. a = b
      BY <1>1, <2>3, <2>4, <3>5 DEF Apart
    <3>7. Once(ch[a])
      BY <1>1, <2>3, ChainFacts DEF IsChain
    <3>8. j = 1
      BY <2>4, <3>5, <3>6, <3>7 DEF Once
    <3> QED BY <3>4, <3>8
  <2>7. a # Root
    <3>1. Slot(data, DirOf(p), SlotOf(p)) /\ EntryOf(p) = data[DirOf(p)][SlotOf(p)]
      BY <1>1, <2>2, PathSlot
    <3> QED BY <1>1, <2>1, <3>1 DEF SoundTree, BelowRoot, Slot
  <2> QED BY <2>1, <2>5, <2>6, <2>7
<1>5. ASSUME NEW p \in Named, NEW q \in Named, EntryOf(p).first = EntryOf(q).first PROVE p = q
  <2>1. p \in Path /\ Exists(p) /\ q \in Path /\ Exists(q)
    BY DEF Named
  <2>2. /\ Slot(data, DirOf(p), SlotOf(p)) /\ EntryOf(p) = data[DirOf(p)][SlotOf(p)]
        /\ Slot(data, DirOf(q), SlotOf(q)) /\ EntryOf(q) = data[DirOf(q)][SlotOf(q)]
    BY <1>1, <2>1, PathSlot
  <2>3. DirOf(p) = DirOf(q) /\ SlotOf(p) = SlotOf(q)
    BY <1>1, <1>5, <2>2 DEF SoundTree, FirstOnce, Slot
  <2> QED BY <1>1, <2>1, <2>3, OnePath
<1> QED BY <1>2, <1>3, <1>4, <1>5 DEF ChainsApart

\* In a sound volume every cluster in use is in the chain of an entry or leaked.
LEMMA SoundAccounted ==
  ASSUME NEW ch, Sound(fat, data, leaked, fds, ch)
  PROVE  Accounted
<1>1. Layout(fat, ch) /\ SoundTree(data) /\ Owned(ch, data, leaked) /\ Single(ch, leaked)
  BY DEF Sound, Filled
<1> DEFINE used == {c \in Cluster : fat[c] # 0}
           held == UNION {ToSet(Chain(fat, EntryOf(p).first)) : p \in Named}
<1>2. ASSUME NEW c \in used PROVE c \in {Root} \cup leaked \cup held
  <2>1. PICK a \in Cluster : \E i \in 1..Len(ch[a]) : ch[a][i] = c /\ ch[a] # <<>> /\ Len(ch[a]) \in Nat
    BY <1>2, UsedClusters
  <2>2. PICK i \in 1..Len(ch[a]) : ch[a][i] = c /\ ch[a] # <<>> /\ Len(ch[a]) \in Nat
    BY <2>1
  <2>3. CASE a = Root \/ a \in leaked
    <3>1. Len(ch[a]) = 1
      BY <1>1, <2>3 DEF Single
    <3>2. i = 1 /\ ch[a][1] = a
      BY <1>1, <2>2, <3>1, ChainFacts
    <3> QED BY <2>2, <2>3, <3>2
  <2>4. CASE FirstOf(data, a)
    <3>1. PICK e \in Cluster, j \in Offset : Slot(data, e, j) /\ data[e][j].first = a
      BY <2>4 DEF FirstOf
    <3>2. PICK p \in Path : Exists(p) /\ EntryOf(p) = data[e][j]
      BY <1>1, <3>1, SlotPath
    <3>3. Chain(fat, EntryOf(p).first) = ch[a] /\ ch[a] \in Seq(Cluster)
      BY <3>1, <3>2, PathChain
    <3>4. c \in ToSet(Chain(fat, EntryOf(p).first))
      BY <2>2, <3>3, InToSet
    <3>5. p \in Named
      BY <3>2 DEF Named
    <3> QED BY <3>4, <3>5
  <2> QED BY <1>1, <2>2, <2>3, <2>4 DEF Owned
<1>3. ASSUME NEW a \in Cluster, ch[a] # <<>> PROVE a \in used
  <2>1. Len(ch[a]) > 0 /\ ch[a][1] = a /\ Len(ch[a]) \in Nat
    BY <1>1, <1>3, ChainFacts
  <2>2. InChain(ch, a, a)
    BY <2>1 DEF InChain
  <2> QED BY <1>1, <2>2, ChainFacts
<1>4. Root \in used /\ leaked \subseteq used
  BY <1>1, <1>3, ClusterFacts DEF Owned, Single
<1>5. ASSUME NEW c \in held PROVE c \in used
  <2>1. PICK p \in Named : c \in ToSet(Chain(fat, EntryOf(p).first))
    BY <1>5
  <2>2. p \in Path /\ Exists(p)
    BY DEF Named
  <2>3. PICK a : a = EntryOf(p).first
    OBVIOUS
  <2>4. a \in Cluster /\ Chain(fat, a) = ch[a] /\ ch[a] \in Seq(Cluster)
    BY <2>2, <2>3, PathChain
  <2>5. InChain(ch, a, c)
    BY <2>1, <2>3, <2>4, InToSet DEF InChain
  <2> QED BY <1>1, <2>4, <2>5, ChainFacts
<1> HIDE DEF held, used
<1>6. used = {Root} \cup leaked \cup held
  BY <1>2, <1>4, <1>5
<1> QED BY <1>6 DEF Accounted, used, held

(***************************************************************************)
(* fat32_allocate_cluster, fat32_free_cluster_chain, fat32_truncate,       *)
(* fat32_create_dir_entry and their callers never let two chains meet and  *)
(* lose no cluster but the one of a failed creation, on a disk of any size *)
(* and with any number of files, after any sequence of calls and failures. *)
(***************************************************************************)
THEOREM TreeStaysSound ==
  Spec => []TreeIsSound
<1>1. IInv => TreeIsSound
  <2> SUFFICES ASSUME IInv PROVE TreeIsSound
    OBVIOUS
  <2>1. CASE Intact
    <3>1. PICK ch : Sound(fat, data, leaked, fds, ch)
      BY <2>1 DEF IInv, VInv, Kept
    <3> QED BY <3>1, IsTyped, SoundApart, SoundAccounted DEF TreeIsSound
  <2>2. CASE ~ Intact
    BY <2>2, IsTyped DEF TreeIsSound, ChainsApart, Accounted
  <2> QED BY <2>1, <2>2
<1> QED BY <1>1, Invariance, PTL

(***************************************************************************)
(* A directory entry never promises more than the chain of its file holds: *)
(* fat32_write grows the chain before the entry, fat32_truncate cuts both, *)
(* and a close writes back no size that the chain does not cover.          *)
(***************************************************************************)
THEOREM SizesCovered ==
  Spec => []SizeCovered
<1>1. IInv => SizeCovered
  <2> SUFFICES ASSUME IInv, Intact, NEW p \in Named
               PROVE  EntryOf(p).size <= Capacity(Len(Chain(fat, EntryOf(p).first)))
    BY DEF SizeCovered
  <2>1. PICK ch : Sound(fat, data, leaked, fds, ch)
    BY DEF IInv, VInv, Kept
  <2>2. p \in Path /\ Exists(p)
    BY DEF Named
  <2>3. /\ Chain(fat, EntryOf(p).first) = ch[EntryOf(p).first]
        /\ EntryOf(p).size <= Capacity(Len(ch[EntryOf(p).first]))
    BY <2>1, <2>2, PathChain
  <2> QED BY <2>3
<1> QED BY <1>1, Invariance, PTL

(***************************************************************************)
(* The place that popen stored in a handle is that of the file's entry for *)
(* as long as the handle is open, whatever the other calls create, move or *)
(* remove, so that fat32_update_dir_entry writes to that entry.            *)
(***************************************************************************)
THEOREM HandlesKeepEntries ==
  Spec => []HandlesFindEntries
<1>1. IInv => HandlesFindEntries
  <2> SUFFICES ASSUME IInv, Intact, NEW h \in Handle, fds[h].open
               PROVE  \E p \in Named : /\ Uses(h, p)
                                       /\ ~EntryOf(p).dir
                                       /\ EntryOf(p).first = fds[h].first
                                       /\ EntryOf(p).size <= fds[h].size
                                       /\ fds[h].pos <= fds[h].size
    BY DEF HandlesFindEntries
  <2>1. PICK ch : Sound(fat, data, leaked, fds, ch)
    BY DEF IInv, VInv, Kept
  <2>2. PICK x, c, i : x = fds[h] /\ c = x.dirCluster /\ i = x.dirIndex
    OBVIOUS
  <2>3. /\ Slot(data, c, i) /\ ~ data[c][i].dir /\ data[c][i].first = x.first
        /\ data[c][i].size <= x.size /\ x.pos <= x.size
    BY <2>1, <2>2 DEF Sound, Hands, InPlace
  <2>4. PICK p \in Path : Exists(p) /\ DirOf(p) = c /\ SlotOf(p) = i /\ EntryOf(p) = data[c][i]
    BY <2>1, <2>3, SlotPath DEF Sound
  <2>5. p \in Named /\ Uses(h, p)
    BY <2>2, <2>4 DEF Named, Uses
  <2> QED BY <2>2, <2>3, <2>4, <2>5
<1> QED BY <1>1, Invariance, PTL

(***************************************************************************)
(* What a file shows                                                       *)
(***************************************************************************)
\* Where cell o of the r-th cluster of a chain is in the file.
Spot(r, o) == Capacity(r - 1) + o

\* The places of a chain follow each other, cluster after cluster.
LEMMA SpotFacts ==
  ASSUME NEW r \in Nat, r > 0, NEW o \in Offset
  PROVE  /\ Spot(r, o) \in Nat /\ Spot(r, o) > 0 /\ Spot(r, o) <= Capacity(r)
         /\ Spot(r, o) > Capacity(r - 1) /\ Capacity(r) \in Nat /\ Capacity(r - 1) \in Nat
         /\ r > 1 => Spot(r, o) = CellsPerCluster + Spot(r - 1, o)
         /\ r = 1 => Spot(r, o) = o
<1>1. CellsPerCluster \in Nat /\ CellsPerCluster > 0 /\ o \in Nat /\ o > 0 /\ o <= CellsPerCluster
  BY CellsAssumption DEF Offset
<1>2. Capacity(r) \in Nat /\ Capacity(r - 1) \in Nat
  BY CapacityFacts
<1>3. Capacity(r) = Capacity(r - 1) + CellsPerCluster
  BY <1>1 DEF Capacity
<1>4. ASSUME r > 1 PROVE Capacity(r - 1) = Capacity((r - 1) - 1) + CellsPerCluster
                         /\ Capacity((r - 1) - 1) \in Nat
  <2>1. PICK m \in Nat : m = r - 1 /\ m - 1 \in Nat
    BY <1>4
  <2>2. Capacity(m) = Capacity(m - 1) + CellsPerCluster
    BY <1>1, <2>1 DEF Capacity
  <2> QED BY <2>1, <2>2, CapacityFacts
<1>5. Capacity(0) = 0
  BY <1>1 DEF Capacity
<1> QED BY <1>1, <1>2, <1>3, <1>4, <1>5 DEF Spot

\* A later cluster is behind all cells of an earlier one.
LEMMA SpotOrder ==
  ASSUME NEW r \in Nat, r > 0, NEW o \in Offset, NEW m \in Nat
  PROVE  Spot(r, o) <= Capacity(m) <=> r <= m
<1>1. Spot(r, o) \in Nat /\ Spot(r, o) <= Capacity(r) /\ Spot(r, o) > Capacity(r - 1)
      /\ Capacity(r) \in Nat /\ Capacity(r - 1) \in Nat /\ Capacity(m) \in Nat
  BY SpotFacts, CapacityFacts
<1>2. r <= m => Capacity(r) <= Capacity(m)
  BY CapacityFacts
<1>3. ~ (r <= m) => m <= r - 1 /\ r - 1 \in Nat
  OBVIOUS
<1>4. ~ (r <= m) => Capacity(m) <= Capacity(r - 1)
  BY <1>3, CapacityFacts
<1> QED BY <1>1, <1>2, <1>4

\* Two places of a chain that are the same cell of the file are the same place.
LEMMA SpotOnce ==
  ASSUME NEW r \in Nat, r > 0, NEW q \in Nat, q > 0, NEW o \in Offset, NEW u \in Offset,
         Spot(r, o) = Spot(q, u)
  PROVE  r = q /\ o = u
<1>1. Spot(r, o) <= Capacity(r) /\ Spot(q, u) <= Capacity(q)
  BY SpotFacts
<1>2. q <= r /\ r <= q
  BY <1>1, SpotOrder
<1>3. r = q
  BY <1>2
<1>4. Capacity(r - 1) \in Nat /\ o \in Nat /\ u \in Nat
  BY SpotFacts, ClusterFacts
<1> QED BY <1>3, <1>4 DEF Spot

\* Every cell of a file is a cell of one of its clusters.
LEMMA SpotExists ==
  ASSUME NEW m \in Nat, NEW i \in Nat, i > 0, i <= Capacity(m)
  PROVE  \E r \in 1..m, o \in Offset : i = Spot(r, o)
<1>1. CellsPerCluster \in Nat /\ CellsPerCluster > 0
  BY CellsAssumption
<1>2. PICK k \in Nat : k = i - 1
  OBVIOUS
<1>3. /\ k \div CellsPerCluster \in Nat /\ k % CellsPerCluster \in 0..(CellsPerCluster - 1)
      /\ k = CellsPerCluster * (k \div CellsPerCluster) + (k % CellsPerCluster)
  BY <1>1, <1>2
<1>4. PICK q \in Nat, u \in 0..(CellsPerCluster - 1) : k = CellsPerCluster * q + u
  BY <1>3
<1>5. PICK r \in Nat, o \in Offset : r = q + 1 /\ o = u + 1
  BY <1>1, <1>4 DEF Offset
<1>6. i = Spot(r, o)
  <2>1. Capacity(r - 1) = CellsPerCluster * q
    BY <1>1, <1>5 DEF Capacity
  <2>2. CellsPerCluster * q \in Nat
    BY <1>1
  <2> QED BY <1>2, <1>4, <1>5, <2>1, <2>2 DEF Spot
<1>7. r <= m
  BY <1>5, <1>6, SpotOrder
<1> QED BY <1>5, <1>6, <1>7

\* x is what the first n cells of chain s hold in d.
Reads(d, s, n, x) ==
  /\ x \in Seq(Cell) /\ Len(x) = n
  /\ \A r \in 1..Len(s), o \in Offset : Spot(r, o) <= n => x[Spot(r, o)] = d[s[r]][o]

\* The cells of a file are what its chain holds, cluster after cluster.
Readable(p, s) ==
  /\ fat \in [Cluster -> FatEntry] /\ data \in Cells /\ EntryOf(p).size \in 0..MaxSize
  /\ IsChain(fat, EntryOf(p).first, s) /\ EntryOf(p).size <= Capacity(Len(s))

\* The loop of fat32_read returns what is at those places.
LEMMA FileCellsIs ==
  \A p, s : Readable(p, s) => Reads(data, s, EntryOf(p).size, FileCells(p))
<1> SUFFICES ASSUME NEW p, NEW s, Readable(p, s)
             PROVE  Reads(data, s, EntryOf(p).size, FileCells(p))
  OBVIOUS
<1> DEFINE n == MaxSize
           l == Len(s)
<1>1. /\ n \in Nat /\ CellsPerCluster \in Nat /\ CellsPerCluster > 0
      /\ s \in Seq(Cluster) /\ l \in Nat /\ l > 0
      /\ fat \in [Cluster -> FatEntry] /\ data \in Cells
  BY WriteAssumption, CellsAssumption DEF Readable, IsChain
<1>2. PICK read : /\ Reader(read)
                  /\ \A q : FileCells(q) = read[<<EntryOf(q).first, EntryOf(q).size>>]
  BY <1>1, ReaderExists
<1>3. \A r \in 1..l : s[r] \in Cluster
  BY <1>1
<1>4. \A r \in 1..(l - 1) : fat[s[r]] = s[r + 1]
  BY DEF Readable, IsChain
<1> DEFINE From(r, k, x) ==
             /\ x \in Seq(Cell) /\ Len(x) = k
             /\ \A q \in r..l, o \in Offset :
                   Spot(q - r + 1, o) <= k => x[Spot(q - r + 1, o)] = data[s[q]][o]
           Good == {k \in 0..n : \A r \in 1..l, j \in 0..n :
                       j <= k /\ j <= Capacity(l - r + 1) => From(r, j, read[<<s[r], j>>])}
<1>5. ASSUME NEW r \in 1..l, NEW j \in 0..n, j <= Capacity(l - r + 1),
             \A q \in 1..l, i \in 0..n : i < j /\ i <= Capacity(l - q + 1) => From(q, i, read[<<s[q], i>>])
      PROVE  From(r, j, read[<<s[r], j>>])
  <2>1. read[<<s[r], j>>] = ReadRule(read, s[r], j)
    BY <1>2, <1>3 DEF Reader
  <2>2. CASE j <= CellsPerCluster
    <3>1. PICK x : x = [i \in 1..Min({j, CellsPerCluster}) |-> data[s[r]][i]]
      OBVIOUS
    <3>2. read[<<s[r], j>>] = x
      BY <2>1, <2>2, <3>1 DEF ReadRule
    <3>3. x \in Seq(Cell) /\ Len(x) = j /\ \A i \in 1..Len(x) : x[i] = data[s[r]][i]
      BY <1>1, <1>3, <2>2, <3>1, FirstCells
    <3>4. ASSUME NEW q \in r..l, NEW o \in Offset, Spot(q - r + 1, o) <= j
          PROVE  x[Spot(q - r + 1, o)] = data[s[q]][o]
      <4>1. PICK m \in Nat : m = q - r + 1 /\ m > 0
        BY <1>1
      <4>2. Spot(m, o) <= Capacity(1)
        <5>1. Capacity(1) = CellsPerCluster
          BY <1>1 DEF Capacity
        <5>2. Spot(m, o) \in Nat
          BY <4>1, SpotFacts
        <5> QED BY <1>1, <2>2, <3>4, <4>1, <5>1, <5>2
      <4>3. m = 1
        BY <4>1, <4>2, SpotOrder
      <4>4. q = r /\ Spot(m, o) = o /\ o \in 1..j
        <5>1. Spot(m, o) = o /\ o \in Nat /\ o > 0
          BY <4>1, <4>3, SpotFacts
        <5> QED BY <1>1, <3>4, <4>1, <4>3, <5>1
      <4> QED BY <3>3, <4>1, <4>4
    <3> QED BY <3>2, <3>3, <3>4
  <2>3. CASE ~ (j <= CellsPerCluster)
    <3>1. r < l
      <4>1. r = l => Capacity(l - r + 1) = CellsPerCluster
        BY <1>1 DEF Capacity
      <4> QED BY <1>1, <1>5, <2>3, <4>1
    <3>2. PICK i, w : i = j - CellsPerCluster /\ w = read[<<s[r + 1], i>>]
      OBVIOUS
    <3>3. i \in 0..n /\ i < j /\ i \in Nat /\ j \in Nat
      BY <1>1, <2>3, <3>2
    <3>4. i <= Capacity(l - (r + 1) + 1)
      <4> HIDE DEF l
      <4>1. PICK m \in Nat : m = l - r /\ m > 0 /\ m = l - (r + 1) + 1 /\ m + 1 = l - r + 1
        BY <1>1, <3>1
      <4>2. Capacity(m + 1) = Capacity(m) + CellsPerCluster /\ Capacity(m) \in Nat
        BY <1>1, <4>1, CapacityFacts DEF Capacity
      <4> QED BY <1>1, <1>5, <3>2, <3>3, <4>1, <4>2
    <3>5. From(r + 1, i, w)
      <4>1. r + 1 \in 1..l
        BY <1>1, <3>1
      <4> QED BY <1>5, <3>2, <3>3, <3>4, <4>1, ZenonT(60)
    <3>6. fat[s[r]] = s[r + 1] /\ s[r + 1] \in Cluster
      BY <1>1, <1>3, <1>4, <3>1
    <3>7. PICK u : u = data[s[r]]
      OBVIOUS
    <3>8. read[<<s[r], j>>] = u \o w
      BY <2>1, <2>3, <3>2, <3>6, <3>7 DEF ReadRule
    <3>9. u \in Seq(Cell) /\ Len(u) = CellsPerCluster
      <4>1. u \in [1..CellsPerCluster -> Cell]
        BY <1>1, <1>3, <3>7 DEF Cells, Offset
      <4> QED BY <1>1, <4>1
    <3>10. w \in Seq(Cell) /\ Len(w) = i
      BY <3>5
    <3>11. PICK x : x = u \o w
      OBVIOUS
    <3>12. /\ x \in Seq(Cell) /\ Len(x) = j
           /\ \A m \in 1..j : x[m] = IF m <= CellsPerCluster THEN u[m] ELSE w[m - CellsPerCluster]
      <4>1. /\ x \in Seq(Cell) /\ Len(x) = CellsPerCluster + i
            /\ \A m \in 1..Len(x) : x[m] = IF m <= Len(u) THEN u[m] ELSE w[m - Len(u)]
        BY <3>9, <3>10, <3>11, ConcatIs
      <4>2. j = CellsPerCluster + i
        BY <1>1, <3>2, <3>3
      <4> QED BY <3>9, <4>1, <4>2
    <3>13. ASSUME NEW q \in r..l, NEW o \in Offset, Spot(q - r + 1, o) <= j
           PROVE  x[Spot(q - r + 1, o)] = data[s[q]][o]
      <4>1. PICK m \in Nat : m = q - r + 1 /\ m > 0
        BY <1>1
      <4>2. PICK k : k = Spot(m, o)
        OBVIOUS
      <4>3. k \in 1..j
        <5>1. k \in Nat /\ k > 0
          BY <4>1, <4>2, SpotFacts
        <5> QED BY <3>3, <3>13, <4>1, <4>2, <5>1
      <4>4. CASE q = r
        <5>1. k = o /\ k <= CellsPerCluster
          BY <1>1, <4>1, <4>2, <4>4, SpotFacts DEF Offset
        <5> QED BY <3>7, <3>12, <4>1, <4>2, <4>3, <4>4, <5>1
      <4>5. CASE q # r
        <5>1. q \in (r + 1)..l /\ m - 1 = q - (r + 1) + 1 /\ m > 1 /\ m - 1 \in Nat /\ m - 1 > 0
          BY <1>1, <4>1, <4>5
        <5>2. k = CellsPerCluster + Spot(m - 1, o)
          BY <4>1, <4>2, <5>1, SpotFacts
        <5>3. Spot(m - 1, o) \in Nat /\ Spot(m - 1, o) > 0
          BY <5>1, SpotFacts
        <5>4. Spot(m - 1, o) <= i /\ ~ (k <= CellsPerCluster) /\ k - CellsPerCluster = Spot(m - 1, o)
          BY <1>1, <3>2, <3>3, <4>3, <5>2, <5>3
        <5>5. w[Spot(m - 1, o)] = data[s[q]][o]
          BY <3>5, <5>1, <5>4
        <5> QED BY <3>12, <4>1, <4>2, <4>3, <5>4, <5>5
      <4> QED BY <4>4, <4>5
    <3> QED BY <3>8, <3>11, <3>12, <3>13
  <2> QED BY <2>2, <2>3
<1> HIDE DEF From
<1>6. 0 \in Good
  <2>1. \A j \in 0..n : j <= 0 => j = 0
    BY <1>1
  <2>2. 0 \in 0..n /\ \A i \in 0..n : ~ (i < 0)
    BY <1>1
  <2> QED BY <1>5, <2>1, <2>2
<1>7. ASSUME NEW k \in 0..(n - 1), k \in Good PROVE k + 1 \in Good
  <2>1. k + 1 \in 0..n
    BY <1>1
  <2>2. \A r \in 1..l, j \in 0..n : j <= k /\ j <= Capacity(l - r + 1) => From(r, j, read[<<s[r], j>>])
    BY <1>7
  <2>3. ASSUME NEW r \in 1..l, NEW j \in 0..n, j <= k + 1, j <= Capacity(l - r + 1)
        PROVE  From(r, j, read[<<s[r], j>>])
    <3>1. \A i \in 0..n : i < j => i <= k
      BY <1>1, <2>3
    <3> QED BY <1>5, <2>2, <2>3, <3>1
  <2> QED BY <2>1, <2>3
<1> HIDE DEF Good
<1>8. \A k \in 0..n : k \in Good
  BY <1>1, <1>6, <1>7, IntervalInduction
<1>9. PICK a, k : a = EntryOf(p).first /\ k = EntryOf(p).size
  OBVIOUS
<1>10. k \in 0..n /\ k <= Capacity(l) /\ s[1] = a
  BY <1>9 DEF Readable, IsChain
<1>11. From(1, k, read[<<a, k>>])
  <2>1. 1 \in 1..l /\ l - 1 + 1 = l
    BY <1>1
  <2> QED BY <1>8, <1>1, <1>10, <2>1 DEF Good
<1>12. \A q \in 1..l : q - 1 + 1 = q
  BY <1>1
<1> QED BY <1>2, <1>9, <1>11, <1>12 DEF From, Reads

\* Where path p is in the tree d.
Place(d, p, c, i) ==
  /\ Slot(d, c, i) /\ d[c][i].name = Last(p)
  /\ Len(p) = 1 => c = Root
  /\ Len(p) # 1 => \E j \in Offset : /\ Slot(d, Root, j) /\ d[Root][j].dir
                                     /\ d[Root][j].name = Head(p) /\ d[Root][j].first = c

\* The lookups of fat32.c find it there.
Lookups(d) ==
  \A p \in Path :
     /\ Exists(p) => Place(d, p, DirOf(p), SlotOf(p))
     /\ \A c, i : Place(d, p, c, i) =>
           Exists(p) /\ DirOf(p) = c /\ SlotOf(p) = i /\ EntryOf(p) = d[c][i]

\* So it is in every sound tree.
LEMMA LookupsFind ==
  SoundTree(data) => Lookups(data)
<1> SUFFICES ASSUME SoundTree(data), NEW p \in Path
             PROVE  /\ Exists(p) => Place(data, p, DirOf(p), SlotOf(p))
                    /\ \A c, i : Place(data, p, c, i) =>
                          Exists(p) /\ DirOf(p) = c /\ SlotOf(p) = i /\ EntryOf(p) = data[c][i]
  BY DEF Lookups
<1>1. ASSUME Exists(p) PROVE Place(data, p, DirOf(p), SlotOf(p))
  <2>1. Slot(data, DirOf(p), SlotOf(p)) /\ EntryOf(p).name = Last(p)
        /\ EntryOf(p) = data[DirOf(p)][SlotOf(p)]
    BY <1>1, PathSlot
  <2>2. DirOf(p) # 0
    BY <1>1 DEF Exists
  <2>3. \/ DirOf(p) = Root /\ Len(p) = 1
        \/ /\ DirOf(p) # Root /\ Len(p) = 2
           /\ \E i \in Offset : /\ Slot(data, Root, i) /\ data[Root][i].dir
                                /\ data[Root][i].first = DirOf(p)
                                /\ data[Root][i].name = Head(p)
    BY <2>2, PathPlace
  <2> QED BY <2>1, <2>3 DEF Place
<1>2. ASSUME NEW c, NEW i, Place(data, p, c, i)
      PROVE  Exists(p) /\ DirOf(p) = c /\ SlotOf(p) = i /\ EntryOf(p) = data[c][i]
  <2>1. c \in Cluster /\ i \in Offset /\ IsDirectory(data, c) /\ Slot(data, c, i) /\ data[c][i].name = Last(p)
    BY <1>2 DEF Place, Slot
  <2>2. i # 0 /\ c # 0
    BY <2>1, ClusterFacts DEF Offset
  <2>3. SlotIn(c, Last(p)) = i
    BY <2>1, SlotFound
  <2>4. DirOf(p) = c
    <3>1. CASE Len(p) = 1
      BY <1>2, <3>1 DEF Place, DirOf
    <3>2. CASE Len(p) # 1
      <4>1. PICK j \in Offset : /\ Slot(data, Root, j) /\ data[Root][j].dir
                                /\ data[Root][j].name = Head(p) /\ data[Root][j].first = c
        BY <1>2, <3>2 DEF Place
      <4>2. SlotIn(Root, Head(p)) = j
        BY <4>1, SlotFound, ClusterFacts DEF Slot
      <4>3. j # 0
        BY ClusterFacts DEF Offset
      <4> QED BY <3>2, <4>1, <4>2, <4>3 DEF DirOf
    <3> QED BY <3>1, <3>2
  <2> QED BY <2>2, <2>3, <2>4 DEF Exists, SlotOf, EntryOf
<1> QED BY <1>1, <1>2

\* The same after a step
LEMMA LookupsFindNext ==
  SoundTree(data') =>
     \A p \in Path :
        /\ Exists(p)' => Place(data', p, DirOf(p)', SlotOf(p)')
        /\ \A c, i : Place(data', p, c, i) =>
              Exists(p)' /\ DirOf(p)' = c /\ SlotOf(p)' = i /\ EntryOf(p)' = data'[c][i]
<1>1. (SoundTree(data) => Lookups(data))'
  BY LookupsFind, PTL
<1> QED BY <1>1 DEF Lookups

\* The same after a step
LEMMA FileCellsIsNext ==
  \A p, s : Readable(p, s)' => Reads(data', s, EntryOf(p)'.size, FileCells(p)')
<1>1. (\A p, s : Readable(p, s) => Reads(data, s, EntryOf(p).size, FileCells(p)))'
  BY FileCellsIs, PTL
<1> QED BY <1>1

\* No two paths are in the same place.
LEMMA PlaceOnce ==
  ASSUME NEW d, SoundTree(d), NEW p \in Path, NEW q \in Path, NEW c, NEW i,
         Place(d, p, c, i), Place(d, q, c, i)
  PROVE  p = q
<1>1. Last(p) = Last(q)
  BY DEF Place
<1>2. \/ Len(p) = 1 /\ OneName(p)
      \/ Len(p) = 2 /\ TwoNames(p)
  BY PathShape
<1>3. \/ Len(q) = 1 /\ OneName(q)
      \/ Len(q) = 2 /\ TwoNames(q)
  BY PathShape
<1>4. ASSUME NEW r \in Path, Place(d, r, c, i), Len(r) # 1
      PROVE  c # Root /\ \E j \in Offset : /\ Slot(d, Root, j) /\ d[Root][j].dir
                                           /\ d[Root][j].name = Head(r) /\ d[Root][j].first = c
  BY <1>4 DEF Place, SoundTree, BelowRoot, Slot
<1>5. ASSUME NEW r \in Path, Place(d, r, c, i), Len(r) = 1 PROVE c = Root
  BY <1>5 DEF Place
<1>6. CASE Len(p) = 1
  BY <1>1, <1>2, <1>3, <1>4, <1>5, <1>6 DEF OneName
<1>7. CASE Len(p) # 1
  <2>1. Len(p) = 2 /\ TwoNames(p) /\ Len(q) = 2 /\ TwoNames(q)
    BY <1>2, <1>3, <1>4, <1>5, <1>7
  <2>2. PICK j \in Offset : /\ Slot(d, Root, j) /\ d[Root][j].dir
                            /\ d[Root][j].name = Head(p) /\ d[Root][j].first = c
    BY <1>4, <1>7
  <2>3. PICK k \in Offset : /\ Slot(d, Root, k) /\ d[Root][k].dir
                            /\ d[Root][k].name = Head(q) /\ d[Root][k].first = c
    BY <1>4, <2>1
  <2>4. j = k
    BY <2>2, <2>3, ClusterFacts DEF SoundTree, FirstOnce
  <2> QED BY <1>1, <2>1, <2>2, <2>3, <2>4 DEF TwoNames
<1> QED BY <1>6, <1>7

\* Two readings of the same cells are the same.
LEMMA ReadOnce ==
  ASSUME NEW s, Len(s) \in Nat, NEW d, NEW e, NEW n \in Nat, n <= Capacity(Len(s)), NEW x, NEW y,
         Reads(d, s, n, x), Reads(e, s, n, y), \A j \in 1..Len(s) : d[s[j]] = e[s[j]]
  PROVE  x = y
<1>1. x \in Seq(Cell) /\ y \in Seq(Cell) /\ Len(x) = n /\ Len(y) = n
  BY DEF Reads
<1>2. ASSUME NEW i \in 1..n PROVE x[i] = y[i]
  <2>1. i \in Nat /\ i > 0 /\ i <= Capacity(Len(s))
    BY CapacityFacts
  <2>2. PICK r \in 1..Len(s), o \in Offset : i = Spot(r, o)
    BY <2>1, SpotExists
  <2>3. x[i] = d[s[r]][o] /\ y[i] = e[s[r]][o]
    BY <2>2 DEF Reads
  <2> QED BY <2>3
<1> QED BY <1>1, <1>2

\* A step leaves the chain s and its cells alone.
Same(s, f, d, g, e) == \A j \in 1..Len(s) : g[s[j]] = f[s[j]] /\ e[s[j]] = d[s[j]]

\* A directory that is entered at (c, i) is empty.
NoneBelow(d, c, i) ==
  Slot(d, c, i) /\ d[c][i].dir => \A j \in Offset : ~ Slot(d, d[c][i].first, j)

\* A step leaves the entries outside T, and the files they are about, alone.
Others(ch, f, d, g, e, T) ==
  /\ \A c \in Cluster, i \in Offset : <<c, i>> \notin T =>
        /\ Slot(e, c, i) <=> Slot(d, c, i)
        /\ Slot(d, c, i) => /\ e[c][i] = d[c][i]
                            /\ ~ d[c][i].dir => Same(ch[d[c][i].first], f, d, g, e)
  /\ \A c \in Cluster, i \in Offset : <<c, i>> \in T => NoneBelow(d, c, i) /\ NoneBelow(e, c, i)

\* An entry outside T is at the place of the same paths before and after.
LEMMA OthersPlace ==
  ASSUME NEW ch, NEW f, NEW d, NEW g, NEW e, NEW T, Others(ch, f, d, g, e, T),
         NEW p, NEW c, NEW i, <<c, i>> \notin T
  PROVE  Place(d, p, c, i) <=> Place(e, p, c, i)
<1>1. ASSUME Place(d, p, c, i) PROVE Place(e, p, c, i)
  <2>1. c \in Cluster /\ i \in Offset /\ Slot(d, c, i) /\ Slot(e, c, i) /\ e[c][i] = d[c][i]
    BY <1>1 DEF Place, Slot, Others
  <2>2. ASSUME NEW j \in Offset, Slot(d, Root, j), d[Root][j].dir, d[Root][j].first = c
        PROVE  Slot(e, Root, j) /\ e[Root][j] = d[Root][j]
    <3>1. <<Root, j>> \notin T
      BY <2>1, <2>2, ClusterFacts DEF Others, NoneBelow
    <3> QED BY <2>2, <3>1, ClusterFacts DEF Others
  <2> QED BY <1>1, <2>1, <2>2 DEF Place
<1>2. ASSUME Place(e, p, c, i) PROVE Place(d, p, c, i)
  <2>1. c \in Cluster /\ i \in Offset /\ Slot(d, c, i) /\ Slot(e, c, i) /\ e[c][i] = d[c][i]
    BY <1>2 DEF Place, Slot, Others
  <2>2. ASSUME NEW j \in Offset, Slot(e, Root, j), e[Root][j].dir, e[Root][j].first = c
        PROVE  Slot(d, Root, j) /\ e[Root][j] = d[Root][j]
    <3>1. <<Root, j>> \notin T
      BY <2>1, <2>2, ClusterFacts DEF Others, NoneBelow
    <3> QED BY <2>2, <3>1, ClusterFacts DEF Others
  <2> QED BY <1>2, <2>1, <2>2 DEF Place
<1> QED BY <1>1, <1>2

\* A chain that is left alone stays the chain it was.
LEMMA SameChain ==
  ASSUME NEW f, NEW d, NEW g, NEW e, NEW a, NEW s, IsChain(f, a, s), Same(s, f, d, g, e)
  PROVE  IsChain(g, a, s)
<1>1. Len(s) \in Nat /\ Len(s) > 0 /\ s \in Seq(Cluster)
  BY DEF IsChain
<1>2. \A j \in 1..Len(s) : g[s[j]] = f[s[j]]
  BY DEF Same
<1>3. \A j \in 1..(Len(s) - 1) : g[s[j]] = f[s[j]]
  BY <1>1, <1>2
<1>4. g[s[Len(s)]] = f[s[Len(s)]]
  BY <1>1, <1>2
<1> QED BY <1>3, <1>4 DEF IsChain

\* What path p shows is what it showed.
AsBefore(p) ==
  /\ Exists(p)' <=> Exists(p)
  /\ Exists(p) => /\ EntryOf(p)'.dir = EntryOf(p).dir
                  /\ ~ EntryOf(p).dir => FileCells(p)' = FileCells(p)

\* W are the paths whose entries are in T.
Touches(W, d, T) ==
  \A c \in Cluster, i \in Offset : <<c, i>> \in T /\ Slot(d, c, i) => \E p \in W : Place(d, p, c, i)

\* So the paths outside W show what they showed.
LEMMA OthersAsBefore ==
  ASSUME NEW ch, Sound(fat, data, leaked, fds, ch), SoundTree(data'), fat' \in [Cluster -> FatEntry],
         NEW T, Others(ch, fat, data, fat', data', T), NEW W \in SUBSET Path,
         Touches(W, data, T), Touches(W, data', T), NEW q \in Path, q \notin W
  PROVE  AsBefore(q)
<1>1. SoundTree(data) /\ Layout(fat, ch) /\ fat \in [Cluster -> FatEntry] /\ data \in Cells /\ data' \in Cells
  BY DEF Sound, Layout, SoundTree
<1>2. ASSUME NEW c, NEW i, Place(data, q, c, i) PROVE <<c, i>> \notin T
  BY <1>1, <1>2, PlaceOnce DEF Touches, Place, Slot
<1>3. ASSUME NEW c, NEW i, Place(data', q, c, i) PROVE <<c, i>> \notin T
  BY <1>3, PlaceOnce DEF Touches, Place, Slot
<1>4. ASSUME NEW c, NEW i PROVE Place(data, q, c, i) <=> Place(data', q, c, i)
  <2>1. CASE <<c, i>> \in T
    BY <1>2, <1>3, <2>1
  <2>2. CASE <<c, i>> \notin T
    BY <2>2, OthersPlace
  <2> QED BY <2>1, <2>2
<1>5. /\ Exists(q) => Place(data, q, DirOf(q), SlotOf(q))
      /\ \A c, i : Place(data, q, c, i) =>
            Exists(q) /\ DirOf(q) = c /\ SlotOf(q) = i /\ EntryOf(q) = data[c][i]
  BY <1>1, LookupsFind DEF Lookups
<1>6. /\ Exists(q)' => Place(data', q, DirOf(q)', SlotOf(q)')
      /\ \A c, i : Place(data', q, c, i) =>
            Exists(q)' /\ DirOf(q)' = c /\ SlotOf(q)' = i /\ EntryOf(q)' = data'[c][i]
  BY LookupsFindNext
<1>7. Exists(q)' <=> Exists(q)
  BY <1>4, <1>5, <1>6
<1>8. ASSUME Exists(q)
      PROVE  /\ EntryOf(q)'.dir = EntryOf(q).dir
             /\ ~ EntryOf(q).dir => FileCells(q)' = FileCells(q)
  <2>1. PICK c, i : Place(data, q, c, i) /\ Place(data', q, c, i)
    BY <1>4, <1>5, <1>8
  <2>2. <<c, i>> \notin T /\ Slot(data, c, i) /\ c \in Cluster /\ i \in Offset
    BY <1>2, <2>1 DEF Place, Slot
  <2>3. PICK x : x = data[c][i]
    OBVIOUS
  <2>4. /\ EntryOf(q) = x /\ EntryOf(q)' = x
        /\ ~ x.dir => Same(ch[x.first], fat, data, fat', data')
    BY <1>5, <1>6, <2>1, <2>2, <2>3 DEF Others
  <2>5. ASSUME ~ x.dir PROVE FileCells(q)' = FileCells(q)
    <3>1. PICK a, s, n : a = x.first /\ s = ch[a] /\ n = x.size
      OBVIOUS
    <3>2. a \in Cluster /\ s # <<>> /\ Len(s) \in Nat /\ n <= Capacity(Len(s)) /\ n \in 0..MaxSize /\ n \in Nat
      <4>1. a = EntryOf(q).first /\ n = EntryOf(q).size
        BY <2>4, <3>1
      <4>2. n \in 0..MaxSize
        BY <1>1, <1>8, <4>1, PathSlot
      <4>3. n \in Nat
        BY <4>2, WriteAssumption
      <4> QED BY <1>8, <3>1, <4>1, <4>2, <4>3, PathChain
    <3>3. IsChain(fat, a, s)
      BY <1>1, <3>1, <3>2, ChainFacts
    <3>4. Same(s, fat, data, fat', data')
      BY <2>4, <2>5, <3>1
    <3>5. IsChain(fat', a, s)
      BY <3>3, <3>4, SameChain
    <3>6. Readable(q, s) /\ Readable(q, s)'
      BY <1>1, <2>4, <3>1, <3>2, <3>3, <3>5 DEF Readable
    <3>7. Reads(data, s, n, FileCells(q)) /\ Reads(data', s, n, FileCells(q)')
      BY <2>4, <3>1, <3>6, FileCellsIs, FileCellsIsNext
    <3>8. \A j \in 1..Len(s) : data[s[j]] = data'[s[j]]
      BY <3>4 DEF Same
    <3> QED BY <3>2, <3>7, <3>8, ReadOnce
  <2> QED BY <2>4, <2>5
<1> QED BY <1>7, <1>8 DEF AsBefore

\* A step that changes nothing but free clusters, directories and the file at a leaves the
\* entries of other files and what they hold alone.
LEMMA OthersFrom ==
  ASSUME NEW f, NEW d, NEW l, NEW hs, NEW ch, Sound(f, d, l, hs, ch), NEW g, NEW e, NEW T, NEW a,
         \A c \in Cluster, i \in Offset : <<c, i>> \notin T =>
            /\ Slot(e, c, i) <=> Slot(d, c, i)
            /\ Slot(d, c, i) => e[c][i] = d[c][i] /\ d[c][i].first # a,
         \A c \in Cluster, i \in Offset : <<c, i>> \in T => NoneBelow(d, c, i) /\ NoneBelow(e, c, i),
         \A x \in Cluster : g[x] # f[x] \/ e[x] # d[x] =>
            f[x] = 0 \/ IsDirectory(d, x) \/ (a \in Cluster /\ InChain(ch, a, x))
  PROVE  Others(ch, f, d, g, e, T)
<1> SUFFICES ASSUME NEW c \in Cluster, NEW i \in Offset, <<c, i>> \notin T, Slot(d, c, i), ~ d[c][i].dir
             PROVE  Same(ch[d[c][i].first], f, d, g, e)
  BY DEF Others
<1>1. PICK b : b = d[c][i].first
  OBVIOUS
<1>2. Layout(f, ch) /\ SoundTree(d) /\ d \in Cells
  BY DEF Sound, SoundTree
<1>3. b \in Cluster /\ ~ IsDirectory(d, b) /\ b # a
  BY <1>1, <1>2, SlotFields, SlotDirectory
<1>4. ASSUME NEW j \in 1..Len(ch[b])
      PROVE  g[ch[b][j]] = f[ch[b][j]] /\ e[ch[b][j]] = d[ch[b][j]]
  <2>1. PICK x : x = ch[b][j]
    OBVIOUS
  <2>2. InChain(ch, b, x)
    BY <2>1 DEF InChain
  <2>3. x \in Cluster /\ f[x] # 0
    BY <1>2, <1>3, <2>2, ChainFacts
  <2>4. ~ IsDirectory(d, x)
    BY <1>3, <2>2, <2>3, DirectoryChain
  <2>5. ~ (a \in Cluster /\ InChain(ch, a, x))
    BY <1>2, <1>3, <2>2, SMTT(30) DEF Layout, Apart, InChain
  <2> QED BY <2>1, <2>3, <2>4, <2>5
<1> QED BY <1>1, <1>4 DEF Same

(***************************************************************************)
(* What a file holds was written                                           *)
(***************************************************************************)
Units == {Unit(v) : v \in Value}

\* The first n cells of the file that begins at a are units of contents.
InkedTo(f, d, a, n) ==
  \A r \in 1..Len(Chain(f, a)), o \in Offset : Spot(r, o) <= n => d[Chain(f, a)[r]][o] \in Units

\* So it is for each file, up to its size in the directory and in a handle.
Inked(f, d, hs) ==
  /\ \A c \in Cluster, i \in Offset :
        Slot(d, c, i) /\ ~ d[c][i].dir => InkedTo(f, d, d[c][i].first, d[c][i].size)
  /\ \A h \in Handle : hs[h].open => InkedTo(f, d, hs[h].first, hs[h].size)

\* The same over the clusters of the chain
LEMMA InkedIs ==
  ASSUME NEW f, NEW d, NEW a, NEW s, IsChain(f, a, s), NEW n
  PROVE  InkedTo(f, d, a, n) <=>
            \A r \in 1..Len(s), o \in Offset : Spot(r, o) <= n => d[s[r]][o] \in Units
<1>1. Chain(f, a) = s
  BY ChainIs
<1> QED BY <1>1 DEF InkedTo

\* A chain that a step leaves alone holds what it held.
LEMMA InkedSame ==
  ASSUME NEW f, NEW d, NEW g, NEW e, NEW a, NEW s, IsChain(f, a, s), Same(s, f, d, g, e), NEW n,
         InkedTo(f, d, a, n)
  PROVE  InkedTo(g, e, a, n)
<1>1. IsChain(g, a, s)
  BY SameChain
<1>2. \A r \in 1..Len(s), o \in Offset : Spot(r, o) <= n => d[s[r]][o] \in Units
  BY InkedIs
<1>3. \A r \in 1..Len(s), o \in Offset : Spot(r, o) <= n => e[s[r]][o] \in Units
  BY <1>2 DEF Same
<1> QED BY <1>1, <1>3, InkedIs

\* Files and handles outside T keep what they hold.
LEMMA InkedNext ==
  ASSUME NEW f, NEW d, NEW l, NEW hs, NEW ch, Sound(f, d, l, hs, ch), Inked(f, d, hs),
         NEW g, NEW e, NEW T, Others(ch, f, d, g, e, T), NEW new,
         \A c \in Cluster, i \in Offset : <<c, i>> \in T /\ Slot(e, c, i) /\ ~ e[c][i].dir =>
            InkedTo(g, e, e[c][i].first, e[c][i].size),
         \A h \in Handle : new[h].open =>
            \/ InkedTo(g, e, new[h].first, new[h].size)
            \/ /\ hs[h].open /\ new[h].first = hs[h].first /\ new[h].size = hs[h].size
               /\ <<hs[h].dirCluster, hs[h].dirIndex>> \notin T
  PROVE  Inked(g, e, new)
<1>1. Layout(f, ch) /\ SoundTree(d) /\ d \in Cells
  BY DEF Sound, SoundTree
<1>2. ASSUME NEW c \in Cluster, NEW i \in Offset, <<c, i>> \notin T, Slot(d, c, i), ~ d[c][i].dir, NEW n,
             InkedTo(f, d, d[c][i].first, n)
      PROVE  InkedTo(g, e, d[c][i].first, n)
  <2>1. PICK a : a = d[c][i].first
    OBVIOUS
  <2>2. a \in Cluster /\ FirstOf(d, a)
    BY <1>1, <1>2, <2>1, SlotFields
  <2>3. ch[a] # <<>>
    BY <2>2 DEF Sound, Filled, Owned
  <2>4. IsChain(f, a, ch[a])
    BY <1>1, <2>2, <2>3, ChainFacts
  <2>5. Same(ch[a], f, d, g, e)
    BY <1>2, <2>1 DEF Others
  <2> QED BY <1>2, <2>1, <2>4, <2>5, InkedSame
<1>3. ASSUME NEW c \in Cluster, NEW i \in Offset, Slot(e, c, i), ~ e[c][i].dir
      PROVE  InkedTo(g, e, e[c][i].first, e[c][i].size)
  <2>1. CASE <<c, i>> \in T
    BY <1>3, <2>1
  <2>2. CASE <<c, i>> \notin T
    <3>1. Slot(d, c, i) /\ e[c][i] = d[c][i]
      BY <1>3, <2>2 DEF Others
    <3> QED BY <1>2, <1>3, <2>2, <3>1 DEF Inked
  <2> QED BY <2>1, <2>2
<1>4. ASSUME NEW h \in Handle, new[h].open PROVE InkedTo(g, e, new[h].first, new[h].size)
  <2>1. CASE InkedTo(g, e, new[h].first, new[h].size)
    BY <2>1
  <2>2. CASE /\ hs[h].open /\ new[h].first = hs[h].first /\ new[h].size = hs[h].size
             /\ <<hs[h].dirCluster, hs[h].dirIndex>> \notin T
    <3>1. PICK c, i : c = hs[h].dirCluster /\ i = hs[h].dirIndex
      OBVIOUS
    <3>2. Slot(d, c, i) /\ ~ d[c][i].dir /\ d[c][i].first = hs[h].first
      BY <2>2, <3>1 DEF Sound, Hands, InPlace
    <3>3. InkedTo(f, d, d[c][i].first, hs[h].size)
      BY <2>2, <3>2 DEF Inked
    <3> QED BY <1>2, <2>2, <3>1, <3>2, <3>3 DEF Slot
  <2> QED BY <1>4, <2>1, <2>2
<1> QED BY <1>3, <1>4 DEF Inked

(***************************************************************************)
(* What a step does to the paths                                           *)
(***************************************************************************)
AllBefore(W) == \A q \in Path \ W : AsBefore(q)

\* p is new: a directory, or a file without contents.
Made(p) == ~ Exists(p) /\ Exists(p)' /\ (~ EntryOf(p)'.dir => FileCells(p)' = <<>>)

\* p is removed; a directory had nothing below it.
Gone(p) ==
  /\ Exists(p) /\ ~ Exists(p)'
  /\ EntryOf(p).dir =>
        \A q \in Path : Len(q) > Len(p) /\ SubSeq(q, 1, Len(p)) = p => ~ Exists(q)

\* The file p has lost its contents.
Emptied(p) == Exists(p) /\ ~ EntryOf(p).dir /\ Exists(p)' /\ ~ EntryOf(p)'.dir /\ FileCells(p)' = <<>>

\* The stretch that one write through handle h covers.
InStretch(h, i) == i > AppendPosition(fds[h]) /\ i <= AppendPosition(fds[h]) + MaxWrite

\* The file p was written to: it holds units, not fewer, and differs within one stretch.
Grown(p) ==
  /\ Exists(p) /\ ~ EntryOf(p).dir /\ Exists(p)' /\ ~ EntryOf(p)'.dir
  /\ FileCells(p)' \in Seq(Units) /\ Len(FileCells(p)') \in Len(FileCells(p))..MaxSize
  /\ \E h \in Handle :
        /\ Uses(h, p)
        /\ \A i \in 1..Len(FileCells(p)) : FileCells(p)'[i] # FileCells(p)[i] => InStretch(h, i)

\* The file p is now at q.
Moved(p, q) ==
  /\ Exists(p) /\ ~ EntryOf(p).dir /\ ~ Exists(p)'
  /\ ~ Exists(q) /\ Exists(q)' /\ ~ EntryOf(q)'.dir
  /\ FileCells(q)' = FileCells(p)

\* The paths a step concerns, and what became of them.
Outcome ==
  \/ AllBefore({}) /\ torn' = NoPath
  \/ \E p \in Path : /\ AllBefore({p}) /\ torn' = NoPath
                     /\ Made(p) \/ Gone(p) \/ Emptied(p) \/ Grown(p)
  \/ \E p \in Path : AllBefore({p}) /\ Exists(p) /\ torn' = p
  \/ \E p, q \in Path : AllBefore({p, q}) /\ torn' = NoPath /\ Moved(p, q)

\* All that has to be shown of a step.
Result == Outcome /\ (torn' = NoPath => Inked(fat', data', fds'))

\* The invariant after the step, taken apart.
LEMMA AfterIs ==
  ASSUME IInv'
  PROVE  /\ fat' \in [Cluster -> FatEntry]
         /\ torn' = NoPath => SoundTree(data') /\ \E ch : Sound(fat', data', leaked', fds', ch)
<1>1. /\ Typed(fat', data', leaked', fds')
      /\ torn' = NoPath => \E ch : Sound(fat', data', leaked', fds', ch)
  BY DEF IInv, VInv, Intact, Kept
<1> QED BY <1>1 DEF Typed, Sound

\* A step that changes no entry and no file.
LEMMA CalmStep ==
  ASSUME NEW ch, Sound(fat, data, leaked, fds, ch), Inked(fat, data, fds), IInv', torn' = NoPath,
         Others(ch, fat, data, fat', data', {}),
         \A h \in Handle : fds'[h].open =>
            \/ InkedTo(fat', data', fds'[h].first, fds'[h].size)
            \/ fds[h].open /\ fds'[h].first = fds[h].first /\ fds'[h].size = fds[h].size
  PROVE  Result
<1>1. fat' \in [Cluster -> FatEntry] /\ SoundTree(data')
  BY AfterIs
<1>2. Touches({}, data, {}) /\ Touches({}, data', {})
  BY DEF Touches
<1>3. AllBefore({})
  BY <1>1, <1>2, OthersAsBefore DEF AllBefore
<1>4. Inked(fat', data', fds')
  BY InkedNext
<1> QED BY <1>3, <1>4 DEF Result, Outcome

\* Same FAT and cells.
LEMMA OthersSame ==
  ASSUME NEW f, NEW d, NEW l, NEW hs, NEW ch, Sound(f, d, l, hs, ch)
  PROVE  Others(ch, f, d, f, d, {})
BY DEF Others, Same

\* A failed creation shows nowhere: it touches a free cluster.
LEMMA CreateFailsSeen ==
  ASSUME NEW ch, Sound(fat, data, leaked, fds, ch), Inked(fat, data, fds), torn = NoPath, IInv',
         NEW p \in Path, CreateFails(p)
  PROVE  Result
<1>1. /\ fat' = [fat EXCEPT ![NewCluster] = Eoc] /\ data' = Zeroed(data, <<NewCluster>>)
      /\ fds' = fds /\ torn' = NoPath /\ MayCreate(p)
  BY DEF CreateFails, FatWithNew
<1>2. PICK n \in Cluster : n = NewCluster /\ fat[n] = 0
  BY <1>1, NewClusterIs
<1>3. SoundTree(data) /\ data \in Cells /\ fat \in [Cluster -> FatEntry]
  BY DEF Sound, Layout, SoundTree
<1>4. <<n>> \in Seq(Cluster) /\ Len(<<n>>) = 1 /\ <<n>>[1] = n
  OBVIOUS
<1>5. data' \in Cells /\ \A x \in Cluster : x # n => data'[x] = data[x]
  <2>1. \A x \in Cluster : x # n => \A i \in 1..Len(<<n>>) : <<n>>[i] # x
    BY <1>4
  <2>2. data' = Zeroed(data, <<n>>)
    BY <1>1, <1>2
  <2> QED BY <1>3, <1>4, <2>1, <2>2, ZeroedIs
<1>6. \A x \in Cluster : x # n => fat'[x] = fat[x]
  BY <1>1, <1>2, <1>3
<1>7. \A x \in Cluster : IsDirectory(data, x) => data'[x] = data[x]
  BY <1>2, <1>5, FreeIsNew
<1>8. SameDirectories(data, data')
  BY <1>3, <1>5, <1>7, SameTree
<1>9. Others(ch, fat, data, fat', data', {})
  <2>1. \A c \in Cluster, i \in Offset :
           /\ Slot(data', c, i) <=> Slot(data, c, i)
           /\ Slot(data, c, i) => data'[c][i] = data[c][i] /\ data[c][i].first # Root
    BY <1>3, <1>8 DEF SameDirectories, Slot, SoundTree, BelowRoot
  <2>2. \A x \in Cluster : fat'[x] # fat[x] \/ data'[x] # data[x] => fat[x] = 0
    BY <1>2, <1>5, <1>6
  <2> QED BY <2>1, <2>2, OthersFrom
<1> QED BY <1>1, <1>9, CalmStep

\* Opening a file that exists changes no file; the handle starts with the size of the entry.
LEMMA OpenExistingSeen ==
  ASSUME NEW ch, Sound(fat, data, leaked, fds, ch), Inked(fat, data, fds), torn = NoPath, IInv',
         NEW h \in Handle, NEW p \in Path, NEW flags \in Flags, OpenExisting(h, p, flags)
  PROVE  Result
<1>1. /\ fat' = fat /\ data' = data /\ torn' = NoPath /\ Exists(p) /\ ~ EntryOf(p).dir
      /\ fds' = [fds EXCEPT ![h] = HandleOn(DirOf(p), SlotOf(p), EntryOf(p), flags)]
  BY DEF OpenExisting, IsFile
<1>2. SoundTree(data) /\ fds \in [Handle -> {Closed} \cup File]
  BY DEF Sound, Hands
<1>3. InkedTo(fat, data, EntryOf(p).first, EntryOf(p).size)
  BY <1>1, <1>2, PathSlot DEF Inked, Slot
<1>4. \A g \in Handle : g # h => fds'[g] = fds[g]
  BY <1>1, <1>2
<1>5. fds'[h].first = EntryOf(p).first /\ fds'[h].size = EntryOf(p).size
  BY <1>1, <1>2 DEF HandleOn
<1>6. Others(ch, fat, data, fat', data', {})
  BY <1>1, OthersSame
<1> QED BY <1>1, <1>3, <1>4, <1>5, <1>6, CalmStep

\* Reading and seeking change no file.
LEMMA MovePositionSeen ==
  ASSUME NEW ch, Sound(fat, data, leaked, fds, ch), Inked(fat, data, fds), torn = NoPath, IInv',
         NEW h \in Handle, MovePosition(h)
  PROVE  Result
<1>1. /\ fat' = fat /\ data' = data /\ torn' = NoPath /\ fds[h].open
      /\ \E pos \in 0..fds[h].size : fds' = [fds EXCEPT ![h].pos = pos]
  BY DEF MovePosition
<1>2. PICK pos : fds' = [fds EXCEPT ![h].pos = pos]
  BY <1>1
<1>3. fds \in [Handle -> {Closed} \cup File]
  BY DEF Sound, Hands
<1>4. \A g \in Handle : g # h => fds'[g] = fds[g]
  BY <1>2, <1>3
<1>5. fds[h] \in File
  BY <1>1, <1>3 DEF Closed
<1>6. fds'[h] = [fds[h] EXCEPT !.pos = pos]
  BY <1>2, <1>3
<1>7. fds'[h].first = fds[h].first /\ fds'[h].size = fds[h].size
  BY <1>5, <1>6 DEF File
<1>8. Others(ch, fat, data, fat', data', {})
  BY <1>1, OthersSame
<1> QED BY <1>1, <1>4, <1>7, <1>8, CalmStep

\* A close that writes nothing changes no file.
LEMMA CloseUnrecordedSeen ==
  ASSUME NEW ch, Sound(fat, data, leaked, fds, ch), Inked(fat, data, fds), torn = NoPath, IInv',
         NEW h \in Handle, Pclose(h), data' = data
  PROVE  Result
<1>1. fat' = fat /\ torn' = NoPath /\ fds' = [fds EXCEPT ![h] = Closed]
  BY DEF Pclose
<1>2. fds \in [Handle -> {Closed} \cup File]
  BY DEF Sound, Hands
<1>3. \A g \in Handle : g # h => fds'[g] = fds[g]
  BY <1>1, <1>2
<1>4. ~ fds'[h].open
  BY <1>1, <1>2 DEF Closed
<1>5. Others(ch, fat, data, fat', data', {})
  BY <1>1, OthersSame
<1> QED BY <1>1, <1>3, <1>4, <1>5, CalmStep

\* Where an existing path is, and its chain.
LEMMA PathIs ==
  ASSUME NEW ch, Sound(fat, data, leaked, fds, ch), NEW p \in Path, Exists(p)
  PROVE  LET c == DirOf(p)
             i == SlotOf(p)
             a == EntryOf(p).first
         IN  /\ Place(data, p, c, i) /\ Slot(data, c, i) /\ data[c][i] = EntryOf(p)
             /\ c \in Cluster /\ i \in Offset /\ IsDirectory(data, c)
             /\ a \in Cluster /\ Chain(fat, a) = ch[a] /\ ch[a] # <<>> /\ ch[a] \in Seq(Cluster)
             /\ IsChain(fat, a, ch[a])
             /\ \A x \in Cluster, j \in Offset : Slot(data, x, j) /\ data[x][j].first = a => x = c /\ j = i
<1>1. SoundTree(data) /\ Layout(fat, ch)
  BY DEF Sound
<1>2. PICK c, i, a : c = DirOf(p) /\ i = SlotOf(p) /\ a = EntryOf(p).first
  OBVIOUS
<1>3. Place(data, p, c, i) /\ data[c][i] = EntryOf(p)
  BY <1>1, <1>2, LookupsFind DEF Lookups
<1>4. Slot(data, c, i) /\ c \in Cluster /\ i \in Offset /\ IsDirectory(data, c)
  BY <1>3 DEF Place, Slot
<1>5. a \in Cluster /\ Chain(fat, a) = ch[a] /\ ch[a] # <<>> /\ ch[a] \in Seq(Cluster)
  BY <1>2, PathChain
<1>6. IsChain(fat, a, ch[a])
  BY <1>1, <1>5, ChainFacts
<1>7. \A x \in Cluster, j \in Offset : Slot(data, x, j) /\ data[x][j].first = a => x = c /\ j = i
  BY <1>1, <1>2, <1>3, <1>4 DEF SoundTree, FirstOnce
<1> QED BY <1>2, <1>3, <1>4, <1>5, <1>6, <1>7

\* An empty directory has no entry, not even behind its end.
LEMMA EmptyNone ==
  ASSUME NEW ch, Sound(fat, data, leaked, fds, ch), NEW p \in Path, Exists(p),
         EntryOf(p).dir => IsEmpty(EntryOf(p).first)
  PROVE  NoneBelow(data, DirOf(p), SlotOf(p))
<1>1. PICK a : a = EntryOf(p).first
  OBVIOUS
<1>2. SoundTree(data) /\ data[DirOf(p)][SlotOf(p)] = EntryOf(p) /\ a \in Cluster
  BY <1>1, PathIs DEF Sound
<1> SUFFICES ASSUME EntryOf(p).dir, NEW j \in Offset, Slot(data, a, j) PROVE FALSE
  BY <1>1, <1>2 DEF NoneBelow
<1>3. IsEmpty(a) /\ IsDirectory(data, a) /\ data[a][j].kind = "entry"
  BY <1>1 DEF Slot
<1>4. PICK k \in 1..(j - 1) : data[a][k].kind = "zero"
  BY <1>3 DEF IsEmpty
<1>5. k \in Offset /\ k < j
  BY CellsAssumption DEF Offset
<1>6. data[a][j].kind = "zero"
  BY <1>2, <1>3, <1>4, <1>5 DEF SoundTree, ZerosLast
<1> QED BY <1>3, <1>6

\* A step concerns the entry at (c, i), which is that of p, and the chain of a.
Concerns(ch, p, c, i, a) ==
  /\ \A x \in Cluster, j \in Offset : ~ (x = c /\ j = i) =>
        /\ Slot(data', x, j) <=> Slot(data, x, j)
        /\ Slot(data, x, j) => data'[x][j] = data[x][j] /\ data[x][j].first # a
  /\ Slot(data, c, i) => Place(data, p, c, i) /\ NoneBelow(data, c, i)
  /\ Slot(data', c, i) => Place(data', p, c, i) /\ NoneBelow(data', c, i)
  /\ \A x \in Cluster : fat'[x] # fat[x] \/ data'[x] # data[x] =>
        fat[x] = 0 \/ IsDirectory(data, x) \/ (a \in Cluster /\ InChain(ch, a, x))

\* Such a step is seen at p alone.
LEMMA OneStep ==
  ASSUME NEW ch, Sound(fat, data, leaked, fds, ch), SoundTree(data'), fat' \in [Cluster -> FatEntry],
         NEW p \in Path, NEW c, NEW i, NEW a, Concerns(ch, p, c, i, a)
  PROVE  AllBefore({p}) /\ Others(ch, fat, data, fat', data', {<<c, i>>})
<1>1. \A x, j : <<x, j>> \in {<<c, i>>} <=> x = c /\ j = i
  OBVIOUS
<1>2. NoneBelow(data, c, i) /\ NoneBelow(data', c, i)
  BY DEF NoneBelow, Concerns
<1>3. Others(ch, fat, data, fat', data', {<<c, i>>})
  <2>1. PICK T : T = {<<c, i>>}
    OBVIOUS
  <2>2. \A x, j : <<x, j>> \in T <=> x = c /\ j = i
    BY <2>1
  <2>3. Others(ch, fat, data, fat', data', T)
    BY <1>2, <2>2, OthersFrom DEF Concerns
  <2> QED BY <2>1, <2>3
<1>4. Touches({p}, data, {<<c, i>>}) /\ Touches({p}, data', {<<c, i>>})
  BY <1>1 DEF Touches, Concerns
<1>5. ASSUME NEW q \in Path \ {p} PROVE AsBefore(q)
  <2>1. {p} \in SUBSET Path /\ q \notin {p} /\ q \in Path
    OBVIOUS
  <2> QED BY <1>3, <1>4, <2>1, OthersAsBefore
<1> QED BY <1>3, <1>5 DEF AllBefore

\* Clusters whose FAT entry a release leaves alone.
LEMMA ReleasedIs ==
  ASSUME NEW f, NEW s \in Seq(Cluster), NEW x \in Cluster, \A j \in 1..Len(s) : s[j] # x
  PROVE  Released(f, s)[x] = f[x]
<1>1. x \notin ToSet(s)
  BY InToSet
<1> QED BY <1>1 DEF Released

\* A stretch of a chain that a release gets to is part of it.
LEMMA PartIs ==
  ASSUME NEW s \in Seq(Cluster), NEW m \in 1..2, NEW k \in 0..Len(s)
  PROVE  /\ SubSeq(s, m, k) \in Seq(Cluster)
         /\ \A j \in 1..Len(SubSeq(s, m, k)) : \E n \in 1..Len(s) : SubSeq(s, m, k)[j] = s[n]
<1>1. Len(s) \in Nat /\ k \in Nat /\ m \in Nat /\ k <= Len(s)
  OBVIOUS
<1>2. CASE m <= k
  <2>1. /\ SubSeq(s, m, k) \in Seq(Cluster) /\ Len(SubSeq(s, m, k)) = k - m + 1
        /\ \A j \in 1..(k - m + 1) : SubSeq(s, m, k)[j] = s[m + j - 1]
    BY <1>1, <1>2
  <2>2. \A j \in 1..(k - m + 1) : m + j - 1 \in 1..Len(s)
    BY <1>1, <1>2
  <2> QED BY <2>1, <2>2
<1>3. CASE ~ (m <= k)
  <2>1. SubSeq(s, m, k) \in Seq(Cluster) /\ Len(SubSeq(s, m, k)) = 0
    BY <1>1, <1>3
  <2> QED BY <2>1
<1> QED BY <1>2, <1>3

\* A removal or truncation that is cut short concerns its own path only.
LEMMA LostStep ==
  ASSUME NEW ch, Sound(fat, data, leaked, fds, ch), IInv', NEW p \in Path, Exists(p), torn' = p,
         NoneBelow(data, DirOf(p), SlotOf(p)), data' \in Cells,
         \A x \in Cluster : IsDirectory(data, x) => data'[x] = data[x],
         \A x \in Cluster : fat'[x] # fat[x] \/ data'[x] # data[x] => InChain(ch, EntryOf(p).first, x)
  PROVE  Result
<1>1. PICK c, i, a : c = DirOf(p) /\ i = SlotOf(p) /\ a = EntryOf(p).first
  OBVIOUS
<1>2. /\ Place(data, p, c, i) /\ Slot(data, c, i) /\ c \in Cluster /\ i \in Offset /\ a \in Cluster
      /\ \A x \in Cluster, j \in Offset : Slot(data, x, j) /\ data[x][j].first = a => x = c /\ j = i
  BY <1>1, PathIs
<1>3. SoundTree(data) /\ fat' \in [Cluster -> FatEntry]
  BY AfterIs DEF Sound
<1>4. SoundTree(data') /\ SameDirectories(data, data')
  BY <1>3, SameTree
<1>5. \A x, j : Slot(data, x, j) <=> Slot(data', x, j)
  BY <1>4 DEF SameDirectories, Slot
<1>6. \A x, j : Slot(data, x, j) => data'[x] = data[x]
  BY <1>4 DEF SameDirectories, Slot
<1>7. Place(data', p, c, i)
  BY <1>2, <1>5, <1>6 DEF Place
<1>8. NoneBelow(data, c, i) /\ NoneBelow(data', c, i)
  BY <1>1, <1>5, <1>6 DEF NoneBelow
<1>9. AllBefore({p})
  <2>1. \A x \in Cluster, j \in Offset : ~ (x = c /\ j = i) =>
            /\ Slot(data', x, j) <=> Slot(data, x, j)
            /\ Slot(data, x, j) => data'[x][j] = data[x][j] /\ data[x][j].first # a
    BY <1>2, <1>5, <1>6
  <2>2. \A x \in Cluster : fat'[x] # fat[x] \/ data'[x] # data[x] =>
            fat[x] = 0 \/ IsDirectory(data, x) \/ (a \in Cluster /\ InChain(ch, a, x))
    BY <1>1, <1>2
  <2>3. Slot(data, c, i) => Place(data, p, c, i) /\ NoneBelow(data, c, i)
    BY <1>2, <1>8
  <2>4. Slot(data', c, i) => Place(data', p, c, i) /\ NoneBelow(data', c, i)
    BY <1>7, <1>8
  <2>5. Concerns(ch, p, c, i, a)
    BY <2>1, <2>2, <2>3, <2>4 DEF Concerns
  <2> QED BY <1>3, <1>4, <2>5, OneStep
<1>10. p # NoPath
  BY PathShape
<1> QED BY <1>9, <1>10 DEF Result, Outcome

\* A removal cut short has given back clusters of p only.
LEMMA RemovalInterruptedSeen ==
  ASSUME NEW ch, Sound(fat, data, leaked, fds, ch), IInv', NEW p \in Path, Exists(p),
         EntryOf(p).dir => IsEmpty(EntryOf(p).first),
         RemovalInterrupted(p, Chain(fat, EntryOf(p).first))
  PROVE  Result
<1>1. PICK a, s : a = EntryOf(p).first /\ s = ch[a]
  OBVIOUS
<1>2. a \in Cluster /\ Chain(fat, a) = s /\ s \in Seq(Cluster)
  BY <1>1, PathIs
<1>3. PICK k \in 1..Len(s) : fat' = Released(fat, SubSeq(s, 1, k))
  BY <1>1, <1>2 DEF RemovalInterrupted
<1>4. data' = data /\ torn' = p
  BY DEF RemovalInterrupted
<1>5. ASSUME NEW x \in Cluster, ~ InChain(ch, a, x) PROVE fat'[x] = fat[x]
  <2>1. \A n \in 1..Len(s) : s[n] # x
    BY <1>1, <1>5 DEF InChain
  <2>2. k \in 0..Len(s) /\ 1 \in 1..2
    OBVIOUS
  <2>3. PICK part : part = SubSeq(s, 1, k)
    OBVIOUS
  <2>4. part \in Seq(Cluster) /\ \A j \in 1..Len(part) : \E n \in 1..Len(s) : part[j] = s[n]
    BY <1>2, <2>2, <2>3, PartIs, ZenonT(30)
  <2>5. \A j \in 1..Len(part) : part[j] # x
    BY <2>1, <2>4
  <2> QED BY <1>3, <2>3, <2>4, <2>5, ReleasedIs
<1>6. data \in Cells
  BY DEF Sound, SoundTree
<1>7. NoneBelow(data, DirOf(p), SlotOf(p))
  BY EmptyNone
<1> QED BY <1>1, <1>4, <1>5, <1>6, <1>7, LostStep

\* What a truncation does to the FAT: the first cluster ends the chain, the tail is free.
LEMMA CutIs ==
  ASSUME NEW f \in [Cluster -> FatEntry], NEW s \in Seq(Cluster), NEW a \in Cluster, Len(s) > 0, s[1] = a,
         NEW m \in 1..2, NEW k \in 0..Len(s),
         NEW x \in Cluster, \A n \in 1..Len(s) : s[n] # x
  PROVE  [Released(f, SubSeq(s, m, k)) EXCEPT ![a] = Eoc][x] = f[x]
<1>1. /\ SubSeq(s, m, k) \in Seq(Cluster)
      /\ \A j \in 1..Len(SubSeq(s, m, k)) : SubSeq(s, m, k)[j] # x
  BY PartIs
<1>2. Released(f, SubSeq(s, m, k))[x] = f[x]
  BY <1>1, ReleasedIs
<1>3. Released(f, SubSeq(s, m, k)) \in [Cluster -> FatEntry]
  BY ReleasedTyped
<1>4. x # a
  OBVIOUS
<1> QED BY <1>2, <1>3, <1>4

\* The chain after its first cluster
LEMMA TailIs ==
  ASSUME NEW s \in Seq(Cluster), Len(s) > 0
  PROVE  Tail(s) = SubSeq(s, 2, Len(s)) /\ Len(s) \in 0..Len(s)
<1>1. Len(s) \in Nat
  OBVIOUS
<1>2. Tail(s) \in Seq(Cluster) /\ Len(Tail(s)) = Len(s) - 1 /\ \A j \in 1..(Len(s) - 1) : Tail(s)[j] = s[j + 1]
  OBVIOUS
<1>3. /\ SubSeq(s, 2, Len(s)) \in Seq(Cluster) /\ Len(SubSeq(s, 2, Len(s))) = Len(s) - 1
      /\ \A j \in 1..(Len(s) - 1) : SubSeq(s, 2, Len(s))[j] = s[j + 1]
  <2>1. PICK n \in Nat : n = Len(s) /\ n > 0
    BY <1>1
  <2>2. 2 \in 1..(n + 1) /\ n \in (2 - 1)..n /\ 2 - 1 = 1
    BY <2>1
  <2>3. /\ SubSeq(s, 2, n) \in Seq(Cluster) /\ Len(SubSeq(s, 2, n)) = n - 2 + 1
        /\ \A j \in 1..(n - 2 + 1) : SubSeq(s, 2, n)[j] = s[2 + j - 1]
    BY <2>1, <2>2, SubSeqProperties
  <2>4. n - 2 + 1 = n - 1 /\ \A j \in 1..(n - 1) : 2 + j - 1 = j + 1
    BY <2>1
  <2> QED BY <2>1, <2>3, <2>4
<1> QED BY <1>1, <1>2, <1>3

\* A truncation cut short has changed clusters of p only.
LEMMA TruncationInterruptedSeen ==
  ASSUME NEW ch, Sound(fat, data, leaked, fds, ch), IInv', NEW p \in Path, TruncationInterrupted(p)
  PROVE  Result
<1>1. PICK a, s : a = EntryOf(p).first /\ s = ch[a]
  OBVIOUS
<1>2. Exists(p) /\ ~ EntryOf(p).dir /\ torn' = p
  BY DEF TruncationInterrupted, IsFile
<1>3. a \in Cluster /\ Chain(fat, a) = s /\ s \in Seq(Cluster) /\ Len(s) > 0 /\ s[1] = a /\ ~ IsDirectory(data, a)
  BY <1>1, <1>2, PathChain
<1>4. fat \in [Cluster -> FatEntry] /\ data \in Cells /\ SoundTree(data)
  BY DEF Sound, Layout, SoundTree
<1>5. \/ /\ \E k \in 1..(Len(s) - 1) : fat' = [Released(fat, SubSeq(s, 2, k)) EXCEPT ![a] = Eoc]
         /\ data' = data
      \/ /\ fat' = [Released(fat, SubSeq(s, 2, Len(s))) EXCEPT ![a] = Eoc]
         /\ data' = Zeroed(data, <<a>>)
  BY <1>1, <1>3, TailIs DEF TruncationInterrupted, Truncated
<1>6. ASSUME NEW x \in Cluster, ~ InChain(ch, a, x) PROVE fat'[x] = fat[x]
  <2>1. \A n \in 1..Len(s) : s[n] # x
    BY <1>1, <1>6 DEF InChain
  <2>2. PICK k \in 0..Len(s) : fat' = [Released(fat, SubSeq(s, 2, k)) EXCEPT ![a] = Eoc]
    <3>1. Len(s) \in 0..Len(s) /\ \A k \in 1..(Len(s) - 1) : k \in 0..Len(s)
      BY <1>3
    <3> QED BY <1>5, <3>1
  <2>3. 2 \in 1..2
    OBVIOUS
  <2> QED BY <1>3, <1>4, <2>1, <2>2, <2>3, CutIs
<1>7. data' \in Cells /\ \A x \in Cluster : x # a => data'[x] = data[x]
  <2>1. <<a>> \in Seq(Cluster) /\ \A x \in Cluster : x # a => \A j \in 1..Len(<<a>>) : <<a>>[j] # x
    BY <1>3
  <2>2. Zeroed(data, <<a>>) \in Cells /\ \A x \in Cluster : x # a => Zeroed(data, <<a>>)[x] = data[x]
    BY <1>4, <2>1, ZeroedIs, ZenonT(60)
  <2> QED BY <1>4, <1>5, <2>2
<1>8. InChain(ch, a, a)
  BY <1>1, <1>3 DEF InChain
<1>9. NoneBelow(data, DirOf(p), SlotOf(p))
  BY <1>2, EmptyNone
<1>10. \A x \in Cluster : fat'[x] # fat[x] \/ data'[x] # data[x] => InChain(ch, a, x)
  BY <1>6, <1>7, <1>8
<1>11. \A x \in Cluster : IsDirectory(data, x) => data'[x] = data[x]
  BY <1>3, <1>7
<1> QED BY <1>1, <1>2, <1>7, <1>9, <1>10, <1>11, LostStep

\* The paths below a directory are in its cluster.
LEMMA ChildPlace ==
  ASSUME NEW ch, Sound(fat, data, leaked, fds, ch), NEW p \in Path, Exists(p),
         NEW q \in Path, Exists(q), Len(q) > Len(p), SubSeq(q, 1, Len(p)) = p
  PROVE  EntryOf(p).dir /\ Slot(data, EntryOf(p).first, SlotOf(q))
<1>1. SoundTree(data)
  BY DEF Sound
<1>2. Len(p) = 1 /\ Len(q) = 2
  <2>1. Len(p) = 1 \/ Len(p) = 2
    BY PathShape
  <2>2. Len(q) = 1 \/ Len(q) = 2
    BY PathShape
  <2> QED BY ONLY <2>1, <2>2, Len(q) > Len(p)
<1>3. p = <<Last(p)>>
  BY <1>2, PathShape DEF OneName
<1>4. q = <<Head(q), Last(q)>>
  BY <1>2, PathShape DEF TwoNames
<1>5. Head(q) = Last(p)
  <2>1. q[1] = Head(q)
    BY <1>4
  <2>2. SubSeq(q, 1, 1)[1] = q[1]
    <3>1. \A k \in 1..1 : q[k] \in {q[1]}
      OBVIOUS
    <3>2. \A k \in 1..(1 - 1 + 1) : SubSeq(q, 1, 1)[k] = q[1 + k - 1]
      BY <3>1, SubSeqProperties
    <3> QED BY <3>2
  <2>3. p[1] = Last(p)
    BY <1>2 DEF Last
  <2> QED BY <1>2, <2>1, <2>2, <2>3
<1>6. Place(data, p, DirOf(p), SlotOf(p)) /\ Place(data, q, DirOf(q), SlotOf(q))
  BY <1>1, LookupsFind DEF Lookups
<1>7. DirOf(p) = Root /\ Slot(data, Root, SlotOf(p)) /\ data[Root][SlotOf(p)].name = Last(p)
      /\ data[Root][SlotOf(p)] = EntryOf(p)
  BY <1>2, <1>6, PathIs DEF Place
<1>8. PICK j \in Offset : /\ Slot(data, Root, j) /\ data[Root][j].dir
                          /\ data[Root][j].name = Head(q) /\ data[Root][j].first = DirOf(q)
  BY <1>2, <1>6 DEF Place
<1>9. j = SlotOf(p)
  BY <1>1, <1>5, <1>7, <1>8, ClusterFacts DEF SoundTree, NamedOnce, Slot
<1> QED BY <1>6, <1>7, <1>8, <1>9 DEF Place

\* A removal takes p away, and with a directory nothing that was below it.
LEMMA RemovedSeen ==
  ASSUME NEW ch, Sound(fat, data, leaked, fds, ch), Inked(fat, data, fds), IInv', NEW p \in Path,
         Exists(p), ~ InUse(p), EntryOf(p).dir => IsEmpty(EntryOf(p).first),
         fat' = Released(fat, Chain(fat, EntryOf(p).first)),
         data' = DeletedEntry(Forgotten(data, Chain(fat, EntryOf(p).first)), p),
         fds' = fds, torn' = NoPath
  PROVE  Result
<1>1. PICK c, i, a, s : c = DirOf(p) /\ i = SlotOf(p) /\ a = EntryOf(p).first /\ s = ch[a]
  OBVIOUS
<1>2. SoundTree(data) /\ data \in Cells /\ SoundTree(data') /\ fat' \in [Cluster -> FatEntry] /\ data' \in Cells
  BY AfterIs DEF Sound, SoundTree
<1>3. /\ Place(data, p, c, i) /\ Slot(data, c, i) /\ c \in Cluster /\ i \in Offset /\ IsDirectory(data, c)
      /\ data[c][i] = EntryOf(p) /\ a = data[c][i].first /\ a \in Cluster
      /\ Chain(fat, a) = s /\ s \in Seq(Cluster)
      /\ \A x \in Cluster, j \in Offset : Slot(data, x, j) /\ data[x][j].first = a => x = c /\ j = i
  BY <1>1, PathIs
<1>4. NoneBelow(data, c, i)
  BY <1>1, EmptyNone
<1>5. PICK e : e = PutCell(data, c, i, Deleted)
  OBVIOUS
<1>6. SoundTree(e) /\ Removed(data, e, c, i)
  <2>1. data[c][i].dir => \A j \in Offset : ~ Slot(data, data[c][i].first, j)
    BY <1>3, <1>4 DEF NoneBelow
  <2> QED BY <1>2, <1>3, <1>5, <2>1, RemoveTree
<1>7. PICK w \in Cells : w = Forgotten(data, s) /\ data' = PutCell(w, c, i, Deleted)
  <2>1. Forgotten(data, s) \in Cells
    BY <1>2, <1>3, ZeroedIs
  <2> QED BY <1>1, <1>3, <2>1 DEF DeletedEntry
<1>8. ASSUME NEW x \in Cluster, ~ InChain(ch, a, x)
      PROVE  w[x] = data[x] /\ fat'[x] = fat[x] /\ data'[x] = e[x]
  <2>1. \A k \in 1..Len(s) : s[k] # x
    BY <1>1, <1>8 DEF InChain
  <2>2. w[x] = data[x]
    BY <1>2, <1>3, <1>7, <2>1, ZeroedIs
  <2>3. fat'[x] = fat[x]
    BY <1>1, <1>3, <2>1, ReleasedIs
  <2>4. data'[x] = e[x]
    BY <1>2, <1>3, <1>5, <1>7, <2>2, PutSame, CellMembers
  <2> QED BY <2>2, <2>3, <2>4
<1>9. ASSUME NEW x \in Cluster, IsDirectory(e, x) PROVE data'[x] = e[x]
  <2>1. IsDirectory(data, x) /\ ~ (data[c][i].dir /\ a = x)
    BY <1>3, <1>6, <1>9 DEF Removed
  <2>2. IsDirectory(data, a) <=> data[c][i].dir
    BY <1>2, <1>3, SlotDirectory
  <2>3. ~ InChain(ch, a, x)
    BY <1>3, <2>1, <2>2, DirectoryChain
  <2> QED BY <1>8, <2>3
<1>10. SameDirectories(e, data')
  BY <1>2, <1>6, <1>9, SameTree
<1>11. ASSUME NEW x \in Cluster, NEW j \in Offset
       PROVE  /\ Slot(data', x, j) <=> Slot(data, x, j) /\ ~ (x = c /\ j = i)
              /\ Slot(data', x, j) => data'[x][j] = data[x][j]
  <2>1. Slot(data', x, j) <=> Slot(e, x, j)
    BY <1>10 DEF SameDirectories, Slot
  <2>2. Slot(e, x, j) => data'[x] = e[x]
    BY <1>10 DEF SameDirectories, Slot
  <2>3. Slot(e, x, j) <=> Slot(data, x, j) /\ ~ (x = c /\ j = i)
    BY <1>6 DEF Removed
  <2>4. ~ (x = c /\ j = i) => e[x][j] = data[x][j]
    BY <1>6 DEF Removed
  <2> QED BY <2>1, <2>2, <2>3, <2>4
<1>12. ~ Slot(data', c, i)
  BY <1>3, <1>11
<1>13. Concerns(ch, p, c, i, a)
  <2>1. ASSUME NEW x \in Cluster, fat'[x] # fat[x] \/ data'[x] # data[x]
        PROVE  IsDirectory(data, x) \/ (a \in Cluster /\ InChain(ch, a, x))
    <3>1. CASE x = c
      BY <1>3, <3>1
    <3>2. CASE x # c
      <4>1. e[x] = data[x]
        BY <1>2, <1>5, <3>2 DEF PutCell, Cells
      <4> QED BY <1>3, <1>8, <2>1, <4>1
    <3> QED BY <3>1, <3>2
  <2>2. \A x \in Cluster, j \in Offset : ~ (x = c /\ j = i) =>
           /\ Slot(data', x, j) <=> Slot(data, x, j)
           /\ Slot(data, x, j) => data'[x][j] = data[x][j] /\ data[x][j].first # a
    BY <1>3, <1>11
  <2> QED BY <1>3, <1>4, <1>12, <2>1, <2>2 DEF Concerns
<1>14. AllBefore({p}) /\ Others(ch, fat, data, fat', data', {<<c, i>>})
  BY <1>2, <1>13, OneStep
<1>15. Gone(p)
  <2>1. ~ Exists(p)'
    <3> SUFFICES ASSUME Exists(p)' PROVE FALSE
      OBVIOUS
    <3>1. PICK x, j : Place(data', p, x, j)
      BY <1>2, LookupsFindNext
    <3>2. Slot(data', x, j) /\ <<x, j>> # <<c, i>>
      BY <1>12, <3>1 DEF Place
    <3>3. PICK T : T = {<<c, i>>}
      OBVIOUS
    <3>4. Place(data, p, x, j)
      <4>1. Others(ch, fat, data, fat', data', T)
        BY <1>14, <3>3
      <4>2. <<x, j>> \notin T
        BY <3>2, <3>3
      <4> QED BY <3>1, <4>1, <4>2, OthersPlace
    <3>5. x = c /\ j = i
      BY <1>1, <1>2, <3>4, LookupsFind DEF Lookups
    <3> QED BY <3>2, <3>5
  <2>2. ASSUME NEW q \in Path, Len(q) > Len(p), SubSeq(q, 1, Len(p)) = p, Exists(q) PROVE FALSE
    <3>1. data[c][i].dir /\ Slot(data, a, SlotOf(q))
      BY <1>1, <1>3, <2>2, ChildPlace
    <3> QED BY <1>3, <1>4, <3>1 DEF NoneBelow, Slot
  <2> QED BY <2>1, <2>2 DEF Gone
<1>16. Inked(fat', data', fds')
  <2>1. PICK T : T = {<<c, i>>}
    OBVIOUS
  <2>2. \A x, j : <<x, j>> \in T <=> x = c /\ j = i
    BY <2>1
  <2>3. \A h \in Handle : fds[h].open => <<fds[h].dirCluster, fds[h].dirIndex>> \notin T
    BY <1>1, <2>2 DEF InUse, Uses
  <2>4. \A x \in Cluster, j \in Offset : <<x, j>> \in T => ~ Slot(data', x, j)
    BY <1>12, <2>2
  <2> QED BY <1>14, <2>1, <2>3, <2>4, InkedNext
<1> QED BY <1>14, <1>15, <1>16 DEF Result, Outcome

\* A file of size 0 shows no cells, and none of them need be written.
LEMMA NothingIs ==
  ASSUME NEW d, NEW s, NEW x, Reads(d, s, 0, x)
  PROVE  x = <<>>
BY DEF Reads

\* The same of the clusters of an empty file
LEMMA NothingInked ==
  ASSUME NEW f, NEW d, NEW a, NEW s, IsChain(f, a, s)
  PROVE  InkedTo(f, d, a, 0)
<1>1. Len(s) \in Nat
  BY DEF IsChain
<1>2. ASSUME NEW r \in 1..Len(s), NEW o \in Offset PROVE ~ (Spot(r, o) <= 0)
  <2>1. r \in Nat /\ r > 0
    BY <1>1
  <2>2. Spot(r, o) \in Nat /\ Spot(r, o) > 0
    BY <2>1, SpotFacts
  <2> QED BY <2>2
<1> QED BY <1>2, InkedIs

\* The chain of a file that has just been created or truncated
LEMMA OneCluster ==
  ASSUME NEW f, NEW a \in Cluster, f[a] = Eoc
  PROVE  IsChain(f, a, <<a>>) /\ Len(<<a>>) = 1 /\ <<a>>[1] = a
<1>1. <<a>> \in Seq(Cluster) /\ Len(<<a>>) = 1 /\ <<a>>[1] = a
  OBVIOUS
<1>2. \A i, j \in 1..Len(<<a>>) : i = j
  BY <1>1
<1> QED BY <1>1, <1>2 DEF IsChain, Once

\* The chain of the entry of a path, after a step.
LEMMA ShownNext ==
  ASSUME SoundTree(data'), fat' \in [Cluster -> FatEntry], NEW p \in Path, NEW c, NEW i,
         Place(data', p, c, i), NEW s, IsChain(fat', data'[c][i].first, s),
         data'[c][i].size <= Capacity(Len(s))
  PROVE  /\ Exists(p)' /\ EntryOf(p)' = data'[c][i]
         /\ Reads(data', s, data'[c][i].size, FileCells(p)')
<1>1. Exists(p)' /\ EntryOf(p)' = data'[c][i]
  BY LookupsFindNext
<1>2. data' \in Cells /\ data'[c][i].size \in 0..MaxSize
  BY SlotFields DEF SoundTree, Place
<1>3. Readable(p, s)'
  BY <1>1, <1>2 DEF Readable
<1> QED BY <1>1, <1>3, FileCellsIsNext

\* A creation makes p, empty, and a handle opened with it is at an empty file.
LEMMA CreatedSeen ==
  ASSUME NEW ch, Sound(fat, data, leaked, fds, ch), Inked(fat, data, fds), torn = NoPath, IInv',
         NEW p \in Path, NEW b \in BOOLEAN, b => Len(p) = 1, CreateEntry(p, b),
         \A g \in Handle : fds'[g].open =>
            fds'[g] = fds[g] \/ (fds'[g].first = NewCluster /\ fds'[g].size = 0)
  PROVE  Result
<1>1. /\ MayCreate(p) /\ Vacant(DirOf(p)) # {} /\ fat' = FatWithNew /\ data' = DataWithNew(p, b)
      /\ torn' = NoPath
  BY DEF CreateEntry
<1>2. PICK c, i, n : c = DirOf(p) /\ i = Min(Vacant(DirOf(p))) /\ n = NewCluster
  OBVIOUS
<1>3. PICK z, x : z = Zeroed(data, <<n>>) /\ x = Entry(Last(p), n, 0, b)
  OBVIOUS
<1>4. Sound(fat, z, leaked, fds, ch) /\ MayAdd(z, c, i, Last(p), n, 0, b)
  BY <1>1, <1>2, <1>3, CreateMayAdd
<1>5. SoundTree(data) /\ data \in Cells /\ SoundTree(z) /\ z \in Cells /\ fat \in [Cluster -> FatEntry]
  BY <1>4 DEF Sound, SoundTree, Layout
<1>6. SoundTree(data') /\ fat' \in [Cluster -> FatEntry] /\ data' \in Cells
  BY <1>1, AfterIs DEF SoundTree
<1>7. n \in Cluster /\ fat[n] = 0
  BY <1>1, <1>2, NewClusterIs
<1>8. n # Root /\ ~ FirstOf(data, n) /\ ~ IsDirectory(data, n)
  BY <1>7, FreeIsNew
<1>9. data' = PutCell(z, c, i, x)
  BY <1>1, <1>2, <1>3 DEF DataWithNew
<1>10. Added(z, data', c, i, Last(p), n, 0, b)
  BY <1>3, <1>4, <1>5, <1>9, AddTree
<1>11. \A y \in Cluster : y # n => z[y] = data[y]
  <2>1. <<n>> \in Seq(Cluster) /\ \A y \in Cluster : y # n => \A j \in 1..Len(<<n>>) : <<n>>[j] # y
    BY <1>7
  <2> QED BY <1>3, <1>5, <2>1, ZeroedIs, ZenonT(60)
<1>12. \A y \in Cluster : IsDirectory(data, y) => z[y] = data[y]
  BY <1>8, <1>11
<1>13. SameDirectories(data, z)
  BY <1>5, <1>12, SameTree
<1>14. c \in Cluster /\ i \in Offset /\ IsDirectory(data, c) /\ c # n
  <2>1. c \in Cluster /\ i \in Offset /\ IsDirectory(z, c)
    BY <1>4 DEF MayAdd
  <2> QED BY <1>8, <1>13, <2>1 DEF SameDirectories
<1>15. ASSUME NEW y \in Cluster, NEW j \in Offset
       PROVE  /\ Slot(data', y, j) <=> Slot(data, y, j) \/ (y = c /\ j = i)
              /\ Slot(data, y, j) => data'[y][j] = data[y][j] /\ ~ (y = c /\ j = i)
  <2>1. Slot(z, y, j) <=> Slot(data, y, j)
    BY <1>13 DEF SameDirectories, Slot
  <2>2. Slot(data, y, j) => z[y] = data[y]
    BY <1>13 DEF SameDirectories, Slot
  <2>3. /\ Slot(data', y, j) <=> Slot(z, y, j) \/ (y = c /\ j = i)
        /\ ~ (y = c /\ j = i) => data'[y][j] = z[y][j]
        /\ ~ Slot(z, c, i)
    BY <1>10 DEF Added
  <2> QED BY <2>1, <2>2, <2>3
<1>16. Slot(data', c, i) /\ ~ Slot(data, c, i) /\ data'[c][i] = x
  BY <1>3, <1>10, <1>14, <1>15 DEF Added
<1>17. x.name = Last(p) /\ x.first = n /\ x.size = 0 /\ x.dir = b
  BY <1>3, EntryFields
<1>18. Place(data', p, c, i)
  <2>1. DirOf(p) # 0
    BY <1>1 DEF MayCreate
  <2>2. \/ c = Root /\ Len(p) = 1
        \/ /\ Len(p) = 2
           /\ \E k \in Offset : /\ Slot(data, Root, k) /\ data[Root][k].dir
                                /\ data[Root][k].first = c /\ data[Root][k].name = Head(p)
    BY <1>2, <1>5, <2>1, PathPlace
  <2> QED BY <1>15, <1>16, <1>17, <2>2, ClusterFacts DEF Place
<1>19. NoneBelow(data', c, i)
  <2>1. \A j \in Offset : ~ Slot(data', n, j)
    BY <1>7, <1>8, <1>14, <1>15 DEF Slot
  <2> QED BY <1>16, <1>17, <2>1 DEF NoneBelow
<1>20. Concerns(ch, p, c, i, n)
  <2>1. ASSUME NEW y \in Cluster, fat'[y] # fat[y] \/ data'[y] # data[y]
        PROVE  fat[y] = 0 \/ IsDirectory(data, y)
    <3>1. CASE y = n
      BY <1>7, <3>1
    <3>2. CASE y = c
      BY <1>14, <3>2
    <3>3. CASE y # n /\ y # c
      <4>1. fat'[y] = fat[y]
        BY <1>1, <1>2, <1>5, <3>3 DEF FatWithNew
      <4>2. data'[y] = z[y]
        BY <1>5, <1>9, <3>3 DEF PutCell, Cells
      <4> QED BY <1>11, <2>1, <3>3, <4>1, <4>2
    <3> QED BY <3>1, <3>2, <3>3
  <2>2. \A y \in Cluster, j \in Offset : Slot(data, y, j) => data[y][j].first # n
    BY <1>8 DEF FirstOf
  <2>3. \A y \in Cluster, j \in Offset : ~ (y = c /\ j = i) =>
           /\ Slot(data', y, j) <=> Slot(data, y, j)
           /\ Slot(data, y, j) => data'[y][j] = data[y][j] /\ data[y][j].first # n
    BY <1>15, <2>2
  <2> QED BY <1>16, <1>18, <1>19, <2>1, <2>3 DEF Concerns
<1>21. AllBefore({p}) /\ Others(ch, fat, data, fat', data', {<<c, i>>})
  BY <1>6, <1>20, OneStep
<1>22. IsChain(fat', n, <<n>>) /\ Len(<<n>>) = 1
  <2>1. fat'[n] = Eoc
    BY <1>1, <1>2, <1>5, <1>7 DEF FatWithNew
  <2> QED BY <1>7, <2>1, OneCluster
<1>23. Made(p)
  <2>1. 0 <= Capacity(1)
    BY CapacityFacts
  <2>2. /\ Exists(p)' /\ EntryOf(p)' = x /\ Reads(data', <<n>>, 0, FileCells(p)')
    BY <1>6, <1>16, <1>17, <1>18, <1>22, <2>1, ShownNext, ZenonT(60)
  <2>3. ~ Exists(p)
    BY <1>1 DEF MayCreate
  <2> QED BY <2>2, <2>3, NothingIs DEF Made
<1>24. Inked(fat', data', fds')
  <2>1. InkedTo(fat', data', n, 0)
    BY <1>22, NothingInked
  <2>2. PICK T : T = {<<c, i>>}
    OBVIOUS
  <2>3. \A y, j : <<y, j>> \in T <=> y = c /\ j = i
    BY <2>2
  <2>4. ASSUME NEW g \in Handle, fds'[g].open
        PROVE  \/ InkedTo(fat', data', fds'[g].first, fds'[g].size)
               \/ /\ fds[g].open /\ fds'[g].first = fds[g].first /\ fds'[g].size = fds[g].size
                  /\ <<fds[g].dirCluster, fds[g].dirIndex>> \notin T
    <3>1. CASE fds'[g].first = NewCluster /\ fds'[g].size = 0
      BY <1>2, <2>1, <3>1
    <3>2. CASE fds'[g] = fds[g]
      <4>1. Slot(data, fds[g].dirCluster, fds[g].dirIndex)
        BY <2>4, <3>2 DEF Sound, Hands, InPlace
      <4>2. ~ (fds[g].dirCluster = c /\ fds[g].dirIndex = i)
        BY <1>16, <4>1
      <4> QED BY <2>3, <2>4, <3>2, <4>2
    <3> QED BY <2>4, <3>1, <3>2
  <2>5. \A y \in Cluster, j \in Offset : <<y, j>> \in T /\ Slot(data', y, j) /\ ~ data'[y][j].dir =>
            InkedTo(fat', data', data'[y][j].first, data'[y][j].size)
    BY <1>16, <1>17, <2>1, <2>3
  <2>6. Others(ch, fat, data, fat', data', T)
    BY <1>21, <2>2
  <2> QED BY <2>4, <2>5, <2>6, InkedNext
<1> QED BY <1>1, <1>21, <1>23, <1>24 DEF Result, Outcome

\* The entry at (c, i) stays that file's: only its size may change.
Retouched(d, e, c, i) ==
  /\ \A x \in Cluster, j \in Offset :
        /\ Slot(e, x, j) <=> Slot(d, x, j)
        /\ Slot(d, x, j) /\ ~ (x = c /\ j = i) => e[x][j] = d[x][j]
  /\ e[c][i].name = d[c][i].name /\ e[c][i].first = d[c][i].first /\ e[c][i].dir = d[c][i].dir

\* Only free clusters, directories and the file at a change.
Within(ch, a) ==
  \A x \in Cluster : fat'[x] # fat[x] \/ data'[x] # data[x] =>
     fat[x] = 0 \/ IsDirectory(data, x) \/ InChain(ch, a, x)

\* A step within the file p is seen at p alone.
LEMMA FileStep ==
  ASSUME NEW ch, Sound(fat, data, leaked, fds, ch), IInv', torn' = NoPath, NEW p \in Path,
         Exists(p), ~ EntryOf(p).dir, NEW c, NEW i, c = DirOf(p), i = SlotOf(p),
         Retouched(data, data', c, i), Within(ch, EntryOf(p).first)
  PROVE  /\ Place(data', p, c, i) /\ AllBefore({p})
         /\ Others(ch, fat, data, fat', data', {<<c, i>>})
<1>1. PICK a : a = EntryOf(p).first
  OBVIOUS
<1>2. SoundTree(data') /\ fat' \in [Cluster -> FatEntry]
  BY AfterIs
<1>3. /\ Place(data, p, c, i) /\ Slot(data, c, i) /\ data[c][i] = EntryOf(p)
      /\ c \in Cluster /\ i \in Offset /\ a \in Cluster
      /\ \A x \in Cluster, j \in Offset : Slot(data, x, j) /\ data[x][j].first = a => x = c /\ j = i
  BY <1>1, PathIs
<1>4. NoneBelow(data, c, i) /\ NoneBelow(data', c, i)
  BY <1>3 DEF NoneBelow, Retouched
<1>5. Place(data', p, c, i)
  <2>1. Slot(data', c, i) /\ data'[c][i].name = Last(p)
    BY <1>3 DEF Retouched, Place
  <2>2. \A j \in Offset : Slot(data, Root, j) /\ data[Root][j].dir =>
            Slot(data', Root, j) /\ data'[Root][j] = data[Root][j]
    BY <1>3, ClusterFacts DEF Retouched
  <2> QED BY <1>3, <2>1, <2>2 DEF Place
<1>6. Concerns(ch, p, c, i, a)
  <2>1. \A x \in Cluster, j \in Offset : ~ (x = c /\ j = i) =>
            /\ Slot(data', x, j) <=> Slot(data, x, j)
            /\ Slot(data, x, j) => data'[x][j] = data[x][j] /\ data[x][j].first # a
    BY <1>3 DEF Retouched
  <2>2. \A x \in Cluster : fat'[x] # fat[x] \/ data'[x] # data[x] =>
            fat[x] = 0 \/ IsDirectory(data, x) \/ (a \in Cluster /\ InChain(ch, a, x))
    BY <1>1, <1>3 DEF Within
  <2> QED BY <1>3, <1>4, <1>5, <2>1, <2>2 DEF Concerns
<1>7. AllBefore({p}) /\ Others(ch, fat, data, fat', data', {<<c, i>>})
  BY <1>2, <1>6, OneStep
<1> QED BY <1>5, <1>7

\* Handles on other files stay on files that are left alone.
LEMMA FileInked ==
  ASSUME NEW ch, Sound(fat, data, leaked, fds, ch), Inked(fat, data, fds), NEW c, NEW i,
         Others(ch, fat, data, fat', data', {<<c, i>>}),
         InkedTo(fat', data', data'[c][i].first, data'[c][i].size),
         \A g \in Handle : fds'[g].open =>
            \/ InkedTo(fat', data', fds'[g].first, fds'[g].size)
            \/ /\ fds[g].open /\ fds'[g].first = fds[g].first /\ fds'[g].size = fds[g].size
               /\ ~ (fds[g].dirCluster = c /\ fds[g].dirIndex = i)
  PROVE  Inked(fat', data', fds')
<1>1. PICK T : T = {<<c, i>>}
  OBVIOUS
<1>2. \A y, j : <<y, j>> \in T <=> y = c /\ j = i
  BY <1>1
<1>3. Others(ch, fat, data, fat', data', T)
  BY <1>1
<1>4. \A y \in Cluster, j \in Offset : <<y, j>> \in T /\ Slot(data', y, j) /\ ~ data'[y][j].dir =>
         InkedTo(fat', data', data'[y][j].first, data'[y][j].size)
  BY <1>2
<1>5. \A g \in Handle : fds'[g].open =>
         \/ InkedTo(fat', data', fds'[g].first, fds'[g].size)
         \/ /\ fds[g].open /\ fds'[g].first = fds[g].first /\ fds'[g].size = fds[g].size
            /\ <<fds[g].dirCluster, fds[g].dirIndex>> \notin T
  BY <1>2
<1> QED BY <1>3, <1>4, <1>5, InkedNext

\* A file that has kept its clusters and whose cells have changed in the stretch only.
GrownBy(ch, p, h, c, i, a, s) ==
  LET n == data[c][i].size
      k == data'[c][i].size
  IN  /\ IsChain(fat', a, s) /\ k <= Capacity(Len(s)) /\ n <= k
      /\ \A r \in 1..Len(ch[a]) : r \in 1..Len(s) /\ s[r] = ch[a][r]
      /\ InkedTo(fat', data', a, k)
      /\ Uses(h, p)
      /\ \A r \in 1..Len(ch[a]), o \in Offset :
            Spot(r, o) <= n /\ data'[ch[a][r]][o] # data[ch[a][r]][o] => InStretch(h, Spot(r, o))

\* A file grown in this way shows as grown.
LEMMA GrownIs ==
  ASSUME NEW ch, Sound(fat, data, leaked, fds, ch), IInv', torn' = NoPath, NEW p \in Path,
         Exists(p), ~ EntryOf(p).dir, NEW c, NEW i, NEW a,
         c = DirOf(p), i = SlotOf(p), a = EntryOf(p).first, Place(data', p, c, i),
         data'[c][i].first = a, ~ data'[c][i].dir, NEW h \in Handle, NEW s, GrownBy(ch, p, h, c, i, a, s)
  PROVE  Grown(p)
<1>1. PICK n, k, t : t = ch[a] /\ n = data[c][i].size /\ k = data'[c][i].size /\ EntryOf(p) = data[c][i]
  BY PathIs
<1>2. PICK x, y : x = FileCells(p) /\ y = FileCells(p)'
  OBVIOUS
<1>3. SoundTree(data') /\ fat' \in [Cluster -> FatEntry] /\ data' \in Cells
  BY AfterIs DEF SoundTree
<1>4. SoundTree(data) /\ data \in Cells /\ fat \in [Cluster -> FatEntry]
  BY DEF Sound, Layout, SoundTree
<1>5. n \in 0..MaxSize /\ n <= Capacity(Len(t)) /\ IsChain(fat, a, t) /\ Len(t) \in Nat
  BY <1>1, <1>4, PathSlot, PathIs, PathChain, SMTT(30)
<1>6. /\ IsChain(fat', a, s) /\ k <= Capacity(Len(s)) /\ n <= k
      /\ \A r \in 1..Len(t) : r \in 1..Len(s) /\ s[r] = t[r]
      /\ InkedTo(fat', data', a, k) /\ Uses(h, p)
      /\ \A r \in 1..Len(t), o \in Offset :
            Spot(r, o) <= n /\ data'[t[r]][o] # data[t[r]][o] => InStretch(h, Spot(r, o))
  BY <1>1, ZenonT(60) DEF GrownBy
<1>7. Exists(p)' /\ EntryOf(p)' = data'[c][i] /\ Reads(data', s, k, y)
  BY <1>1, <1>2, <1>3, <1>6, ShownNext, ZenonT(60)
<1>8. Reads(data, t, n, x)
  BY <1>1, <1>2, <1>4, <1>5, FileCellsIs DEF Readable
<1>9. k \in 0..MaxSize /\ k \in Nat /\ n \in Nat /\ MaxSize \in Nat
  BY <1>1, <1>3, <1>5, SlotFields, WriteAssumption DEF Place
<1>10. /\ x \in Seq(Cell) /\ Len(x) = n /\ y \in Seq(Cell) /\ Len(y) = k
  BY <1>7, <1>8 DEF Reads
<1>11. y \in Seq(Units)
  <2>1. ASSUME NEW m \in 1..k PROVE y[m] \in Units
    <3>1. m \in Nat /\ m > 0 /\ m <= Capacity(Len(s)) /\ Len(s) \in Nat
      <4>1. Len(s) \in Nat
        BY <1>6 DEF IsChain
      <4>2. Capacity(Len(s)) \in Nat
        BY <4>1, CapacityFacts
      <4> QED BY <1>6, <1>9, <4>1, <4>2
    <3>2. PICK r \in 1..Len(s), o \in Offset : m = Spot(r, o)
      BY <3>1, SpotExists
    <3>3. y[m] = data'[s[r]][o]
      BY <1>7, <3>2 DEF Reads
    <3>4. data'[s[r]][o] \in Units
      BY <1>6, <3>2, InkedIs
    <3> QED BY <3>3, <3>4
  <2> QED BY <1>9, <1>10, <2>1
<1>12. ASSUME NEW m \in 1..n, y[m] # x[m] PROVE InStretch(h, m)
  <2>1. m \in Nat /\ m > 0 /\ m <= Capacity(Len(t)) /\ m \in 1..k
    BY <1>5, <1>6, <1>9, CapacityFacts
  <2>2. PICK r \in 1..Len(t), o \in Offset : m = Spot(r, o)
    BY <1>5, <2>1, SpotExists
  <2>3. x[m] = data[t[r]][o]
    BY <1>8, <2>2 DEF Reads
  <2>4. y[m] = data'[t[r]][o]
    BY <1>6, <1>7, <2>1, <2>2 DEF Reads
  <2> QED BY <1>6, <1>12, <2>2, <2>3, <2>4
<1>13. ~ EntryOf(p)'.dir
  BY <1>1, <1>7
<1>14. k \in n..MaxSize
  BY <1>6, <1>9
<1> QED BY <1>2, <1>6, <1>7, <1>10, <1>11, <1>12, <1>13, <1>14 DEF Grown

\* A new size in the entry of a file, after changes outside the directories.
LEMMA RetouchedIs ==
  ASSUME NEW d, SoundTree(d), NEW w \in Cells, \A y \in Cluster : IsDirectory(d, y) => w[y] = d[y],
         NEW c, NEW i, Slot(d, c, i)
  PROVE  /\ Retouched(d, w, c, i)
         /\ \A k \in 0..MaxSize : \A x : x = Entry(d[c][i].name, d[c][i].first, k, d[c][i].dir) =>
               LET e == PutCell(w, c, i, x)
               IN  Retouched(d, e, c, i) /\ e[c][i].size = k /\ \A y \in Cluster : y # c => e[y] = w[y]
<1>1. SoundTree(w) /\ SameDirectories(d, w)
  BY SameTree
<1>2. \A x \in Cluster, j \in Offset : /\ Slot(w, x, j) <=> Slot(d, x, j)
                                       /\ Slot(d, x, j) => w[x] = d[x]
  BY <1>1 DEF SameDirectories, Slot
<1>3. c \in Cluster /\ i \in Offset /\ w[c] = d[c] /\ Slot(w, c, i)
  BY <1>2 DEF Slot
<1>4. Retouched(d, w, c, i)
  BY <1>2, <1>3 DEF Retouched
<1>5. ASSUME NEW k \in 0..MaxSize, NEW x, x = Entry(d[c][i].name, d[c][i].first, k, d[c][i].dir)
      PROVE  LET e == PutCell(w, c, i, x)
             IN  Retouched(d, e, c, i) /\ e[c][i].size = k /\ \A y \in Cluster : y # c => e[y] = w[y]
  <2>1. PICK e : e = PutCell(w, c, i, x)
    OBVIOUS
  <2>2. x = Entry(w[c][i].name, w[c][i].first, k, w[c][i].dir)
    BY <1>3, <1>5
  <2>3. Resized(w, e, c, i, k)
    BY <1>1, <1>3, <2>1, <2>2, ResizeTree
  <2>4. \A y \in Cluster : y # c => e[y] = w[y]
    BY <2>1 DEF PutCell, Cells
  <2>5. Retouched(d, e, c, i) /\ e[c][i].size = k
    BY <1>2, <1>3, <2>3 DEF Resized, Retouched
  <2> QED BY <2>1, <2>4, <2>5
<1> QED BY <1>4, <1>5

\* Opening with O_TRUNC empties the file.
LEMMA OpenTruncatedSeen ==
  ASSUME NEW ch, Sound(fat, data, leaked, fds, ch), Inked(fat, data, fds), IInv',
         NEW h \in Handle, NEW p \in Path, NEW flags \in Flags, torn = NoPath, OpenTruncated(h, p, flags)
  PROVE  Result
<1>1. PICK c, i, n, a, b : /\ c = DirOf(p) /\ i = SlotOf(p) /\ n = Last(p) /\ a = EntryOf(p).first
                           /\ b = EntryOf(p).dir
  OBVIOUS
<1>2. SoundTree(data) /\ data \in Cells /\ fat \in [Cluster -> FatEntry] /\ Exists(p) /\ ~ EntryOf(p).dir
      /\ torn' = NoPath
  BY DEF Sound, SoundTree, Layout, OpenTruncated, IsFile
<1>3. /\ Slot(data, c, i) /\ EntryOf(p) = data[c][i] /\ EntryOf(p) = Entry(n, a, EntryOf(p).size, b)
      /\ a \in Cluster /\ c \in Cluster /\ i \in Offset /\ data[c][i].name = n
      /\ data[c][i].first = a /\ data[c][i].dir = b /\ b \in BOOLEAN
  BY <1>1, <1>2, PathSlot DEF Slot
<1>4. PICK x : x = Entry(n, a, 0, b)
  OBVIOUS
<1>5. [EntryOf(p) EXCEPT !.size = 0] = x
  BY <1>3, <1>4 DEF Entry
<1>6. PICK s : s = ch[a]
  OBVIOUS
<1>7. Chain(fat, a) = s /\ s \in Seq(Cluster) /\ Len(s) > 0 /\ s[1] = a /\ ~ IsDirectory(data, a)
  BY <1>1, <1>2, <1>6, PathChain
<1>8. x.first = a /\ x.size = 0
  BY <1>3, <1>4, EntryFields
<1>9. PICK z \in {<<>>, <<a>>} : data' = PutCell(Zeroed(Forgotten(data, s), z), c, i, x)
  BY <1>1, <1>5, <1>7, <1>8 DEF OpenTruncated
<1>10. PICK w : w = Zeroed(Forgotten(data, s), z)
  OBVIOUS
<1>11. w \in Cells /\ \A y \in Cluster : ~ InChain(ch, a, y) => w[y] = data[y]
  <2>1. Forgotten(data, s) \in Cells
    BY <1>2, <1>7, ZeroedIs
  <2>2. z \in Seq(Cluster) /\ \A m \in 1..Len(z) : z[m] = a
    <3>1. CASE z = <<>>
      BY <3>1
    <3>2. CASE z = <<a>>
      BY <1>3, <3>2
    <3> QED BY <3>1, <3>2
  <2>3. w \in Cells
    BY <1>10, <2>1, <2>2, ZeroedIs
  <2>4. ASSUME NEW y \in Cluster, ~ InChain(ch, a, y) PROVE w[y] = data[y]
    <3>1. \A m \in 1..Len(s) : s[m] # y
      BY <1>6, <2>4 DEF InChain
    <3>2. Forgotten(data, s)[y] = data[y]
      BY <1>2, <1>7, <3>1, ZeroedIs
    <3>3. \A m \in 1..Len(z) : z[m] # y
      BY <1>7, <2>2, <3>1
    <3> QED BY <1>10, <2>1, <2>2, <3>2, <3>3, ZeroedIs
  <2> QED BY <2>3, <2>4
<1>12. \A y \in Cluster : IsDirectory(data, y) => w[y] = data[y]
  BY <1>3, <1>7, <1>11, DirectoryChain
<1>13. /\ Retouched(data, data', c, i) /\ data'[c][i].size = 0
       /\ \A y \in Cluster : y # c => data'[y] = w[y]
  <2>1. 0 \in 0..MaxSize
    BY WriteAssumption
  <2>2. x = Entry(data[c][i].name, data[c][i].first, 0, data[c][i].dir)
    BY <1>3, <1>4
  <2> QED BY <1>2, <1>3, <1>9, <1>10, <1>11, <1>12, <2>1, <2>2, RetouchedIs
<1>14. fat' = [Released(fat, SubSeq(s, 2, Len(s))) EXCEPT ![a] = Eoc]
  <2>1. fat' = Truncated(a)
    BY <1>5, <1>8 DEF OpenTruncated
  <2> QED BY <1>7, <2>1, TailIs DEF Truncated
<1>15. Within(ch, a)
  <2>1. ASSUME NEW y \in Cluster, ~ InChain(ch, a, y) PROVE fat'[y] = fat[y]
    <3>1. \A m \in 1..Len(s) : s[m] # y
      BY <1>6, <2>1 DEF InChain
    <3>2. 2 \in 1..2 /\ Len(s) \in 0..Len(s)
      BY <1>7
    <3> QED BY <1>2, <1>3, <1>7, <1>14, <3>1, <3>2, CutIs
  <2>2. IsDirectory(data, c)
    BY <1>3 DEF Slot
  <2> QED BY <1>11, <1>13, <2>1, <2>2 DEF Within
<1>16. /\ Place(data', p, c, i) /\ AllBefore({p})
       /\ Others(ch, fat, data, fat', data', {<<c, i>>})
  BY <1>1, <1>2, <1>13, <1>15, FileStep
<1>17. SoundTree(data') /\ fat' \in [Cluster -> FatEntry]
  BY <1>2, AfterIs
<1>18. IsChain(fat', a, <<a>>) /\ Len(<<a>>) = 1
  <2>1. fat'[a] = Eoc
    <3>1. s \in Seq(Cluster) /\ Len(s) \in 0..Len(s) /\ 2 \in 1..2
      BY <1>7
    <3>2. SubSeq(s, 2, Len(s)) \in Seq(Cluster)
      BY <3>1, PartIs
    <3>3. Released(fat, SubSeq(s, 2, Len(s))) \in [Cluster -> FatEntry]
      BY <1>2, <3>2, ReleasedTyped
    <3> QED BY <1>3, <1>14, <3>3
  <2> QED BY <1>3, <2>1, OneCluster
<1>19. data'[c][i].first = a /\ ~ data'[c][i].dir
  BY <1>2, <1>3, <1>13 DEF Retouched
<1>20. Emptied(p)
  <2>1. 0 <= Capacity(1)
    BY CapacityFacts
  <2>2. Exists(p)' /\ EntryOf(p)' = data'[c][i] /\ Reads(data', <<a>>, 0, FileCells(p)')
    BY <1>13, <1>16, <1>17, <1>18, <1>19, <2>1, ShownNext
  <2> QED BY <1>2, <1>19, <2>2, NothingIs DEF Emptied
<1>21. InkedTo(fat', data', a, 0)
  BY <1>18, NothingInked
<1>22. ASSUME NEW g \in Handle, fds'[g].open
       PROVE  \/ InkedTo(fat', data', fds'[g].first, fds'[g].size)
              \/ /\ fds[g].open /\ fds'[g].first = fds[g].first /\ fds'[g].size = fds[g].size
                 /\ ~ (fds[g].dirCluster = c /\ fds[g].dirIndex = i)
  <2>1. fds' = [fds EXCEPT ![h] = HandleOn(c, i, x, flags)] /\ fds \in [Handle -> {Closed} \cup File]
        /\ ~ InUse(p)
    BY <1>1, <1>5 DEF OpenTruncated, Sound, Hands
  <2>2. CASE g = h
    BY <1>8, <1>21, <2>1, <2>2 DEF HandleOn
  <2>3. CASE g # h
    <3>1. fds'[g] = fds[g]
      BY <2>1, <2>3
    <3>2. ~ Uses(g, p)
      BY <2>1 DEF InUse
    <3> QED BY <1>1, <1>2, <1>22, <3>1, <3>2 DEF Uses
  <2> QED BY <2>2, <2>3
<1>23. Inked(fat', data', fds')
  BY <1>13, <1>16, <1>19, <1>21, <1>22, FileInked
<1> QED BY <1>2, <1>16, <1>20, <1>23 DEF Result, Outcome

\* What holds up to m cells holds up to fewer.
LEMMA InkedLess ==
  ASSUME NEW f, NEW d, NEW a, NEW s, IsChain(f, a, s), NEW m \in Nat, NEW n \in Nat, n <= m,
         InkedTo(f, d, a, m)
  PROVE  InkedTo(f, d, a, n)
<1>1. Len(s) \in Nat
  BY DEF IsChain
<1>2. ASSUME NEW r \in 1..Len(s), NEW o \in Offset, Spot(r, o) <= n PROVE d[s[r]][o] \in Units
  <2>1. r \in Nat /\ r > 0
    BY <1>1
  <2>2. Spot(r, o) \in Nat
    BY <2>1, SpotFacts
  <2>3. Spot(r, o) <= m
    BY <1>2, <2>2
  <2> QED BY <2>3, InkedIs
<1> QED BY <1>2, InkedIs

\* A step through handle h, which leaves the chain s and m written cells.
Through(ch, h, c, i, a, s, m) ==
  LET n == data[c][i].size
      k == data'[c][i].size
  IN  /\ c = fds[h].dirCluster /\ i = fds[h].dirIndex /\ a = fds[h].first
      /\ Retouched(data, data', c, i) /\ Within(ch, a)
      /\ IsChain(fat', a, s) /\ \A r \in 1..Len(ch[a]) : r \in 1..Len(s) /\ s[r] = ch[a][r]
      /\ k <= Capacity(Len(s)) /\ n <= k /\ k <= m
      /\ InkedTo(fat', data', a, m)
      /\ \A r \in 1..Len(ch[a]), o \in Offset :
            Spot(r, o) <= n /\ data'[ch[a][r]][o] # data[ch[a][r]][o] => InStretch(h, Spot(r, o))
      /\ \A g \in Handle : fds'[g].open =>
            \/ fds'[g].first = a /\ fds'[g].size \in Nat /\ fds'[g].size <= m
            \/ /\ fds[g].open /\ fds'[g].first = fds[g].first /\ fds'[g].size = fds[g].size
               /\ ~ (fds[g].dirCluster = c /\ fds[g].dirIndex = i)

\* Such a step is seen as the growth of the handle's file.
LEMMA ThroughSeen ==
  ASSUME NEW ch, Sound(fat, data, leaked, fds, ch), Inked(fat, data, fds), IInv', torn' = NoPath,
         NEW h \in Handle, fds[h].open, NEW c, NEW i, NEW a, NEW s, NEW m \in Nat, Through(ch, h, c, i, a, s, m)
  PROVE  Result
<1>1. c = fds[h].dirCluster /\ i = fds[h].dirIndex /\ a = fds[h].first
  BY DEF Through
<1>2. SoundTree(data)
  BY DEF Sound
<1>3. Slot(data, c, i) /\ data[c][i].first = a /\ ~ data[c][i].dir
  BY <1>1, HandleFacts DEF InPlace
<1>4. PICK p \in Path : Exists(p) /\ DirOf(p) = c /\ SlotOf(p) = i /\ EntryOf(p) = data[c][i]
  BY <1>2, <1>3, SlotPath, SMTT(30)
<1>5. /\ Retouched(data, data', c, i) /\ Within(ch, a) /\ IsChain(fat', a, s)
      /\ data'[c][i].size <= m /\ InkedTo(fat', data', a, m)
  BY <1>1 DEF Through
<1>6. /\ Place(data', p, c, i) /\ AllBefore({p})
      /\ Others(ch, fat, data, fat', data', {<<c, i>>})
  BY <1>3, <1>4, <1>5, FileStep
<1>7. SoundTree(data') /\ fat' \in [Cluster -> FatEntry] /\ data' \in Cells
  BY AfterIs DEF SoundTree
<1>8. data'[c][i].size \in Nat
  BY <1>6, <1>7, SlotFields DEF Place
<1>9. data'[c][i].first = a /\ ~ data'[c][i].dir
  BY <1>3, <1>5 DEF Retouched
<1>10. InkedTo(fat', data', a, data'[c][i].size)
  BY <1>5, <1>8, InkedLess
<1>11. Uses(h, p)
  BY <1>1, <1>4, SMTT(30) DEF Uses
<1>12. GrownBy(ch, p, h, c, i, a, s)
  BY <1>10, <1>11, Zenon DEF Through, GrownBy
<1>13. Grown(p)
  BY <1>3, <1>4, <1>6, <1>9, <1>12, GrownIs
<1>14. ASSUME NEW g \in Handle, fds'[g].open
       PROVE  \/ InkedTo(fat', data', fds'[g].first, fds'[g].size)
              \/ /\ fds[g].open /\ fds'[g].first = fds[g].first /\ fds'[g].size = fds[g].size
                 /\ ~ (fds[g].dirCluster = c /\ fds[g].dirIndex = i)
  <2>1. \/ fds'[g].first = a /\ fds'[g].size \in Nat /\ fds'[g].size <= m
        \/ /\ fds[g].open /\ fds'[g].first = fds[g].first /\ fds'[g].size = fds[g].size
           /\ ~ (fds[g].dirCluster = c /\ fds[g].dirIndex = i)
    BY <1>1, <1>14 DEF Through
  <2>2. CASE fds'[g].first = a /\ fds'[g].size \in Nat /\ fds'[g].size <= m
    BY <1>5, <2>2, InkedLess
  <2> QED BY <2>1, <2>2
<1>15. Inked(fat', data', fds')
  <2>1. InkedTo(fat', data', data'[c][i].first, data'[c][i].size)
    BY <1>9, <1>10
  <2>2. Others(ch, fat, data, fat', data', {<<c, i>>})
    BY <1>6, SMTT(30)
  <2> QED BY <1>14, <2>1, <2>2, FileInked
<1> QED BY <1>6, <1>13, <1>15 DEF Result, Outcome

\* The entry that closing and writing put in the directory.
LEMMA UpdatedIs ==
  ASSUME NEW d \in Cells, NEW x, Slot(d, x.dirCluster, x.dirIndex),
         d[x.dirCluster][x.dirIndex].first = x.first
  PROVE  LET c == x.dirCluster
             i == x.dirIndex
         IN  UpdatedEntry(d, x) = PutCell(d, c, i, Entry(d[c][i].name, d[c][i].first, x.size, d[c][i].dir))
<1>1. PICK c, i, k : c = x.dirCluster /\ i = x.dirIndex /\ k = x.size
  OBVIOUS
<1>2. PICK y, z : y = d[c][i] /\ z = [y EXCEPT !.first = x.first, !.size = x.size]
  BY Zenon
<1>3. y = Entry(y.name, y.first, y.size, y.dir)
  <2>1. y \in Cell
    BY <1>1, <1>2 DEF Cells, Slot
  <2> QED BY <1>1, <1>2, <2>1, CellKinds DEF Slot
<1>4. z = Entry(y.name, y.first, k, y.dir)
  <2>1. PICK n, a, s, b : n = y.name /\ a = y.first /\ s = y.size /\ b = y.dir
    OBVIOUS
  <2>2. y = Entry(n, a, s, b) /\ x.first = a
    BY <1>1, <1>2, <1>3, <2>1
  <2>3. z = [Entry(n, a, s, b) EXCEPT !.first = a, !.size = k]
    BY <1>1, <1>2, <2>2
  <2>4. z = Entry(n, a, k, b)
    BY <2>3 DEF Entry
  <2> QED BY <2>1, <2>4
<1>5. UpdatedEntry(d, x) = PutCell(d, c, i, z)
  BY <1>1, <1>2 DEF UpdatedEntry
<1> QED BY <1>1, <1>2, <1>4, <1>5, Zenon

\* A close that writes the entry shows what the writes before it had put into the chain.
LEMMA CloseRecordedSeen ==
  ASSUME NEW ch, Sound(fat, data, leaked, fds, ch), Inked(fat, data, fds), torn = NoPath, IInv',
         NEW h \in Handle, Pclose(h), data' = UpdatedEntry(data, fds[h])
  PROVE  Result
<1>1. /\ fds[h].open /\ fat' = fat /\ torn' = NoPath /\ fds' = [fds EXCEPT ![h] = Closed]
  BY DEF Pclose
<1>2. PICK x, c, i, a, s, k : x = fds[h] /\ c = x.dirCluster /\ i = x.dirIndex /\ a = x.first /\ s = ch[a] /\ k = x.size
  OBVIOUS
<1>3. /\ Slot(data, c, i) /\ data[c][i].first = a /\ data[c][i].size <= k
      /\ k \in Nat /\ k <= MaxSize /\ k <= Capacity(Len(s)) /\ a \in Cluster /\ s # <<>> /\ ~ IsDirectory(data, a)
      /\ Len(s) \in Nat
  BY <1>1, <1>2, HandleFacts DEF InPlace
<1>4. SoundTree(data) /\ data \in Cells /\ Layout(fat, ch) /\ fds \in [Handle -> {Closed} \cup File]
  BY DEF Sound, SoundTree, Hands
<1>5. IsChain(fat', a, s)
  BY <1>1, <1>2, <1>3, <1>4, ChainFacts
<1>6. k \in 0..MaxSize
  BY <1>3, WriteAssumption
<1>7. /\ Retouched(data, data', c, i) /\ data'[c][i].size = k
      /\ \A y \in Cluster : y # c => data'[y] = data[y]
  <2>1. data' = PutCell(data, c, i, Entry(data[c][i].name, data[c][i].first, k, data[c][i].dir))
    BY <1>2, <1>3, <1>4, UpdatedIs
  <2> QED BY <1>3, <1>4, <1>6, <2>1, RetouchedIs
<1>8. Within(ch, a)
  BY <1>1, <1>3, <1>7 DEF Within, Slot
<1>9. ASSUME NEW r \in 1..Len(s) PROVE data'[s[r]] = data[s[r]]
  <2>1. s[r] \in Cluster /\ InChain(ch, a, s[r])
    BY <1>2, <1>3, <1>4, ChainFacts DEF InChain
  <2>2. s[r] # c
    BY <1>3, <2>1, DirectoryChain DEF Slot
  <2> QED BY <1>7, <2>1, <2>2
<1>10. InkedTo(fat', data', a, k)
  <2>1. InkedTo(fat, data, a, k)
    BY <1>1, <1>2 DEF Inked
  <2>2. Same(s, fat, data, fat', data')
    BY <1>1, <1>9 DEF Same
  <2> QED BY <1>1, <1>5, <2>1, <2>2, InkedSame
<1>11. ASSUME NEW g \in Handle, fds'[g].open
       PROVE  \/ fds'[g].first = a /\ fds'[g].size \in Nat /\ fds'[g].size <= k
              \/ /\ fds[g].open /\ fds'[g].first = fds[g].first /\ fds'[g].size = fds[g].size
                 /\ ~ (fds[g].dirCluster = c /\ fds[g].dirIndex = i)
  <2>1. g # h /\ fds'[g] = fds[g]
    BY <1>1, <1>4, <1>11 DEF Closed
  <2>2. CASE fds[g].dirCluster = c /\ fds[g].dirIndex = i
    <3>1. fds[g].size = k
      BY <1>1, <1>2, <1>11, <2>1, <2>2 DEF Sound, Hands, Agree
    <3>2. fds[g].first = a
      BY <1>3, <1>11, <2>1, <2>2, HandleFacts, SMTT(30)
    <3> QED BY <1>3, <2>1, <3>1, <3>2
  <2> QED BY <1>11, <2>1, <2>2
<1>12. Through(ch, h, c, i, a, s, k)
  <2>1. k <= k
    BY <1>3
  <2> QED BY <1>2, <1>3, <1>5, <1>7, <1>8, <1>9, <1>10, <1>11, <2>1, Zenon DEF Through
<1> QED BY <1>1, <1>3, <1>12, ThroughSeen

\* Each cell of the chain takes the unit that is written there, or stays.
LEMMA PutCellsAre ==
  ASSUME NEW d \in Cells, NEW chain \in Seq(Cluster), Once(chain), NEW pos \in Nat, NEW new \in Seq(Cell),
         NEW r \in 1..Len(chain), NEW o \in Offset
  PROVE  PutCells(d, chain, pos, new)[chain[r]][o] =
            IF pos < Spot(r, o) /\ Spot(r, o) <= pos + Len(new) THEN new[Spot(r, o) - pos]
            ELSE d[chain[r]][o]
<1> DEFINE js(c) == {j \in 1..Len(chain) : chain[j] = c}
           at(c, i) == Capacity((CHOOSE j \in js(c) : TRUE) - 1) + i - 1
           put(c, i) == js(c) # {} /\ at(c, i) >= pos /\ at(c, i) < pos + Len(new)
           val(c, i) == IF put(c, i) THEN new[at(c, i) - pos + 1] ELSE d[c][i]
<1>1. PutCells(d, chain, pos, new) = [c \in Cluster |-> [i \in Offset |-> val(c, i)]]
  BY DEF PutCells
<1>2. PICK c : c = chain[r] /\ c \in Cluster
  BY ElementOfSeq
<1>3. PICK j : j = CHOOSE k \in js(c) : TRUE
  OBVIOUS
<1>4. js(c) # {} /\ j \in js(c)
  BY <1>2, <1>3
<1>5. j = r
  BY <1>2, <1>4 DEF Once
<1>6. PICK x : x = Spot(r, o)
  OBVIOUS
<1>7. x \in Nat /\ x > 0 /\ Len(new) \in Nat
  <2>1. r \in Nat /\ r > 0 /\ Len(new) \in Nat
    OBVIOUS
  <2> QED BY <1>6, <2>1, SpotFacts
<1>8. at(c, o) = x - 1
  <2>1. r - 1 \in Nat /\ o \in Nat
    BY ClusterFacts
  <2>2. Capacity(r - 1) \in Nat
    BY <2>1, CapacityFacts
  <2>3. at(c, o) = Capacity(j - 1) + o - 1
    BY <1>3
  <2> HIDE DEF at
  <2> QED BY <1>5, <1>6, <2>1, <2>2, <2>3 DEF Spot
<1>9. put(c, o) <=> pos < x /\ x <= pos + Len(new)
  <2> HIDE DEF at, js
  <2> QED BY <1>4, <1>7, <1>8
<1>10. val(c, o) = IF pos < x /\ x <= pos + Len(new) THEN new[x - pos] ELSE d[c][o]
  <2>1. x - 1 - pos + 1 = x - pos
    BY <1>7
  <2> HIDE DEF at, put
  <2> QED BY <1>8, <1>9, <2>1
<1>11. PutCells(d, chain, pos, new)[c][o] = val(c, o)
  <2> HIDE DEF val
  <2> QED BY <1>1, <1>2
<1> HIDE DEF val
<1> QED BY <1>2, <1>6, <1>10, <1>11

\* What a write at pos leaves of the file at a, whose clusters t have become s.
StoredAs(ch, a, t, k, pos, new, s, g, e) ==
  /\ IsChain(g, a, s) /\ Len(s) = Len(t) + k /\ e \in Cells
  /\ \A r \in 1..Len(t) : r \in 1..Len(s) /\ s[r] = t[r]
  /\ \A y \in Cluster : g[y] # fat[y] \/ e[y] # data[y] => fat[y] = 0 \/ InChain(ch, a, y)
  /\ \A r \in 1..Len(s), o \in Offset :
        pos < Spot(r, o) /\ Spot(r, o) <= pos + Len(new) => e[s[r]][o] = new[Spot(r, o) - pos]
  /\ \A r \in 1..Len(t), o \in Offset :
        ~ (pos < Spot(r, o) /\ Spot(r, o) <= pos + Len(new)) => e[s[r]][o] = data[s[r]][o]

\* So a write leaves it.
LEMMA StoredIs ==
  ASSUME NEW ch, Sound(fat, data, leaked, fds, ch), NEW a \in Cluster, ch[a] # <<>>,
         NEW k \in Nat, k <= Len(FreeInOrder(fat)), NEW pos \in Nat, NEW new \in Seq(Cell)
  PROVE  StoredAs(ch, a, ch[a], k, pos, new, ch[a] \o More(k), GrownFat(ch, a, k),
                  Written(ch, a, k, pos, new))
<1>1. PICK free, more, t : free = FreeInOrder(fat) /\ more = SubSeq(free, 1, k) /\ t = ch[a]
  OBVIOUS
<1>2. PICK s, g : s = t \o more /\ g = Linked(fat, t, more)
  OBVIOUS
<1>3. PICK z, e : z = Zeroed(data, more) /\ e = PutCells(z, s, pos, new)
  OBVIOUS
<1>4. Layout(fat, ch) /\ data \in Cells /\ fat \in [Cluster -> FatEntry]
  BY DEF Sound, SoundTree, Layout
<1>5. t \in Seq(Cluster) /\ Len(t) \in Nat /\ Len(t) > 0 /\ IsChain(fat, a, t)
  BY <1>1, <1>4, ChainFacts
<1>6. free \in Seq(Cluster) /\ Once(free) /\ (\A m \in 1..Len(free) : fat[free[m]] = 0)
  BY <1>1, FreeClusters
<1>7. more \in Seq(Cluster) /\ Len(more) = k /\ (\A m \in 1..Len(more) : more[m] = free[m])
  BY <1>1, <1>6
<1>8. Once(more) /\ (\A m \in 1..Len(more) : fat[more[m]] = 0 /\ more[m] \in Cluster)
  <2>1. \A m \in 1..Len(more) : m \in 1..Len(free)
    BY <1>1, <1>6, <1>7
  <2>2. \A m \in 1..Len(more) : more[m] \in Cluster
    BY <1>7, ElementOfSeq
  <2> QED BY <1>6, <1>7, <2>1, <2>2 DEF Once
<1>9. /\ s \in Seq(Cluster) /\ Len(s) = Len(t) + k /\ s # <<>> /\ Len(s) \in Nat
      /\ \A m \in 1..Len(s) : s[m] = IF m <= Len(t) THEN t[m] ELSE more[m - Len(t)]
  <2>1. t \in Seq(Cluster) /\ more \in Seq(Cluster) /\ s = t \o more /\ Len(t) \in Nat /\ Len(t) > 0
    BY <1>2, <1>5, <1>7
  <2>2. /\ s \in Seq(Cluster) /\ Len(s) = Len(t) + Len(more)
        /\ \A m \in 1..Len(s) : s[m] = IF m <= Len(t) THEN t[m] ELSE more[m - Len(t)]
    BY <2>1
  <2>3. Len(more) = k
    BY <1>7
  <2>4. s # <<>> /\ Len(s) \in Nat
    BY <2>1, <2>2
  <2> QED BY <2>2, <2>3, <2>4
<1>10. Rewired(fat, ch, a, s, g)
  <2>1. ch[a] = t
    BY <1>1
  <2> QED BY <1>2, <1>4, <1>7, <1>8, <2>1, LinkRewires
<1>11. IsChain(g, a, s)
  <2>1. Len(s) > 0
    BY <1>5, <1>9
  <2> QED BY <1>9, <1>10, <2>1 DEF Rewired, IsChain
<1>12. z \in Cells /\ e \in Cells
  <2>1. z \in Cells
    BY <1>3, <1>4, <1>7, ZeroedIs
  <2> QED BY <1>3, <1>9, <2>1, PutCellsIs
<1>13. ASSUME NEW y \in Cluster, fat[y] # 0, ~ InChain(ch, a, y) PROVE g[y] = fat[y] /\ e[y] = data[y]
  <2>1. \A m \in 1..Len(s) : s[m] # y
    <3>1. \A m \in 1..Len(s) : fat[s[m]] = 0 \/ InChain(ch, a, s[m])
      BY <1>10 DEF Rewired
    <3> QED BY <1>13, <3>1
  <2>2. \A m \in 1..Len(more) : more[m] # y
    BY <1>8, <1>13
  <2>3. z[y] = data[y]
    BY <1>3, <1>4, <1>7, <2>2, ZeroedIs
  <2>4. e[y] = z[y]
    <3>1. s \in Seq(Cluster) /\ z \in Cells /\ e = PutCells(z, s, pos, new)
      BY <1>3, <1>9, <1>12
    <3>2. PutCells(z, s, pos, new)[y] = z[y]
      BY <2>1, <3>1, PutCellsIs
    <3> QED BY <3>1, <3>2
  <2>5. g[y] = fat[y]
    BY <1>10, <1>13, <2>1 DEF Rewired
  <2> QED BY <2>3, <2>4, <2>5
<1>14. \A r \in 1..Len(t) : r \in 1..Len(s) /\ s[r] = t[r]
  BY <1>5, <1>9
<1>15. Once(s)
  BY <1>11 DEF IsChain
<1>16. ASSUME NEW r \in 1..Len(s), NEW o \in Offset
       PROVE  e[s[r]][o] = IF pos < Spot(r, o) /\ Spot(r, o) <= pos + Len(new) THEN new[Spot(r, o) - pos]
                           ELSE z[s[r]][o]
  BY <1>3, <1>9, <1>12, <1>15, PutCellsAre, SMTT(30)
<1>17. ASSUME NEW r \in 1..Len(t), NEW o \in Offset, ~ (pos < Spot(r, o) /\ Spot(r, o) <= pos + Len(new))
       PROVE  e[s[r]][o] = data[s[r]][o]
  <2>1. r \in 1..Len(s) /\ s[r] = t[r] /\ s[r] \in Cluster
    BY <1>5, <1>14, ElementOfSeq
  <2>2. fat[t[r]] # 0
    BY <1>1, <1>4, ChainFacts DEF InChain
  <2>3. \A m \in 1..Len(more) : more[m] # s[r]
    BY <1>8, <2>1, <2>2
  <2>4. z[s[r]] = data[s[r]]
    BY <1>3, <1>4, <1>7, <2>1, <2>3, ZeroedIs
  <2> QED BY <1>16, <1>17, <2>1, <2>4
<1>18. \A r \in 1..Len(s), o \in Offset :
          pos < Spot(r, o) /\ Spot(r, o) <= pos + Len(new) => e[s[r]][o] = new[Spot(r, o) - pos]
  BY <1>16
<1>19. t \o More(k) = s /\ GrownFat(ch, a, k) = g /\ Written(ch, a, k, pos, new) = e
  BY <1>1, <1>2, <1>3 DEF More, GrownFat, Written
<1>20. StoredAs(ch, a, t, k, pos, new, s, g, e)
  BY <1>9, <1>11, <1>12, <1>13, <1>14, <1>17, <1>18 DEF StoredAs
<1> QED BY <1>1, <1>19, <1>20

\* A write of units at pos, up to the end of the file or beyond, as it leaves FAT and cells:
\* m cells of the file are written.
Stores(ch, h, k, pos, new, m) ==
  /\ fds[h].open /\ k \in Nat /\ k <= Len(FreeInOrder(fat))
  /\ pos = AppendPosition(fds[h]) /\ new \in Seq(Units) /\ Len(new) <= MaxWrite
  /\ m \in Nat /\ fds[h].size <= m /\ m <= Capacity(Len(ch[fds[h].first]) + k)
  /\ m = fds[h].size \/ m = pos + Len(new)
  /\ fat' = GrownFat(ch, fds[h].first, k)
  /\ \/ data' = Written(ch, fds[h].first, k, pos, new)
     \/ \E x : /\ x.dirCluster = fds[h].dirCluster /\ x.dirIndex = fds[h].dirIndex
               /\ x.first = fds[h].first /\ x.size = m /\ m <= MaxSize
               /\ data' = UpdatedEntry(Written(ch, fds[h].first, k, pos, new), x)
  /\ fds'[h].first = fds[h].first /\ fds'[h].size \in Nat /\ fds'[h].size <= m
  /\ \A g \in Handle \ {h} : fds'[g] = fds[g]

\* Such a write is seen in its file alone, within the stretch that it covers.
LEMMA StoresSeen ==
  ASSUME NEW ch, Sound(fat, data, leaked, fds, ch), Inked(fat, data, fds), IInv', torn' = NoPath,
         NEW h \in Handle, Alone(h), NEW k, NEW pos, NEW new, NEW m, Stores(ch, h, k, pos, new, m)
  PROVE  Result
<1>1. PICK x, c, i, a, t, n : /\ x = fds[h] /\ c = x.dirCluster /\ i = x.dirIndex /\ a = x.first /\ t = ch[a]
                              /\ n = data[c][i].size
  OBVIOUS
<1>2. PICK s, w : s = t \o More(k) /\ w = Written(ch, a, k, pos, new)
  OBVIOUS
<1>3. /\ x.open /\ k \in Nat /\ k <= Len(FreeInOrder(fat)) /\ pos = AppendPosition(x) /\ new \in Seq(Units)
      /\ Len(new) <= MaxWrite /\ m \in Nat /\ x.size <= m /\ m <= Capacity(Len(t) + k)
      /\ m = x.size \/ m = pos + Len(new)
      /\ fat' = GrownFat(ch, a, k)
      /\ \/ data' = w
         \/ \E y : /\ y.dirCluster = c /\ y.dirIndex = i /\ y.first = a /\ y.size = m /\ m <= MaxSize
                   /\ data' = UpdatedEntry(w, y)
      /\ fds'[h].first = a /\ fds'[h].size \in Nat /\ fds'[h].size <= m
      /\ \A g \in Handle \ {h} : fds'[g] = fds[g]
  BY <1>1, <1>2, SMTT(30) DEF Stores
<1>4. /\ Slot(data, c, i) /\ data[c][i].first = a /\ a \in Cluster /\ t # <<>> /\ Len(t) \in Nat
      /\ ~ IsDirectory(data, a) /\ x.size \in Nat /\ x.pos \in Nat /\ x.pos <= x.size
      /\ n <= x.size /\ x.size <= Capacity(Len(t)) /\ c \in Cluster /\ i \in Offset /\ IsDirectory(data, c)
  BY <1>1, <1>3, HandleFacts DEF InPlace, Slot
<1>5. pos \in Nat /\ pos <= x.size
  BY <1>3, <1>4 DEF AppendPosition
<1>6. SoundTree(data) /\ data \in Cells /\ Layout(fat, ch) /\ n \in Nat
  BY <1>1, <1>4, SlotFields DEF Sound, SoundTree
<1>7. new \in Seq(Cell) /\ Len(new) \in Nat /\ \A j \in 1..Len(new) : new[j] \in Units
  <2>1. Units \subseteq Cell
    BY DEF Units, Cell
  <2> QED BY <1>3, <2>1, ElementOfSeq
<1>8. /\ IsChain(fat', a, s) /\ Len(s) = Len(t) + k /\ w \in Cells
      /\ \A r \in 1..Len(t) : r \in 1..Len(s) /\ s[r] = t[r]
      /\ \A y \in Cluster : fat'[y] # fat[y] \/ w[y] # data[y] => fat[y] = 0 \/ InChain(ch, a, y)
      /\ \A r \in 1..Len(s), o \in Offset :
            pos < Spot(r, o) /\ Spot(r, o) <= pos + Len(new) => w[s[r]][o] = new[Spot(r, o) - pos]
      /\ \A r \in 1..Len(t), o \in Offset :
            ~ (pos < Spot(r, o) /\ Spot(r, o) <= pos + Len(new)) => w[s[r]][o] = data[s[r]][o]
  <2>1. StoredAs(ch, a, ch[a], k, pos, new, ch[a] \o More(k), GrownFat(ch, a, k), w)
    BY <1>1, <1>2, <1>3, <1>4, <1>5, <1>7, StoredIs
  <2>2. StoredAs(ch, a, t, k, pos, new, s, fat', w)
    BY <1>1, <1>2, <1>3, <2>1
  <2> QED BY <2>2, SMTT(30) DEF StoredAs
<1>9. \A y \in Cluster : IsDirectory(data, y) => w[y] = data[y]
  BY <1>4, <1>8, DirectoryChain, FreeIsNew
<1>10. w[c][i] = data[c][i]
  BY <1>4, <1>9
<1>11. /\ Retouched(data, data', c, i) /\ data'[c][i].size \in {n, m}
       /\ \A y \in Cluster : y # c => data'[y] = w[y]
  <2>1. Retouched(data, w, c, i)
    BY <1>4, <1>6, <1>8, <1>9, RetouchedIs, SMTT(30)
  <2>2. CASE data' = w
    BY <1>1, <1>10, <2>1, <2>2
  <2>3. CASE data' # w
    <3>1. PICK y : /\ y.dirCluster = c /\ y.dirIndex = i /\ y.first = a /\ y.size = m /\ m <= MaxSize
                   /\ data' = UpdatedEntry(w, y)
      BY <1>3, <2>3
    <3>2. m \in 0..MaxSize
      BY <1>3, <3>1, WriteAssumption
    <3>3. Slot(w, c, i)
      BY <1>4, <2>1 DEF Retouched
    <3>4. data' = PutCell(w, c, i, Entry(data[c][i].name, data[c][i].first, m, data[c][i].dir))
      BY <1>4, <1>8, <1>10, <3>1, <3>3, UpdatedIs
    <3> QED BY <1>4, <1>6, <1>8, <1>9, <3>2, <3>4, RetouchedIs
  <2> QED BY <2>2, <2>3
<1>12. Within(ch, a)
  BY <1>4, <1>8, <1>11 DEF Within
<1>13. ASSUME NEW r \in 1..Len(s) PROVE data'[s[r]] = w[s[r]]
  <2>1. s[r] \in Cluster /\ IsChain(fat', a, s)
    BY <1>8, ElementOfSeq DEF IsChain
  <2>2. s[r] # c
    <3>1. CASE r \in 1..Len(t)
      <4>1. s[r] = t[r] /\ InChain(ch, a, s[r])
        BY <1>1, <1>8, <3>1 DEF InChain
      <4> QED BY <1>4, <2>1, <4>1, DirectoryChain
    <3>2. CASE r \notin 1..Len(t)
      <4>1. More(k) \in Seq(Cluster) /\ Len(More(k)) = k /\ \A j \in 1..k : fat[More(k)[j]] = 0
        <5>1. PICK free : free = FreeInOrder(fat)
          OBVIOUS
        <5>2. free \in Seq(Cluster) /\ \A j \in 1..Len(free) : fat[free[j]] = 0
          BY <5>1, FreeClusters
        <5>3. /\ SubSeq(free, 1, k) \in Seq(Cluster) /\ Len(SubSeq(free, 1, k)) = k
              /\ \A j \in 1..k : SubSeq(free, 1, k)[j] = free[j] /\ j \in 1..Len(free)
          BY <1>3, <5>1, <5>2
        <5> QED BY <5>1, <5>2, <5>3 DEF More
      <4>2. t \in Seq(Cluster)
        BY <1>1, <1>4, <1>6, ChainFacts
      <4>3. r - Len(t) \in 1..k /\ s[r] = More(k)[r - Len(t)]
        BY <1>2, <1>3, <1>4, <1>8, <3>2, <4>1, <4>2
      <4>4. fat[s[r]] = 0
        BY <4>1, <4>3
      <4> QED BY <1>4, <2>1, <4>4, FreeIsNew
    <3> QED BY <3>1, <3>2
  <2> QED BY <1>11, <2>1, <2>2
<1>14. InkedTo(fat, data, a, x.size) /\ IsChain(fat, a, t)
  BY <1>1, <1>3, <1>4, <1>6, ChainFacts DEF Inked
<1>15. ASSUME NEW r \in 1..Len(s), NEW o \in Offset, Spot(r, o) <= m PROVE data'[s[r]][o] \in Units
  <2>1. r \in Nat /\ r > 0 /\ data'[s[r]] = w[s[r]]
    BY <1>3, <1>4, <1>8, <1>13
  <2>2. PICK y \in Nat : y = Spot(r, o) /\ y > 0 /\ y <= m
    BY <1>15, <2>1, SpotFacts
  <2>3. CASE pos < y /\ y <= pos + Len(new)
    <3>1. y - pos \in 1..Len(new)
      BY <1>5, <1>7, <2>2, <2>3
    <3>2. w[s[r]][o] = new[y - pos]
      BY <1>8, <2>2, <2>3
    <3> QED BY <1>7, <2>1, <3>1, <3>2
  <2>4. CASE ~ (pos < y /\ y <= pos + Len(new))
    <3>1. y <= x.size
      BY <1>3, <1>4, <1>5, <1>7, <2>2, <2>4, SMTT(30)
    <3>2. Capacity(Len(t)) \in Nat
      BY <1>4, CapacityFacts
    <3>3. y <= Capacity(Len(t))
      BY <1>4, <2>2, <3>1, <3>2
    <3>4. r <= Len(t)
      BY <1>4, <2>1, <2>2, <3>3, SpotOrder
    <3>5. r \in 1..Len(t)
      BY <1>4, <2>1, <3>4
    <3>6. w[s[r]][o] = data[t[r]][o]
      BY <1>8, <2>2, <2>4, <3>5
    <3>7. data[t[r]][o] \in Units
      BY <1>14, <2>2, <3>1, <3>5, InkedIs
    <3> QED BY <2>1, <3>6, <3>7
  <2> QED BY <2>3, <2>4
<1>16. InkedTo(fat', data', a, m)
  BY <1>8, <1>15, InkedIs
<1>17. ASSUME NEW r \in 1..Len(t), NEW o \in Offset, data'[t[r]][o] # data[t[r]][o]
       PROVE  InStretch(h, Spot(r, o))
  <2>1. r \in 1..Len(s) /\ s[r] = t[r] /\ data'[t[r]] = w[t[r]]
    BY <1>8, <1>13
  <2>2. pos < Spot(r, o) /\ Spot(r, o) <= pos + Len(new)
    BY <1>8, <1>17, <2>1
  <2>3. Spot(r, o) \in Nat /\ MaxWrite \in Nat
    <3>1. r \in Nat /\ r > 0
      BY <1>4
    <3> QED BY <3>1, SpotFacts, WriteAssumption
  <2> QED BY <1>1, <1>3, <1>5, <1>7, <2>2, <2>3 DEF InStretch
<1>18. ASSUME NEW g \in Handle, fds'[g].open
       PROVE  \/ fds'[g].first = a /\ fds'[g].size \in Nat /\ fds'[g].size <= m
              \/ /\ fds[g].open /\ fds'[g].first = fds[g].first /\ fds'[g].size = fds[g].size
                 /\ ~ (fds[g].dirCluster = c /\ fds[g].dirIndex = i)
  <2>1. CASE g = h
    BY <1>3, <2>1
  <2>2. CASE g # h
    <3>1. fds'[g] = fds[g]
      BY <1>3, <2>2
    <3> QED BY <1>1, <1>18, <2>2, <3>1 DEF Alone
  <2> QED BY <2>1, <2>2
<1>19. PICK y : y = data'[c][i].size
  OBVIOUS
<1>20. y <= Capacity(Len(s)) /\ n <= y /\ y <= m
  <2>1. Capacity(Len(s)) \in Nat /\ m <= Capacity(Len(s))
    <3>1. Len(t) + k \in Nat
      BY <1>3, <1>4, SMTT(30)
    <3> QED BY <1>3, <1>8, <3>1, CapacityFacts
  <2> QED BY <1>3, <1>4, <1>6, <1>11, <1>19, <2>1, SMTT(30)
<1>21. Through(ch, h, c, i, a, s, m)
  BY <1>1, <1>8, <1>11, <1>12, <1>16, <1>17, <1>18, <1>19, <1>20, Zenon DEF Through
<1> QED BY <1>1, <1>3, <1>21, ThroughSeen

\* The first units of those to write.
LEMMA FirstUnits ==
  ASSUME NEW new \in Seq(Units), NEW k \in 0..Len(new)
  PROVE  SubSeq(new, 1, k) \in Seq(Units) /\ Len(SubSeq(new, 1, k)) = k
<1>1. CASE k = 0
  BY <1>1
<1>2. CASE k # 0
  <2>1. PICK n \in Nat : n = Len(new)
    OBVIOUS
  <2>2. k \in Nat /\ 1 <= k /\ k <= n /\ k - 1 + 1 = k
    BY <1>2, <2>1
  <2>3. \A j \in 1..k : new[j] \in Units
    BY <2>1, <2>2, ElementOfSeq
  <2> QED BY <2>2, <2>3, SubSeqProperties
<1> QED BY <1>1, <1>2

\* The handle after a whole write.
LEMMA AdvancedIs ==
  ASSUME NEW x \in File, NEW n \in Nat, AppendPosition(x) \in Nat, x.size \in Nat, x.size <= MaxSize,
         AppendPosition(x) + n <= MaxSize
  PROVE  LET y == Advanced(x, n)
             end == AppendPosition(x) + n
         IN  /\ y.size = IF end > x.size THEN end ELSE x.size
             /\ y.first = x.first /\ y.dirCluster = x.dirCluster /\ y.dirIndex = x.dirIndex
<1>1. PICK end, k, y : /\ end = AppendPosition(x) + n /\ k = (IF end > x.size THEN end ELSE x.size)
                       /\ y = Advanced(x, n)
  OBVIOUS
<1>2. end \in 0..MaxSize /\ k \in 0..MaxSize
  BY <1>1, WriteAssumption
<1>3. y = [x EXCEPT !.pos = end, !.size = k]
  BY <1>1 DEF Advanced
<1>4. y.size = k /\ y.first = x.first /\ y.dirCluster = x.dirCluster /\ y.dirIndex = x.dirIndex
  BY <1>2, <1>3 DEF File
<1> QED BY <1>1, <1>4

\* A write: complete, cut short, or with the directory entry left as it was.
LEMMA PwriteSeen ==
  ASSUME NEW ch, Sound(fat, data, leaked, fds, ch), Inked(fat, data, fds), torn = NoPath, IInv',
         NEW h \in Handle, NEW v \in Value, NEW n \in 1..MaxWrite, Pwrite(h, [i \in 1..n |-> Unit(v)])
  PROVE  Result
<1>1. PICK new : new = [i \in 1..n |-> Unit(v)]
  OBVIOUS
<1>2. new \in Seq(Units) /\ Len(new) = n /\ n \in Nat /\ n <= MaxWrite /\ MaxWrite \in Nat
  <2>1. n \in Nat /\ Unit(v) \in Units /\ MaxWrite \in Nat
    BY WriteAssumption DEF Units
  <2> QED BY <1>1, <2>1
<1>3. PICK x, a, t, pos : x = fds[h] /\ a = x.first /\ t = ch[a] /\ pos = AppendPosition(x)
  OBVIOUS
<1>4. /\ x.open /\ Alone(h) /\ pos + n <= MaxSize /\ torn' = NoPath
      /\ WriteSucceeds(h, new) \/ WriteFails(h, new) \/ WriteUnrecorded(h, new)
  BY <1>1, <1>2, <1>3 DEF Pwrite
<1>5. /\ Chain(fat, a) = t /\ Len(t) \in Nat /\ pos \in Nat /\ pos <= x.size /\ x.size \in Nat /\ x \in File
      /\ x.size <= MaxSize /\ x.size <= Capacity(Len(t))
  <2>1. /\ Chain(fat, a) = t /\ Len(t) \in Nat /\ x.size \in Nat /\ x \in File /\ x.size <= MaxSize
        /\ x.size <= Capacity(Len(t))
    BY <1>3, <1>4, HandleFacts
  <2>2. pos \in Nat /\ pos <= x.size
    BY <1>2, <1>3, <1>4, MissingFacts
  <2> QED BY <2>1, <2>2
<1>6. fds \in [Handle -> {Closed} \cup File]
  BY DEF Sound, Hands
<1>7. PICK k : k = Missing(h, n)
  OBVIOUS
<1>8. k \in Nat /\ pos + n <= Capacity(Len(t) + k)
  BY <1>2, <1>3, <1>4, <1>7, MissingFacts
<1>9. \A j \in Nat : x.size <= Capacity(Len(t) + j)
  <2> TAKE j \in Nat
  <2>1. Len(t) + j \in Nat /\ Len(t) <= Len(t) + j
    BY <1>5
  <2>2. Capacity(Len(t)) <= Capacity(Len(t) + j) /\ Capacity(Len(t)) \in Nat /\ Capacity(Len(t) + j) \in Nat
    BY <1>5, <2>1, CapacityFacts
  <2> QED BY <1>5, <2>2
<1>10. PICK after, m : after = Advanced(x, n) /\ m = IF pos + n > x.size THEN pos + n ELSE x.size
  OBVIOUS
<1>11. /\ after.size = m /\ after.first = a /\ after.dirCluster = x.dirCluster /\ after.dirIndex = x.dirIndex
  BY <1>2, <1>3, <1>4, <1>5, <1>10, AdvancedIs
<1>12. /\ m \in Nat /\ x.size <= m /\ m <= Capacity(Len(t) + k) /\ m <= MaxSize
       /\ m = x.size \/ m = pos + n
  <2>1. MaxSize \in Nat /\ pos + n \in Nat /\ x.size <= Capacity(Len(t) + k)
    <3>1. x.size <= Capacity(Len(t) + k)
      BY <1>8, <1>9
    <3>2. MaxSize \in Nat /\ pos + n \in Nat
      BY <1>2, <1>5, WriteAssumption
    <3> QED BY <3>1, <3>2
  <2>2. CASE pos + n > x.size
    <3>1. m = pos + n
      BY <1>10, <2>2
    <3> QED BY <1>4, <1>5, <1>8, <2>1, <2>2, <3>1
  <2>3. CASE ~ (pos + n > x.size)
    <3>1. m = x.size
      BY <1>10, <2>3
    <3> QED BY <1>5, <2>1, <3>1
  <2> QED BY <2>2, <2>3
<1>13. CASE WriteSucceeds(h, new)
  <2>1. PICK w : w = Written(ch, a, k, pos, new)
    OBVIOUS
  <2>2. /\ k <= Len(FreeInOrder(fat)) /\ fat' = GrownFat(ch, a, k) /\ fds' = [fds EXCEPT ![h] = after]
        /\ data' = IF after.size > x.size THEN UpdatedEntry(w, after) ELSE w
    BY <1>2, <1>3, <1>5, <1>7, <1>10, <1>13, <2>1 DEF WriteSucceeds, GrownFat, Written, More
  <2>3. fds'[h] = after /\ \A g \in Handle \ {h} : fds'[g] = fds[g]
    BY <1>6, <2>2
  <2>4. /\ fds[h].open /\ pos = AppendPosition(fds[h])
        /\ fds[h].size <= m /\ m <= Capacity(Len(ch[fds[h].first]) + k)
        /\ m = fds[h].size \/ m = pos + Len(new)
        /\ fat' = GrownFat(ch, fds[h].first, k)
        /\ fds'[h].first = fds[h].first /\ fds'[h].size = m /\ m <= m
    BY <1>2, <1>3, <1>4, <1>11, <1>12, <2>2, <2>3
  <2>5. \/ data' = Written(ch, fds[h].first, k, pos, new)
        \/ \E y : /\ y.dirCluster = fds[h].dirCluster /\ y.dirIndex = fds[h].dirIndex
                  /\ y.first = fds[h].first /\ y.size = m /\ m <= MaxSize
                  /\ data' = UpdatedEntry(Written(ch, fds[h].first, k, pos, new), y)
    BY <1>3, <1>11, <1>12, <2>1, <2>2
  <2>6. Stores(ch, h, k, pos, new, m)
    BY <1>2, <1>8, <1>12, <2>2, <2>3, <2>4, <2>5 DEF Stores
  <2> QED BY <1>4, <2>6, StoresSeen
<1>14. CASE WriteUnrecorded(h, new)
  <2>1. PICK s : s = SubSeq(new, 1, n)
    OBVIOUS
  <2>2. s \in Seq(Units) /\ Len(s) = n
    <3>1. n \in 0..Len(new)
      BY <1>2
    <3> QED BY <1>2, <2>1, <3>1, FirstUnits
  <2>3. /\ k <= Len(FreeInOrder(fat)) /\ fat' = GrownFat(ch, a, k) /\ fds' = [fds EXCEPT ![h] = after]
        /\ data' = Written(ch, a, k, pos, s)
    BY <1>2, <1>3, <1>5, <1>7, <1>10, <1>14, <2>1 DEF WriteUnrecorded, Stored, GrownFat, Written, More
  <2>4. fds'[h] = after /\ \A g \in Handle \ {h} : fds'[g] = fds[g]
    BY <1>6, <2>3
  <2>5. /\ fds[h].open /\ pos = AppendPosition(fds[h])
        /\ fds[h].size <= m /\ m <= Capacity(Len(ch[fds[h].first]) + k)
        /\ m = fds[h].size \/ m = pos + Len(s)
        /\ fat' = GrownFat(ch, fds[h].first, k) /\ data' = Written(ch, fds[h].first, k, pos, s)
        /\ fds'[h].first = fds[h].first /\ fds'[h].size = m /\ m <= m
    BY <1>3, <1>4, <1>11, <1>12, <2>2, <2>3, <2>4
  <2>6. Stores(ch, h, k, pos, s, m)
    BY <1>2, <1>8, <1>12, <2>2, <2>3, <2>4, <2>5 DEF Stores
  <2> QED BY <1>4, <2>6, StoresSeen
<1>15. CASE WriteFails(h, new)
  <2>1. PICK j \in 0..k, done \in 0..(n - 1) :
           /\ j <= Len(FreeInOrder(fat)) /\ pos + done <= Capacity(Len(t) + j)
           /\ Stored(h, j, done, new) /\ fds' = [fds EXCEPT ![h].pos = pos]
    BY <1>2, <1>3, <1>5, <1>7, <1>15 DEF WriteFails
  <2>2. PICK s : s = SubSeq(new, 1, done)
    OBVIOUS
  <2>3. s \in Seq(Units) /\ Len(s) = done /\ done \in Nat /\ done <= MaxWrite /\ j \in Nat
    <3>1. done \in 0..Len(new) /\ done \in Nat /\ done <= MaxWrite /\ j \in Nat
      BY <1>2, <1>8
    <3> QED BY <1>2, <2>2, <3>1, FirstUnits
  <2>4. fat' = GrownFat(ch, a, j) /\ data' = Written(ch, a, j, pos, s)
    BY <1>3, <1>5, <2>1, <2>2 DEF Stored, GrownFat, Written, More
  <2>5. fds'[h].first = a /\ fds'[h].size = x.size /\ \A g \in Handle \ {h} : fds'[g] = fds[g]
    <3>1. fds'[h] = [x EXCEPT !.pos = pos]
      BY <1>3, <1>6, <2>1
    <3>2. fds'[h].first = x.first /\ fds'[h].size = x.size
      BY <1>5, <3>1 DEF File
    <3> QED BY <1>3, <1>6, <2>1, <3>2
  <2>6. PICK q : q = IF pos + done > x.size THEN pos + done ELSE x.size
    OBVIOUS
  <2>7. q \in Nat /\ x.size <= q /\ q <= Capacity(Len(t) + j) /\ (q = x.size \/ q = pos + Len(s))
    BY <1>5, <1>9, <2>1, <2>3, <2>6, SMTT(30)
  <2>8. /\ fds[h].open /\ pos = AppendPosition(fds[h])
        /\ fds[h].size <= q /\ q <= Capacity(Len(ch[fds[h].first]) + j)
        /\ q = fds[h].size \/ q = pos + Len(s)
        /\ fat' = GrownFat(ch, fds[h].first, j) /\ data' = Written(ch, fds[h].first, j, pos, s)
        /\ fds'[h].first = fds[h].first /\ fds'[h].size \in Nat /\ fds'[h].size <= q
    BY <1>3, <1>4, <1>5, <2>4, <2>5, <2>7
  <2>9. Stores(ch, h, j, pos, s, q)
    BY <2>1, <2>3, <2>5, <2>7, <2>8 DEF Stores
  <2> QED BY <1>4, <2>9, StoresSeen
<1> QED BY <1>4, <1>13, <1>14, <1>15

(***************************************************************************)
(* Rename                                                                  *)
(***************************************************************************)

\* The clusters that a rename may copy to are free.
Fresh(more) ==
  /\ more \in Seq(Cluster) /\ Once(more)
  /\ \A m \in 1..Len(more) : fat[more[m]] = 0 /\ more[m] # NewCluster

\* The chain of the copy holds what was copied; the clusters in use are left alone but for
\* the directory of the new name.
CopyHolds(q, more, s, g, d) ==
  LET t == <<NewCluster>> \o more
  IN  /\ t \in Seq(Cluster) /\ Len(t) = 1 + Len(more)
      /\ \A m \in 1..Len(t) : t[m] \in Cluster /\ fat[t[m]] = 0
      /\ \A r \in 1..Len(t), o \in Offset : Spot(r, o) <= Len(s) => d[t[r]][o] = s[Spot(r, o)]
      /\ \A y \in Cluster : fat[y] # 0 => g[y] = fat[y] /\ (y # DirOf(q) => d[y] = data[y])

\* So the copy of a rename is, before the old chain is given back.
LEMMA CopyIs ==
  ASSUME NEW ch, Sound(fat, data, leaked, fds, ch), NEW q \in Path, MayCreate(q),
         Vacant(DirOf(q)) # {}, NEW more, Fresh(more), NEW s \in Seq(Cell)
  PROVE  /\ CopyHolds(q, more, s, CopyFat(more), CopyData(q, more, s))
         /\ CopyData(q, more, s) \in Cells
<1>1. PICK a, one, t : a = NewCluster /\ one = <<a>> /\ t = one \o more
  OBVIOUS
<1>2. PICK f, e, z : f = FatWithNew /\ e = DataWithNew(q, FALSE) /\ z = Zeroed(e, more)
  OBVIOUS
<1>3. a \in Cluster /\ fat[a] = 0
  BY <1>1, NewClusterIs
<1>4. /\ more \in Seq(Cluster) /\ Once(more) /\ Len(more) \in Nat
      /\ \A m \in 1..Len(more) : fat[more[m]] = 0 /\ more[m] # a /\ more[m] \in Cluster
  <2>1. more \in Seq(Cluster) /\ Once(more) /\ \A m \in 1..Len(more) : fat[more[m]] = 0 /\ more[m] # a
    BY <1>1 DEF Fresh
  <2> QED BY <2>1, ElementOfSeq
<1>5. one \in Seq(Cluster) /\ Len(one) = 1 /\ one[1] = a
  BY <1>1, <1>3
<1>6. /\ t \in Seq(Cluster) /\ Len(t) = 1 + Len(more) /\ Len(t) \in Nat
      /\ \A m \in 1..Len(t) : t[m] = IF m <= 1 THEN one[m] ELSE more[m - 1]
  <2>1. /\ t \in Seq(Cluster) /\ Len(t) = Len(one) + Len(more)
        /\ \A m \in 1..Len(t) : t[m] = IF m <= Len(one) THEN one[m] ELSE more[m - Len(one)]
    BY <1>1, <1>4, <1>5, ConcatIs
  <2> QED BY <1>4, <1>5, <2>1
<1>7. ASSUME NEW m \in 1..Len(t)
      PROVE  /\ t[m] \in Cluster /\ fat[t[m]] = 0
             /\ m = 1 => t[m] = a
             /\ m # 1 => m - 1 \in 1..Len(more) /\ t[m] = more[m - 1]
  <2>1. CASE m = 1
    <3>1. t[m] = one[1]
      BY <1>6, <2>1
    <3> QED BY <1>3, <1>5, <2>1, <3>1
  <2>2. CASE m # 1
    <3>1. m - 1 \in 1..Len(more) /\ ~ (m <= 1)
      BY <1>4, <1>6, <2>2
    <3>2. t[m] = more[m - 1]
      BY <1>6, <3>1
    <3> QED BY <1>4, <2>2, <3>1, <3>2
  <2> QED BY <2>1, <2>2
<1>8. Once(t)
  <2> SUFFICES ASSUME NEW m \in 1..Len(t), NEW n \in 1..Len(t), t[m] = t[n] PROVE m = n
    BY DEF Once
  <2>1. CASE m = 1
    <3>1. n = 1
      BY <1>4, <1>7, <2>1
    <3> QED BY <2>1, <3>1
  <2>2. CASE m # 1
    <3>1. n # 1
      BY <1>4, <1>7, <2>2
    <3>2. m - 1 = n - 1
      BY <1>4, <1>7, <2>2, <3>1, SMTT(30) DEF Once
    <3> QED BY <1>6, <3>2
  <2> QED BY <2>1, <2>2
<1>9. data \in Cells /\ fat \in [Cluster -> FatEntry]
  BY DEF Sound, SoundTree, Layout
<1>10. e \in Cells /\ f \in [Cluster -> FatEntry]
  <2>1. FALSE \in BOOLEAN /\ (FALSE => Len(q) = 1)
    OBVIOUS
  <2>2. LET w == [ch EXCEPT ![NewCluster] = <<NewCluster>>]
        IN  Sound(FatWithNew, DataWithNew(q, FALSE), leaked, fds, w)
    BY <2>1, SoundCreate
  <2> QED BY <1>2, <2>2 DEF Sound, SoundTree, Layout
<1>11. z \in Cells
  BY <1>2, <1>4, <1>10, ZeroedIs
<1>12. PICK d : d = CopyData(q, more, s)
  OBVIOUS
<1>13. d = PutCells(z, t, 0, s) /\ 0 \in Nat /\ Len(s) \in Nat
  BY <1>1, <1>2, <1>12 DEF CopyData
<1>14. d \in Cells
  BY <1>6, <1>11, <1>13, PutCellsIs
<1>15. ASSUME NEW r \in 1..Len(t), NEW o \in Offset, Spot(r, o) <= Len(s)
       PROVE  d[t[r]][o] = s[Spot(r, o)]
  <2>1. PICK x : x = Spot(r, o)
    OBVIOUS
  <2>2. x \in Nat /\ x > 0
    <3>1. r \in Nat /\ r > 0
      BY <1>6
    <3> QED BY <2>1, <3>1, SpotFacts
  <2>3. d[t[r]][o] = IF 0 < x /\ x <= 0 + Len(s) THEN s[x - 0] ELSE z[t[r]][o]
    BY <1>6, <1>8, <1>11, <1>13, <2>1, PutCellsAre
  <2>4. 0 < x /\ x <= 0 + Len(s) /\ x - 0 = x
    BY <1>13, <1>15, <2>1, <2>2
  <2> QED BY <2>1, <2>3, <2>4
<1>16. ASSUME NEW y \in Cluster, fat[y] # 0
       PROVE  CopyFat(more)[y] = fat[y] /\ (y # DirOf(q) => d[y] = data[y])
  <2>1. \A m \in 1..Len(t) : t[m] # y
    BY <1>7, <1>16
  <2>2. y # a /\ \A m \in 1..Len(more) : more[m] # y
    BY <1>3, <1>4, <1>16
  <2>3. CopyFat(more)[y] = fat[y]
    <3>1. f[y] = fat[y]
      BY <1>1, <1>2, <1>9, <2>2 DEF FatWithNew
    <3>2. ~ \E m \in 1..Len(t) : m > 0 /\ t[m] = y
      BY <2>1
    <3>3. Linked(f, one, more)[y] = f[y]
      BY <1>1, <1>5, <3>2 DEF Linked
    <3> QED BY <1>1, <1>2, <3>1, <3>3 DEF CopyFat
  <2>4. ASSUME y # DirOf(q) PROVE d[y] = data[y]
    <3>1. d[y] = z[y]
      BY <1>6, <1>11, <1>13, <2>1, PutCellsIs
    <3>2. z[y] = e[y]
      BY <1>2, <1>4, <1>10, <2>2, ZeroedIs
    <3>3. e[y] = Zeroed(data, one)[y]
      <4>1. Zeroed(data, one) \in Cells
        BY <1>5, <1>9, ZeroedIs
      <4> QED BY <1>1, <1>2, <2>4, <4>1 DEF DataWithNew, PutCell, Cells
    <3>4. \A m \in 1..Len(one) : one[m] # y
      BY <1>5, <2>2
    <3>5. Zeroed(data, one)[y] = data[y]
      BY <1>5, <1>9, <3>4, ZeroedIs
    <3> QED BY <3>1, <3>2, <3>3, <3>5
  <2> QED BY <2>3, <2>4
<1>17. CopyHolds(q, more, s, CopyFat(more), d)
  BY <1>1, <1>6, <1>7, <1>15, <1>16 DEF CopyHolds
<1> QED BY <1>12, <1>14, <1>17

\* A refused rename changes no entry and no file.
LEMMA RefusedSeen ==
  ASSUME NEW ch, Sound(fat, data, leaked, fds, ch), Inked(fat, data, fds), IInv', torn' = NoPath,
         fds' = fds, NEW q \in Path, MayCreate(q), Vacant(DirOf(q)) # {}, NEW more, Fresh(more),
         NEW s \in Seq(Cell), fat' = Released(CopyFat(more), <<NewCluster>> \o more),
         data' = PutCell(Forgotten(CopyData(q, more, s), <<NewCluster>> \o more), DirOf(q),
                         Min(Vacant(DirOf(q))), Deleted)
  PROVE  Result
<1>1. PICK t, c, i, g, d : /\ t = <<NewCluster>> \o more /\ c = DirOf(q) /\ i = Min(Vacant(DirOf(q)))
                           /\ g = CopyFat(more) /\ d = CopyData(q, more, s)
  OBVIOUS
<1>2. /\ t \in Seq(Cluster) /\ \A m \in 1..Len(t) : t[m] \in Cluster /\ fat[t[m]] = 0
      /\ \A y \in Cluster : fat[y] # 0 => g[y] = fat[y] /\ (y # c => d[y] = data[y])
      /\ d \in Cells
  BY <1>1, CopyIs DEF CopyHolds
<1>3. SoundTree(data) /\ data \in Cells
  BY DEF Sound, SoundTree
<1>4. \A x \in Cluster, j \in Offset : (Slot(data', x, j) <=> Slot(data, x, j))
                                       /\ (Slot(data, x, j) => data'[x][j] = data[x][j])
  <2>1. more \in Seq(Cluster) /\ Once(more) /\ \A m \in 1..Len(more) : fat[more[m]] = 0 /\ more[m] # NewCluster
    BY DEF Fresh
  <2>2. LET e == PutCell(Forgotten(CopyData(q, more, s), <<NewCluster>> \o more), DirOf(q),
                         Min(Vacant(DirOf(q))), Deleted)
        IN  \A x \in Cluster, j \in Offset : (Slot(e, x, j) <=> Slot(data, x, j))
                                             /\ (Slot(data, x, j) => e[x][j] = data[x][j])
    BY <2>1, RefusedSound
  <2> QED BY <2>2
<1>5. ASSUME NEW y \in Cluster, fat[y] # 0, ~ IsDirectory(data, y) PROVE fat'[y] = fat[y] /\ data'[y] = data[y]
  <2>1. \A m \in 1..Len(t) : t[m] # y
    BY <1>2, <1>5
  <2>2. y # c
    <3>1. DirOf(q) # 0
      BY DEF MayCreate
    <3> QED BY <1>1, <1>3, <1>5, <3>1, PathPlace
  <2>3. fat'[y] = g[y]
    BY <1>1, <1>2, <2>1, ReleasedIs
  <2>4. data'[y] = Forgotten(d, t)[y]
    <3>1. Forgotten(d, t) \in Cells
      BY <1>2, ZeroedIs
    <3> QED BY <1>1, <2>2, <3>1 DEF PutCell, Cells
  <2>5. Forgotten(d, t)[y] = d[y]
    BY <1>2, <2>1, ZeroedIs
  <2> QED BY <1>2, <1>5, <2>2, <2>3, <2>4, <2>5
<1>6. Others(ch, fat, data, fat', data', {})
  <2>1. \A x \in Cluster, j \in Offset :
           /\ Slot(data', x, j) <=> Slot(data, x, j)
           /\ Slot(data, x, j) => data'[x][j] = data[x][j] /\ data[x][j].first # Root
    BY <1>3, <1>4 DEF SoundTree, BelowRoot
  <2>2. \A x \in Cluster : fat'[x] # fat[x] \/ data'[x] # data[x] => fat[x] = 0 \/ IsDirectory(data, x)
    BY <1>5
  <2> QED BY <2>1, <2>2, OthersFrom
<1> QED BY <1>6, CalmStep

\* The file p, at (pc, pi), begins at pa and holds the n cells s; a copy of it is at (c, i),
\* begins at a and has the clusters t; the entry of p is gone.
MovedTo(ch, p, q, pc, pi, pa, s, n, c, i, a, t) ==
  /\ pc = DirOf(p) /\ pi = SlotOf(p) /\ pa = EntryOf(p).first /\ s = FileCells(p)
  /\ c \in Cluster /\ i \in Offset /\ IsDirectory(data, c) /\ ~ (c = pc /\ i = pi)
  /\ \/ c = Root /\ Len(q) = 1
     \/ /\ Len(q) = 2
        /\ \E k \in Offset : /\ Slot(data, Root, k) /\ data[Root][k].dir
                             /\ data[Root][k].first = c /\ data[Root][k].name = Head(q)
  /\ data'[c][i].name = Last(q) /\ data'[c][i].first = a /\ data'[c][i].size = n /\ ~ data'[c][i].dir
  /\ \A x \in Cluster, j \in Offset :
        /\ Slot(data', x, j) <=> (Slot(data, x, j) \/ (x = c /\ j = i)) /\ ~ (x = pc /\ j = pi)
        /\ Slot(data, x, j) /\ ~ (x = pc /\ j = pi) => data'[x][j] = data[x][j] /\ ~ (x = c /\ j = i)
  /\ IsChain(fat', a, t) /\ n <= Capacity(Len(t)) /\ s \in Seq(Cell) /\ n = Len(s)
  /\ \A r \in 1..Len(t), o \in Offset : Spot(r, o) <= n => data'[t[r]][o] = s[Spot(r, o)]
  /\ \A y \in Cluster : fat'[y] # fat[y] \/ data'[y] # data[y] =>
        fat[y] = 0 \/ IsDirectory(data, y) \/ InChain(ch, pa, y)

\* A file that has been copied and removed is seen under its new name, with what it held.
LEMMA MovedSeen ==
  ASSUME NEW ch, Sound(fat, data, leaked, fds, ch), Inked(fat, data, fds), IInv', torn' = NoPath,
         fds' = fds, NEW p \in Path, NEW q \in Path, Exists(p), ~ EntryOf(p).dir, ~ InUse(p), ~ Exists(q),
         NEW pc, NEW pi, NEW pa, NEW s, NEW n, NEW c, NEW i, NEW a, NEW t,
         MovedTo(ch, p, q, pc, pi, pa, s, n, c, i, a, t)
  PROVE  Result
<1>2. PICK old : old = ch[pa]
  OBVIOUS
<1>3. pc = DirOf(p) /\ pi = SlotOf(p) /\ pa = EntryOf(p).first /\ s = FileCells(p)
  BY DEF MovedTo
<1>4. /\ SoundTree(data) /\ data \in Cells /\ fat \in [Cluster -> FatEntry]
      /\ SoundTree(data') /\ fat' \in [Cluster -> FatEntry]
  BY AfterIs DEF Sound, SoundTree, Layout
<1>5. /\ Place(data, p, pc, pi) /\ Slot(data, pc, pi) /\ data[pc][pi] = EntryOf(p) /\ pc \in Cluster
      /\ pi \in Offset /\ pa \in Cluster /\ Chain(fat, pa) = old /\ old \in Seq(Cluster) /\ IsChain(fat, pa, old)
      /\ \A x \in Cluster, j \in Offset : Slot(data, x, j) /\ data[x][j].first = pa => x = pc /\ j = pi
  BY <1>2, <1>3, PathIs
<1>6. /\ c \in Cluster /\ i \in Offset /\ ~ (c = pc /\ i = pi)
      /\ c = Root \/ Len(q) # 1
      /\ Len(q) # 1 => \E k \in Offset : /\ Slot(data, Root, k) /\ data[Root][k].dir
                                         /\ data[Root][k].first = c /\ data[Root][k].name = Head(q)
  <2>1. c \in Cluster /\ i \in Offset /\ ~ (c = pc /\ i = pi)
    BY DEF MovedTo
  <2>2. \/ c = Root /\ Len(q) = 1
        \/ /\ Len(q) = 2
           /\ \E k \in Offset : /\ Slot(data, Root, k) /\ data[Root][k].dir
                                /\ data[Root][k].first = c /\ data[Root][k].name = Head(q)
    BY DEF MovedTo
  <2>3. 2 # 1
    OBVIOUS
  <2> QED BY <2>1, <2>2, <2>3
<1>7. data'[c][i].name = Last(q) /\ data'[c][i].first = a /\ data'[c][i].size = n /\ ~ data'[c][i].dir
  BY DEF MovedTo
<1>8. \A x \in Cluster, j \in Offset :
        /\ Slot(data', x, j) <=> (Slot(data, x, j) \/ (x = c /\ j = i)) /\ ~ (x = pc /\ j = pi)
        /\ Slot(data, x, j) /\ ~ (x = pc /\ j = pi) => data'[x][j] = data[x][j] /\ ~ (x = c /\ j = i)
  BY DEF MovedTo
<1>9. IsChain(fat', a, t) /\ n <= Capacity(Len(t)) /\ s \in Seq(Cell) /\ n = Len(s) /\ Len(t) \in Nat
  BY DEF MovedTo, IsChain
<1>10. \A r \in 1..Len(t), o \in Offset : Spot(r, o) <= n => data'[t[r]][o] = s[Spot(r, o)]
  BY DEF MovedTo
<1>11. Slot(data', c, i) /\ ~ Slot(data', pc, pi)
  BY <1>5, <1>6, <1>8
<1>12. ~ Slot(data, c, i)
  BY <1>6, <1>8
\* What the old file held
<1>16. EntryOf(p).size = n /\ n \in Nat /\ n <= MaxSize /\ (\A k \in 1..n : s[k] \in Units)
  <2>1. PICK m : m = EntryOf(p).size
    OBVIOUS
  <2>2. m \in 0..MaxSize /\ m <= Capacity(Len(old)) /\ Len(old) \in Nat
    BY <1>2, <1>3, <1>4, <2>1, PathSlot, PathChain
  <2>3. Reads(data, old, m, s)
    BY <1>3, <1>4, <1>5, <2>1, <2>2, FileCellsIs DEF Readable
  <2>4. m = n /\ n \in Nat
    BY <1>9, <2>2, <2>3 DEF Reads
  <2>5. InkedTo(fat, data, pa, n)
    BY <1>3, <1>5, <2>1, <2>4 DEF Inked
  <2>6. ASSUME NEW k \in 1..n PROVE s[k] \in Units
    <3>1. k \in Nat /\ k > 0 /\ k <= Capacity(Len(old))
      BY <2>2, <2>4, CapacityFacts
    <3>2. PICK r \in 1..Len(old), o \in Offset : k = Spot(r, o)
      BY <2>2, <3>1, SpotExists
    <3>3. s[k] = data[old[r]][o]
      BY <2>3, <2>4, <3>2 DEF Reads
    <3>4. data[old[r]][o] \in Units
      BY <1>5, <2>5, <3>2, InkedIs
    <3> QED BY <3>3, <3>4
  <2> QED BY <2>1, <2>2, <2>4, <2>6
\* Where the two entries are
<1>17. Place(data', q, c, i)
  <2>1. ASSUME NEW k \in Offset, Slot(data, Root, k), data[Root][k].dir
        PROVE  Slot(data', Root, k) /\ data'[Root][k] = data[Root][k]
    <3>1. ~ (Root = pc /\ k = pi)
      BY <1>5, <2>1
    <3> QED BY <1>8, <2>1, <3>1, ClusterFacts
  <2>2. Len(q) # 1 => \E j \in Offset : /\ Slot(data', Root, j) /\ data'[Root][j].dir
                                        /\ data'[Root][j].name = Head(q) /\ data'[Root][j].first = c
    BY <1>6, <2>1
  <2> QED BY <1>6, <1>7, <1>11, <2>2 DEF Place
<1>18. PICK T : T = {<<c, i>>, <<pc, pi>>}
  OBVIOUS
<1>19. \A y, j : <<y, j>> \in T <=> (y = c /\ j = i) \/ (y = pc /\ j = pi)
  BY <1>18
<1>21. Others(ch, fat, data, fat', data', T)
  <2>1. ASSUME NEW y \in Cluster, NEW j \in Offset, <<y, j>> \notin T
        PROVE  /\ Slot(data', y, j) <=> Slot(data, y, j)
               /\ Slot(data, y, j) => data'[y][j] = data[y][j] /\ data[y][j].first # pa
    <3>1. ~ (y = c /\ j = i) /\ ~ (y = pc /\ j = pi)
      BY <1>19, <2>1
    <3> QED BY <1>5, <1>8, <3>1
  <2>2. ASSUME NEW y \in Cluster, NEW j \in Offset, <<y, j>> \in T
        PROVE  NoneBelow(data, y, j) /\ NoneBelow(data', y, j)
    <3>1. CASE y = c /\ j = i
      BY <1>7, <1>12, <3>1 DEF NoneBelow
    <3>2. CASE y = pc /\ j = pi
      BY <1>5, <1>11, <3>2 DEF NoneBelow
    <3> QED BY <1>19, <2>2, <3>1, <3>2
  <2>3. ASSUME NEW y \in Cluster, fat'[y] # fat[y] \/ data'[y] # data[y]
        PROVE  fat[y] = 0 \/ IsDirectory(data, y) \/ (pa \in Cluster /\ InChain(ch, pa, y))
    BY <1>5, <2>3 DEF MovedTo
  <2> QED BY <2>1, <2>2, <2>3, OthersFrom
<1>22. AllBefore({p, q})
  <2>1. PICK W : W = {p, q}
    OBVIOUS
  <2>2. W \in SUBSET Path /\ p \in W /\ q \in W
    BY <2>1
  <2>3. Touches(W, data, T)
    BY <1>5, <1>12, <1>19, <2>2 DEF Touches
  <2>4. Touches(W, data', T)
    BY <1>11, <1>17, <1>19, <2>2 DEF Touches
  <2>5. \A u \in Path \ W : AsBefore(u)
    BY <1>4, <1>21, <2>2, <2>3, <2>4, OthersAsBefore
  <2> QED BY <2>1, <2>5 DEF AllBefore
\* The new file shows the same cells
<1>23. Exists(q)' /\ ~ EntryOf(q)'.dir /\ FileCells(q)' = s
  <2>1. n <= Capacity(Len(t)) /\ Len(t) \in Nat
    BY <1>9
  <2>2. Exists(q)' /\ EntryOf(q)' = data'[c][i] /\ Reads(data', t, n, FileCells(q)')
    BY <1>4, <1>7, <1>9, <1>17, ShownNext
  <2>3. PICK v : v = FileCells(q)'
    OBVIOUS
  <2>4. v \in Seq(Cell) /\ Len(v) = n
    BY <2>2, <2>3 DEF Reads
  <2>5. ASSUME NEW k \in 1..n PROVE v[k] = s[k]
    <3>1. k \in Nat /\ k > 0 /\ k <= Capacity(Len(t))
      BY <1>16, <2>1, CapacityFacts
    <3>2. PICK r \in 1..Len(t), o \in Offset : k = Spot(r, o)
      BY <2>1, <3>1, SpotExists
    <3>3. Spot(r, o) <= n
      BY <1>16, <3>2
    <3>4. v[k] = data'[t[r]][o]
      BY <2>2, <2>3, <3>2, <3>3 DEF Reads
    <3> QED BY <1>10, <3>2, <3>3, <3>4
  <2> QED BY <1>7, <1>9, <2>2, <2>3, <2>4, <2>5
<1>24. ~ Exists(p)'
  <2> SUFFICES ASSUME Exists(p)' PROVE FALSE
    OBVIOUS
  <2>1. PICK y, j : Place(data', p, y, j) /\ Slot(data', y, j)
    BY <1>4, LookupsFindNext DEF Place
  <2>2. CASE y = c /\ j = i
    <3>1. p = q
      BY <1>4, <1>17, <2>1, <2>2, PlaceOnce
    <3> QED BY <3>1
  <2>3. CASE ~ (y = c /\ j = i)
    <3>1. <<y, j>> \notin T
      BY <1>11, <1>19, <2>1, <2>3
    <3>2. Place(data, p, y, j)
      BY <1>21, <2>1, <3>1, OthersPlace
    <3>3. y = pc /\ j = pi
      BY <1>3, <1>4, <3>2, LookupsFind DEF Lookups
    <3> QED BY <1>11, <2>1, <3>3
  <2> QED BY <2>2, <2>3
<1>25. Moved(p, q)
  BY <1>3, <1>23, <1>24 DEF Moved
<1>26. InkedTo(fat', data', a, n)
  <2>1. ASSUME NEW r \in 1..Len(t), NEW o \in Offset, Spot(r, o) <= n
        PROVE  data'[t[r]][o] \in Units
    <3>1. Spot(r, o) \in 1..n
      <4>1. r \in Nat /\ r > 0
        BY <1>9
      <4>2. Spot(r, o) \in Nat /\ Spot(r, o) > 0
        BY <4>1, SpotFacts
      <4> QED BY <1>16, <2>1, <4>2
    <3>2. data'[t[r]][o] = s[Spot(r, o)]
      BY <1>10, <2>1
    <3> QED BY <1>16, <3>1, <3>2
  <2> QED BY <1>9, <2>1, InkedIs
<1>27. Inked(fat', data', fds')
  <2>1. ASSUME NEW h \in Handle, fds'[h].open
        PROVE  /\ fds[h].open /\ fds'[h].first = fds[h].first /\ fds'[h].size = fds[h].size
               /\ <<fds[h].dirCluster, fds[h].dirIndex>> \notin T
    <3>1. fds[h].open /\ fds'[h].first = fds[h].first /\ fds'[h].size = fds[h].size
      BY <2>1
    <3>2. Slot(data, fds[h].dirCluster, fds[h].dirIndex)
      BY <3>1 DEF Sound, Hands, InPlace
    <3>3. ~ (fds[h].dirCluster = c /\ fds[h].dirIndex = i)
      BY <1>12, <3>2
    <3>4. ~ (fds[h].dirCluster = pc /\ fds[h].dirIndex = pi)
      BY <1>3, <3>1 DEF InUse, Uses
    <3> QED BY <1>19, <3>1, <3>3, <3>4
  <2>2. \A y \in Cluster, j \in Offset : <<y, j>> \in T /\ Slot(data', y, j) /\ ~ data'[y][j].dir =>
            InkedTo(fat', data', data'[y][j].first, data'[y][j].size)
    <3>1. InkedTo(fat', data', data'[c][i].first, data'[c][i].size)
      BY <1>7, <1>26
    <3> QED BY <1>11, <1>19, <3>1
  <2> QED BY <1>21, <2>1, <2>2, InkedNext
<1> QED BY <1>22, <1>25, <1>27 DEF Result, Outcome

\* The fields of the entry that a rename writes
IsEntry(q, n, d) ==
  LET x == d[DirOf(q)][Min(Vacant(DirOf(q)))]
  IN  x.name = Last(q) /\ x.first = NewCluster /\ x.size = n /\ ~ x.dir

\* A rename leaves such an entry.
LEMMA RenamedEntry ==
  ASSUME NEW p, NEW q, NEW n, NEW d, Renamed(p, q, n, d)
  PROVE  IsEntry(q, n, d)
BY DEF Renamed, Entry, IsEntry

\* A file that has been copied and removed is seen under its new name, with what it held.
LEMMA RenamedSeen ==
  ASSUME NEW ch, Sound(fat, data, leaked, fds, ch), Inked(fat, data, fds), IInv', torn' = NoPath,
         fds' = fds, leaked' = leaked, NEW p \in Path, NEW q \in Path, Exists(p), ~ EntryOf(p).dir, ~ InUse(p),
         MayCreate(q), Vacant(DirOf(q)) # {}, NEW more, Fresh(more), NEW s \in Seq(Cell),
         s = FileCells(p), Len(s) <= MaxSize, Len(s) <= Capacity(1 + Len(more)),
         fat' = Released(CopyFat(more), Chain(fat, EntryOf(p).first)),
         data' = DeletedEntry(PutCell(Forgotten(CopyData(q, more, s), Chain(fat, EntryOf(p).first)),
                                      DirOf(q), Min(Vacant(DirOf(q))),
                                      Entry(Last(q), NewCluster, Len(s), FALSE)), p)
  PROVE  Result
<1>1. PICK a, t, c, i, g, d : /\ a = NewCluster /\ t = <<a>> \o more /\ c = DirOf(q)
                              /\ i = Min(Vacant(DirOf(q))) /\ g = CopyFat(more) /\ d = CopyData(q, more, s)
  OBVIOUS
<1>2. PICK pc, pi, pa, old, n : /\ pc = DirOf(p) /\ pi = SlotOf(p) /\ pa = EntryOf(p).first
                                /\ old = ch[pa] /\ n = Len(s)
  OBVIOUS
<1>3. /\ t \in Seq(Cluster) /\ Len(t) = 1 + Len(more) /\ \A m \in 1..Len(t) : t[m] \in Cluster /\ fat[t[m]] = 0
      /\ \A r \in 1..Len(t), o \in Offset : Spot(r, o) <= n => d[t[r]][o] = s[Spot(r, o)]
      /\ \A y \in Cluster : fat[y] # 0 => g[y] = fat[y] /\ (y # c => d[y] = data[y])
      /\ d \in Cells
  BY <1>1, <1>2, CopyIs, SMTT(30) DEF CopyHolds
<1>4. /\ SoundTree(data) /\ data \in Cells /\ fat \in [Cluster -> FatEntry] /\ Layout(fat, ch)
      /\ SoundTree(data') /\ fat' \in [Cluster -> FatEntry]
  BY AfterIs DEF Sound, SoundTree, Layout
<1>5. /\ Place(data, p, pc, pi) /\ Slot(data, pc, pi) /\ data[pc][pi] = EntryOf(p) /\ pc \in Cluster
      /\ pi \in Offset /\ IsDirectory(data, pc) /\ pa \in Cluster /\ Chain(fat, pa) = old
      /\ old \in Seq(Cluster) /\ IsChain(fat, pa, old)
      /\ \A x \in Cluster, j \in Offset : Slot(data, x, j) /\ data[x][j].first = pa => x = pc /\ j = pi
  BY <1>2, PathIs
<1>6. c \in Cluster /\ IsDirectory(data, c)
      /\ \/ c = Root /\ Len(q) = 1
         \/ /\ Len(q) = 2
            /\ \E k \in Offset : /\ Slot(data, Root, k) /\ data[Root][k].dir
                                 /\ data[Root][k].first = c /\ data[Root][k].name = Head(q)
  <2>1. DirOf(q) # 0
    BY DEF MayCreate
  <2> QED BY <1>1, <1>4, <2>1, PathPlace
<1>7. PICK last : /\ Sound(fat', data', leaked, fds, last) /\ last[a] = t /\ Renamed(p, q, n, data')
  <2>1. more \in Seq(Cluster) /\ Once(more) /\ \A m \in 1..Len(more) : fat[more[m]] = 0 /\ more[m] # NewCluster
    BY DEF Fresh
  <2>2. LET o == Chain(fat, EntryOf(p).first)
            new == Entry(Last(q), NewCluster, Len(s), FALSE)
            e == PutCell(Forgotten(CopyData(q, more, s), o), DirOf(q), Min(Vacant(DirOf(q))), new)
        IN  \E w : /\ Sound(Released(CopyFat(more), o), DeletedEntry(e, p), leaked, fds, w)
                   /\ w[NewCluster] = <<NewCluster>> \o more
                   /\ Renamed(p, q, Len(s), DeletedEntry(e, p))
    BY <2>1, RenamedSound, ZenonT(60)
  <2> QED BY <1>1, <1>2, <2>2
<1>8. /\ ~ (c = pc /\ i = pi) /\ data'[c][i] = Entry(Last(q), a, n, FALSE)
      /\ \A x \in Cluster, j \in Offset :
            /\ Slot(data', x, j) <=> (Slot(data, x, j) \/ (x = c /\ j = i)) /\ ~ (x = pc /\ j = pi)
            /\ Slot(data, x, j) /\ ~ (x = pc /\ j = pi) => data'[x][j] = data[x][j] /\ ~ (x = c /\ j = i)
  BY <1>1, <1>2, <1>7 DEF Renamed
<1>9. data'[c][i].name = Last(q) /\ data'[c][i].first = a /\ data'[c][i].size = n /\ ~ data'[c][i].dir
  <2>1. IsEntry(q, n, data')
    BY <1>7, RenamedEntry
  <2> QED BY <1>1, <2>1 DEF IsEntry
<1>10. a \in Cluster /\ fat[a] = 0 /\ i \in Offset
  <2>1. a \in Cluster /\ fat[a] = 0
    BY <1>1, NewClusterIs
  <2>2. FALSE \in BOOLEAN /\ (FALSE => Len(q) = 1)
    OBVIOUS
  <2>3. MayAdd(Zeroed(data, <<NewCluster>>), DirOf(q), Min(Vacant(DirOf(q))), Last(q), NewCluster, 0, FALSE)
    BY <2>2, CreateMayAdd
  <2> QED BY <1>1, <2>1, <2>3 DEF MayAdd
<1>11. Slot(data', c, i) /\ ~ Slot(data', pc, pi)
  BY <1>5, <1>6, <1>8, <1>10
<1>12. ~ Slot(data, c, i)
  BY <1>6, <1>8, <1>10
\* The chain of the copy
<1>13. IsChain(fat', a, t)
  <2>1. Layout(fat', last) /\ t # <<>>
    BY <1>3, <1>7, <1>10 DEF Sound, Fresh
  <2> QED BY <1>7, <1>10, <2>1, ChainFacts
<1>14. ASSUME NEW y \in Cluster, ~ InChain(ch, pa, y)
       PROVE  fat'[y] = g[y] /\ (y # c /\ y # pc => data'[y] = d[y])
  <2>1. \A m \in 1..Len(old) : old[m] # y
    BY <1>2, <1>14 DEF InChain
  <2>4. fat' = Released(g, old)
    BY <1>1, <1>2, <1>5
  <2>5. Released(g, old)[y] = g[y]
    BY <1>5, <2>1, ReleasedIs
  <2>2. fat'[y] = g[y]
    BY <2>4, <2>5
  <2>3. ASSUME y # c, y # pc PROVE data'[y] = d[y]
    <3>1. PICK w : w = Forgotten(d, old)
      OBVIOUS
    <3>2. w \in Cells /\ w[y] = d[y]
      BY <1>3, <1>5, <2>1, <3>1, ZeroedIs
    <3>3. data' = PutCell(PutCell(w, c, i, Entry(Last(q), a, n, FALSE)), pc, pi, Deleted)
      BY <1>1, <1>2, <1>5, <3>1 DEF DeletedEntry
    <3> QED BY <2>3, <3>2, <3>3 DEF PutCell, Cells
  <2> QED BY <2>2, <2>3
<1>15. ASSUME NEW r \in 1..Len(t), NEW o \in Offset, Spot(r, o) <= n
       PROVE  data'[t[r]][o] = s[Spot(r, o)]
  <2>1. PICK y \in Cluster : y = t[r] /\ fat[y] = 0
    BY <1>3
  <2>2. ~ InChain(ch, pa, y) /\ ~ IsDirectory(data, y)
    BY <2>1, FreeIsNew, <1>5
  <2>3. data'[y] = d[y]
    BY <1>5, <1>6, <1>14, <2>2
  <2> QED BY <1>3, <1>15, <2>1, <2>3
<1>16. n = Len(s) /\ n <= Capacity(Len(t)) /\ s \in Seq(Cell)
  BY <1>2, <1>3
<1>17. \A y \in Cluster : fat'[y] # fat[y] \/ data'[y] # data[y] =>
          fat[y] = 0 \/ IsDirectory(data, y) \/ InChain(ch, pa, y)
  <2> SUFFICES ASSUME NEW y \in Cluster, fat[y] # 0, ~ IsDirectory(data, y), ~ InChain(ch, pa, y)
               PROVE  fat'[y] = fat[y] /\ data'[y] = data[y]
    OBVIOUS
  <2>1. y # c /\ y # pc
    BY <1>5, <1>6
  <2>2. fat'[y] = g[y] /\ data'[y] = d[y]
    BY <1>14, <2>1
  <2>3. g[y] = fat[y] /\ d[y] = data[y]
    BY <1>3, <2>1
  <2> QED BY <2>2, <2>3
<1>18. MovedTo(ch, p, q, pc, pi, pa, s, n, c, i, a, t)
  BY <1>2, <1>6, <1>8, <1>9, <1>10, <1>13, <1>15, <1>16, <1>17 DEF MovedTo
<1>19. ~ Exists(q)
  BY DEF MayCreate
<1> QED BY <1>18, <1>19, MovedSeen

\* Renaming a file: it is moved, or it stays where it was when the card is full.
LEMMA FileRenameSeen ==
  ASSUME NEW ch, Sound(fat, data, leaked, fds, ch), Inked(fat, data, fds), torn = NoPath, IInv',
         NEW p \in Path, NEW q \in Path, FileRename(p, q)
  PROVE  Result
<1>1. PICK more, s : Renames(p, q, more, s)
  BY RenameIs
<1>2. /\ Exists(p) /\ ~ EntryOf(p).dir /\ ~ InUse(p) /\ MayCreate(q) /\ Vacant(DirOf(q)) # {}
      /\ leaked' = leaked /\ fds' = fds /\ torn' = NoPath /\ Fresh(more) /\ s \in Seq(Cell)
  BY <1>1 DEF Renames, Fresh
<1>3. PICK old, new, c, i : /\ old = Chain(fat, EntryOf(p).first) /\ new = <<NewCluster>> \o more
                            /\ c = DirOf(q) /\ i = Min(Vacant(DirOf(q)))
  OBVIOUS
<1>4. CASE /\ s = FileCells(p) /\ Len(s) <= MaxSize /\ Len(s) <= Capacity(1 + Len(more))
           /\ fat' = Released(CopyFat(more), old)
           /\ data' = DeletedEntry(PutCell(Forgotten(CopyData(q, more, s), old), c, i,
                                           Entry(Last(q), NewCluster, Len(s), FALSE)), p)
  BY <1>2, <1>3, <1>4, RenamedSeen
<1>5. CASE /\ fat' = Released(CopyFat(more), new)
           /\ data' = PutCell(Forgotten(CopyData(q, more, s), new), c, i, Deleted)
  BY <1>2, <1>3, <1>5, RefusedSeen
<1> QED BY <1>1, <1>3, <1>4, <1>5 DEF Renames

(***************************************************************************)
(* The operations                                                          *)
(***************************************************************************)

\* A removal takes p away, or is interrupted on it.
LEMMA RemovalSeen ==
  ASSUME NEW ch, Sound(fat, data, leaked, fds, ch), Inked(fat, data, fds), torn = NoPath, IInv',
         NEW p \in Path, Exists(p), ~ InUse(p), EntryOf(p).dir => IsEmpty(EntryOf(p).first), Removal(p)
  PROVE  Result
<1>1. PICK s : s = Chain(fat, EntryOf(p).first)
  OBVIOUS
<1>2. CASE RemovalInterrupted(p, s)
  BY <1>1, <1>2, RemovalInterruptedSeen
<1>3. CASE /\ fat' = Released(fat, s) /\ data' = DeletedEntry(Forgotten(data, s), p)
           /\ fds' = fds /\ torn' = NoPath
  BY <1>1, <1>3, RemovedSeen
<1> QED BY <1>1, <1>2, <1>3 DEF Removal

\* Deleting a file
LEMMA FileDeleteSeen ==
  ASSUME NEW ch, Sound(fat, data, leaked, fds, ch), Inked(fat, data, fds), torn = NoPath, IInv',
         NEW p \in Path, FileDelete(p)
  PROVE  Result
<1>1. Exists(p) /\ ~ EntryOf(p).dir /\ ~ InUse(p) /\ Removal(p)
  BY DEF FileDelete, IsFile
<1> QED BY <1>1, RemovalSeen

\* Deleting an empty directory: no handle is on it, for handles are on files.
LEMMA DirDeleteSeen ==
  ASSUME NEW ch, Sound(fat, data, leaked, fds, ch), Inked(fat, data, fds), torn = NoPath, IInv',
         NEW p \in Path, DirDelete(p)
  PROVE  Result
<1>1. Exists(p) /\ EntryOf(p).dir /\ IsEmpty(EntryOf(p).first) /\ Removal(p)
  BY DEF DirDelete, IsDir
<1>2. ~ InUse(p)
  BY <1>1 DEF InUse, Uses, EntryOf, Sound, Hands, InPlace
<1> QED BY <1>1, <1>2, RemovalSeen

\* A new entry that no handle is on, whether or not the disk has it
LEMMA CreateEntrySeen ==
  ASSUME NEW ch, Sound(fat, data, leaked, fds, ch), Inked(fat, data, fds), torn = NoPath, IInv',
         NEW p \in Path, NEW b \in BOOLEAN, b => Len(p) = 1, CreateEntry(p, b), fds' = fds
  PROVE  Result
<1>1. \A g \in Handle : fds'[g].open =>
         fds'[g] = fds[g] \/ (fds'[g].first = NewCluster /\ fds'[g].size = 0)
  OBVIOUS
<1> QED BY <1>1, CreatedSeen

\* Making a directory, or failing to
LEMMA DirCreateSeen ==
  ASSUME NEW ch, Sound(fat, data, leaked, fds, ch), Inked(fat, data, fds), torn = NoPath, IInv',
         NEW p \in Path, DirCreate(p)
  PROVE  Result
<1>1. CASE CreateFails(p)
  BY <1>1, CreateFailsSeen
<1>2. CASE Len(p) = 1 /\ ((CreateSucceeds(p, TRUE) /\ UNCHANGED fds) \/ CreateUnsaved(p, TRUE))
  <2>1. PICK b \in BOOLEAN : b = TRUE
    OBVIOUS
  <2>2. CreateEntry(p, b) /\ fds' = fds /\ (b => Len(p) = 1)
    BY <1>2, <2>1 DEF CreateSucceeds, CreateUnsaved
  <2> QED BY <2>2, CreateEntrySeen
<1> QED BY <1>1, <1>2 DEF DirCreate

\* Making a file of which the disk does not know
LEMMA CreateUnsavedSeen ==
  ASSUME NEW ch, Sound(fat, data, leaked, fds, ch), Inked(fat, data, fds), torn = NoPath, IInv',
         NEW p \in Path, CreateUnsaved(p, FALSE)
  PROVE  Result
<1>1. PICK b \in BOOLEAN : b = FALSE
  OBVIOUS
<1>2. CreateEntry(p, b) /\ fds' = fds /\ (b => Len(p) = 1)
  BY <1>1 DEF CreateUnsaved
<1> QED BY <1>2, CreateEntrySeen

\* The entry of p goes from view, and p with it.
LEMMA GoesFromViewSeen ==
  ASSUME torn = NoPath, NEW p \in Path, GoesFromView(p)
  PROVE  Result
<1>1. Exists(p) /\ torn' = p /\ fat' = fat /\ data' = data
  BY DEF GoesFromView
<1>2. ASSUME NEW q \in Path PROVE AsBefore(q)
  <2>1. \A d, n : SlotIn(d, n)' = SlotIn(d, n)
    BY <1>1 DEF SlotIn
  <2>2. DirOf(q)' = DirOf(q)
    BY <1>1, <2>1 DEF DirOf
  <2>3. Exists(q)' <=> Exists(q)
    BY <2>1, <2>2 DEF Exists
  <2>4. EntryOf(q)' = EntryOf(q)
    BY <1>1, <2>1, <2>2 DEF EntryOf, SlotOf
  <2>5. FileCells(q)' = FileCells(q)
    BY <1>1, <2>4 DEF FileCells
  <2> QED BY <2>3, <2>4, <2>5 DEF AsBefore
<1>3. AllBefore({p})
  BY <1>2 DEF AllBefore
<1>4. torn' # NoPath
  BY <1>1, PathShape
<1> QED BY <1>1, <1>3, <1>4 DEF Result, Outcome

\* Opening a file that popen creates: it is empty, and so is the handle.
LEMMA OpenCreatedSeen ==
  ASSUME NEW ch, Sound(fat, data, leaked, fds, ch), Inked(fat, data, fds), torn = NoPath, IInv',
         NEW h \in Handle, NEW p \in Path, NEW flags \in Flags, OpenCreated(h, p, flags)
  PROVE  Result
<1>1. PICK b \in BOOLEAN : b = FALSE
  OBVIOUS
<1>2. PICK x : x = HandleOn(DirOf(p), Min(Vacant(DirOf(p))), Entry(Last(p), NewCluster, 0, b), flags)
  OBVIOUS
<1>3. x.first = NewCluster /\ x.size = 0
  BY <1>2, EntryFields DEF HandleOn
<1>4. CreateEntry(p, b) /\ ~ b /\ (fds' = fds \/ fds' = [fds EXCEPT ![h] = x])
  BY <1>1, <1>2 DEF OpenCreated, CreateSucceeds
<1>5. fds \in [Handle -> {Closed} \cup File]
  BY DEF Sound, Hands
<1>6. ASSUME NEW g \in Handle, fds'[g].open
      PROVE  fds'[g] = fds[g] \/ (fds'[g].first = NewCluster /\ fds'[g].size = 0)
  BY <1>3, <1>4, <1>5
<1> QED BY <1>4, <1>6, CreatedSeen

\* Opening, in each of its ways
LEMMA PopenSeen ==
  ASSUME NEW ch, Sound(fat, data, leaked, fds, ch), Inked(fat, data, fds), torn = NoPath, IInv',
         NEW h \in Handle, NEW p \in Path, NEW flags \in Flags, Popen(h, p, flags)
  PROVE  Result
<1>1. CASE OpenExisting(h, p, flags)
  BY <1>1, OpenExistingSeen
<1>2. CASE OpenTruncated(h, p, flags)
  BY <1>2, OpenTruncatedSeen
<1>3. CASE OpenCreated(h, p, flags)
  BY <1>3, OpenCreatedSeen
<1>4. CASE CreateFails(p)
  BY <1>4, CreateFailsSeen
<1>5. CASE TruncationInterrupted(p)
  BY <1>5, TruncationInterruptedSeen
<1>6. CASE CreateUnsaved(p, FALSE)
  BY <1>6, CreateUnsavedSeen
<1> QED BY <1>1, <1>2, <1>3, <1>4, <1>5, <1>6 DEF Popen

\* Closing, with or without the directory entry written
LEMMA PcloseSeen ==
  ASSUME NEW ch, Sound(fat, data, leaked, fds, ch), Inked(fat, data, fds), torn = NoPath, IInv',
         NEW h \in Handle, Pclose(h)
  PROVE  Result
<1>1. data' = data \/ data' = UpdatedEntry(data, fds[h])
  BY DEF Pclose
<1> QED BY <1>1, CloseUnrecordedSeen, CloseRecordedSeen

(***************************************************************************)
(* The invariant that the two theorems below rest on: besides IInv, what   *)
(* the files and the handles hold was written.  Every step keeps it, and   *)
(* does to the paths what Outcome says.                                    *)
(***************************************************************************)
WInv == IInv /\ (Intact => Inked(fat, data, fds))

\* The heart of both: the outcome of each operation.
LEMMA StepSeen ==
  ASSUME WInv, IInv', Next
  PROVE  Result
<1>1. torn = NoPath
  BY DEF Next
<1>2. Inked(fat, data, fds)
  BY <1>1 DEF WInv, Intact
<1>3. PICK ch : Sound(fat, data, leaked, fds, ch)
  BY <1>1 DEF WInv, IInv, VInv, Intact, Kept
<1>4. ASSUME NEW p \in Path, DirCreate(p) PROVE Result
  BY <1>1, <1>2, <1>3, <1>4, DirCreateSeen
<1>5. ASSUME NEW p \in Path, DirDelete(p) PROVE Result
  BY <1>1, <1>2, <1>3, <1>5, DirDeleteSeen
<1>6. ASSUME NEW p \in Path, FileDelete(p) PROVE Result
  BY <1>1, <1>2, <1>3, <1>6, FileDeleteSeen
<1>7. ASSUME NEW p \in Path, NEW q \in Path, FileRename(p, q) PROVE Result
  BY <1>1, <1>2, <1>3, <1>7, FileRenameSeen
<1>8. ASSUME NEW p \in Path, NEW q \in Path, RenameFails(p, q) PROVE Result
  BY <1>1, <1>2, <1>3, <1>8, CreateFailsSeen, CreateUnsavedSeen DEF RenameFails
<1>9. ASSUME NEW h \in Handle, NEW p \in Path, NEW flags \in Flags, Popen(h, p, flags) PROVE Result
  BY <1>1, <1>2, <1>3, <1>9, PopenSeen
<1>10. ASSUME NEW h \in Handle, MovePosition(h) PROVE Result
  BY <1>1, <1>2, <1>3, <1>10, MovePositionSeen
<1>11. ASSUME NEW h \in Handle, Pclose(h) PROVE Result
  BY <1>1, <1>2, <1>3, <1>11, PcloseSeen
<1>12. ASSUME NEW h \in Handle, NEW v \in Value, NEW n \in 1..MaxWrite,
              Pwrite(h, [i \in 1..n |-> Unit(v)])
       PROVE  Result
  BY <1>1, <1>2, <1>3, <1>12, PwriteSeen
<1>13. ASSUME NEW p \in Path, GoesFromView(p) PROVE Result
  BY <1>1, <1>13, GoesFromViewSeen
<1> QED BY <1>4, <1>5, <1>6, <1>7, <1>8, <1>9, <1>10, <1>11, <1>12, <1>13 DEF Next

\* An empty volume shows nothing.
LEMMA InitSeen ==
  Init => WInv /\ \A p \in Path : ~ Exists(p)
<1> SUFFICES ASSUME Init PROVE WInv /\ \A p \in Path : ~ Exists(p)
  OBVIOUS
<1>1. IInv
  BY InitIInv
<1>2. torn = NoPath /\ \A h \in Handle : ~ fds[h].open
  BY DEF Init, Closed
<1>3. \A i \in Offset : data[Root][i].kind # "entry"
  BY CellMembers, ClusterFacts DEF Init, ZeroCluster
<1>4. \A c \in Cluster, i \in Offset : ~ Slot(data, c, i)
  BY <1>2, <1>3, ClusterFacts DEF Init, Slot, IsDirectory
<1>5. Inked(fat, data, fds)
  BY <1>2, <1>4 DEF Inked
<1>6. ASSUME NEW p \in Path, Exists(p) PROVE FALSE
  <2>1. PICK ch : Sound(fat, data, leaked, fds, ch)
    BY <1>1, <1>2 DEF IInv, VInv, Intact, Kept
  <2>2. Slot(data, DirOf(p), SlotOf(p)) /\ DirOf(p) \in Cluster /\ SlotOf(p) \in Offset
    BY <1>6, <2>1, PathIs
  <2> QED BY <1>4, <2>2
<1> QED BY <1>1, <1>5, <1>6 DEF WInv

\* Every reachable state satisfies the invariant.
LEMMA WritesInvariance ==
  Spec => []WInv
<1>1. Init => WInv
  BY InitSeen
<1>2. WInv /\ [Next]_vars => WInv'
  <2> SUFFICES ASSUME WInv, [Next]_vars PROVE WInv'
    OBVIOUS
  <2>1. IInv'
    BY StepIInv DEF WInv
  <2>2. CASE UNCHANGED vars
    <3>1. fat' = fat /\ data' = data /\ fds' = fds /\ torn' = torn
      BY <2>2 DEF vars
    <3>2. ASSUME Intact' PROVE Inked(fat', data', fds')
      <4>1. Inked(fat, data, fds)
        BY <3>1, <3>2 DEF WInv, Intact
      <4> QED BY <3>1, <4>1
    <3> QED BY <2>1, <3>2 DEF WInv
  <2>3. CASE Next
    BY <2>1, <2>3, StepSeen DEF Result, WInv, Intact
  <2> QED BY <2>2, <2>3
<1> QED BY <1>1, <1>2, PTL DEF Spec

\* What a step does to p when it is not among the paths that it concerns.
LEMMA OutcomeElsewhere ==
  ASSUME NEW W, AllBefore(W), NEW p \in Path \ W, Exists(p), ~ EntryOf(p).dir
  PROVE  FileCells(p)' = FileCells(p)
BY DEF AllBefore, AsBefore

(***************************************************************************)
(* fat32_write through a handle changes what a file holds only in the      *)
(* stretch that it writes, however the chain grows on the way and whether  *)
(* or not the write gets to its end; every other operation, on this path   *)
(* or another, leaves the file as it was or empties it.                    *)
(***************************************************************************)
THEOREM WritesStayInPlace ==
  Spec => WritesInPlace
<1> DEFINE InPlaceFor(p) ==
             LET old == FileCells(p)
                 new == FileCells(p)'
             IN  Intact' /\ ~EntryOf(p).dir /\ new # old /\ new # <<>> =>
                    \E h \in Handle :
                       /\ Uses(h, p)
                       /\ \A i \in 1..Len(old) : new[i] # old[i] =>
                             /\ i > AppendPosition(fds[h])
                             /\ i <= AppendPosition(fds[h]) + MaxWrite
<1>1. WInv /\ WInv' /\ [Next]_vars => [\A p \in Named \cap Named' : InPlaceFor(p)]_vars
  <2> SUFFICES ASSUME WInv, WInv', Next, NEW p \in Path, Exists(p), Exists(p)', ~ EntryOf(p).dir, Intact',
                      FileCells(p)' # FileCells(p), FileCells(p)' # <<>>
               PROVE  \E h \in Handle :
                         /\ Uses(h, p)
                         /\ \A i \in 1..Len(FileCells(p)) : FileCells(p)'[i] # FileCells(p)[i] =>
                               /\ i > AppendPosition(fds[h])
                               /\ i <= AppendPosition(fds[h]) + MaxWrite
    BY DEF Named
  <2>1. Outcome /\ torn' = NoPath
    BY StepSeen DEF WInv, Result, Intact
  <2>2. ASSUME NEW W, AllBefore(W), p \notin W PROVE FALSE
    BY <2>2, OutcomeElsewhere
  <2>3. ASSUME AllBefore({}) PROVE FALSE
    BY <2>2, <2>3
  <2>4. ASSUME NEW q \in Path, AllBefore({q}), Made(q) \/ Gone(q) \/ Emptied(q) \/ Grown(q) PROVE Grown(p)
    <3>1. p = q
      BY <2>2, <2>4
    <3> QED BY <2>4, <3>1 DEF Made, Gone, Emptied
  <2>5. ASSUME NEW q \in Path, torn' = q PROVE FALSE
    BY <2>1, <2>5, PathShape
  <2>6. ASSUME NEW q \in Path, NEW r \in Path, AllBefore({q, r}), Moved(q, r) PROVE FALSE
    <3>1. p = q \/ p = r
      BY <2>2, <2>6
    <3> QED BY <2>6, <3>1 DEF Moved
  <2>7. Grown(p)
    BY <2>1, <2>3, <2>4, <2>5, <2>6 DEF Outcome
  <2> QED BY <2>7 DEF Grown, InStretch
<1> QED BY <1>1, WritesInvariance, PTL DEF Spec, WritesInPlace

(***************************************************************************)
(* What the paths show                                                     *)
(***************************************************************************)
View == [p \in Path |-> Shown(p)]

\* A path shows nothing, a directory, or a file with its cells.
LEMMA ShownIs ==
  ASSUME NEW p \in Path, ~ Under(p, torn)
  PROVE  /\ ~ Exists(p) => Shown(p) = S!NoFile
         /\ Exists(p) /\ EntryOf(p).dir => Shown(p) = S!Directory
         /\ Exists(p) /\ ~ EntryOf(p).dir => Shown(p) = S!File(FileCells(p))
BY DEF Shown, S!NoFile, S!Directory, S!File

\* The same after a step
LEMMA ShownIsNext ==
  ASSUME NEW p \in Path, ~ Under(p, torn')
  PROVE  /\ ~ Exists(p)' => Shown(p)' = S!NoFile
         /\ Exists(p)' /\ EntryOf(p)'.dir => Shown(p)' = S!Directory
         /\ Exists(p)' /\ ~ EntryOf(p)'.dir => Shown(p)' = S!File(FileCells(p)')
BY DEF Shown, S!NoFile, S!Directory, S!File

\* Paths that show the same leave the view the same, up to the one or two that changed.
LEMMA ViewIs ==
  /\ \A p \in Path : View[p] = Shown(p) /\ View'[p] = Shown(p)'
  /\ \A W : (\A p \in Path \ W : Shown(p)' = Shown(p)) =>
        /\ W = {} => View' = View
        /\ \A p : W = {p} => View' = [View EXCEPT ![p] = View'[p]]
        /\ \A p \in Path, q \in Path : W = {p, q} /\ p # q =>
              View' = [View EXCEPT ![p] = Shown(p)', ![q] = Shown(q)']
BY DEF View

\* What a path shows that a step does not concern stays.
LEMMA ShownElsewhere ==
  ASSUME torn = NoPath, NEW W, AllBefore(W), NEW p \in Path \ W, ~ Under(p, torn')
  PROVE  Shown(p)' = Shown(p)
<1>1. ~ Under(p, torn)
  BY DEF Under
<1>2. /\ Exists(p)' <=> Exists(p)
      /\ Exists(p) => EntryOf(p)'.dir = EntryOf(p).dir
      /\ Exists(p) /\ ~ EntryOf(p).dir => FileCells(p)' = FileCells(p)
  BY DEF AllBefore, AsBefore
<1>3. CASE ~ Exists(p)
  BY <1>1, <1>2, <1>3, ShownIs, ShownIsNext
<1>4. CASE Exists(p) /\ EntryOf(p).dir
  BY <1>1, <1>2, <1>4, ShownIs, ShownIsNext
<1>5. CASE Exists(p) /\ ~ EntryOf(p).dir
  BY <1>1, <1>2, <1>5, ShownIs, ShownIsNext
<1> QED BY <1>3, <1>4, <1>5

\* The four ways in which an operation alters its path are those of FileStore.
LEMMA AlteredIs ==
  ASSUME torn = NoPath, torn' = NoPath, NEW p \in Path, AllBefore({p}),
         Made(p) \/ Gone(p) \/ Emptied(p) \/ Grown(p)
  PROVE  S!Alter(p)
<1>1. \A q : ~ Under(q, torn) /\ ~ Under(q, torn')
  BY DEF Under
<1>2. View' = [View EXCEPT ![p] = View'[p]]
  <2>1. ASSUME NEW q \in Path \ {p} PROVE Shown(q)' = Shown(q)
    BY <1>1, ShownElsewhere
  <2> QED BY <2>1, ViewIs
<1>3. View[p] = Shown(p) /\ View'[p] = Shown(p)'
  BY ViewIs
<1>4. CASE Made(p)
  <2>1. View[p] = S!NoFile
    BY <1>1, <1>3, <1>4, ShownIs DEF Made
  <2>2. View'[p] = S!Directory \/ View'[p] = S!File(<<>>)
    BY <1>1, <1>3, <1>4, ShownIsNext DEF Made
  <2>3. S!Create(p)
    BY <2>1, <2>2 DEF S!Create, View
  <2> QED BY <1>2, <2>3 DEF S!Alter, View
<1>5. CASE Gone(p)
  <2>1. View'[p] = S!NoFile
    BY <1>1, <1>3, <1>5, ShownIsNext DEF Gone
  <2>2. CASE EntryOf(p).dir
    <3>1. View[p] = S!Directory
      BY <1>1, <1>3, <1>5, <2>2, ShownIs DEF Gone
    <3>2. ASSUME NEW q \in Path, Len(q) > Len(p) /\ SubSeq(q, 1, Len(p)) = p PROVE View[q] = S!NoFile
      <4>1. ~ Exists(q)
        BY <1>5, <2>2, <3>2 DEF Gone
      <4> QED BY <1>1, <4>1, ShownIs, ViewIs
    <3>3. S!Remove(p)
      BY <2>1, <3>1, <3>2 DEF S!Remove, View
    <3> QED BY <1>2, <3>3 DEF S!Alter, View
  <2>3. CASE ~ EntryOf(p).dir
    <3>1. View[p] = S!File(FileCells(p))
      BY <1>1, <1>3, <1>5, <2>3, ShownIs DEF Gone
    <3>2. View[p].kind = "file"
      BY <3>1 DEF S!File
    <3>3. S!Remove(p)
      BY <2>1, <3>2 DEF S!Remove, View
    <3> QED BY <1>2, <3>3 DEF S!Alter, View
  <2> QED BY <2>2, <2>3
<1>6. CASE Emptied(p)
  <2>1. View[p] = S!File(FileCells(p)) /\ View'[p] = S!File(<<>>)
    BY <1>1, <1>3, <1>6, ShownIs, ShownIsNext DEF Emptied
  <2>2. View[p].kind = "file"
    BY <2>1 DEF S!File
  <2>3. S!Truncate(p)
    BY <2>1, <2>2 DEF S!Truncate, View
  <2> QED BY <1>2, <2>3 DEF S!Alter, View
<1>7. CASE Grown(p)
  <2>1. PICK old, new : old = FileCells(p) /\ new = FileCells(p)'
    OBVIOUS
  <2>2. View[p] = S!File(old) /\ View'[p] = S!File(new)
    BY <1>1, <1>3, <1>7, <2>1, ShownIs, ShownIsNext DEF Grown
  <2>3. /\ View[p].kind = "file" /\ View[p].cells = old
        /\ View'[p].kind = "file" /\ View'[p].cells = new
    BY <2>2 DEF S!File
  <2>4. new \in Seq({Unit(v) : v \in Value}) /\ Len(new) \in Len(old)..MaxSize
    BY <1>7, <2>1 DEF Grown, Units
  <2>5. S!Store(p)
    BY <2>3, <2>4 DEF S!Store, View
  <2> QED BY <1>2, <2>5 DEF S!Alter, View
<1> QED BY <1>4, <1>5, <1>6, <1>7

\* An interruption, or an entry that goes from view, loses the path that it
\* hits with what is below it, and no other.
LEMMA LostIs ==
  ASSUME torn = NoPath, NEW p \in Path, AllBefore({p}), Exists(p), torn' = p
  PROVE  S!Lose(p)
<1>1. ~ Under(p, torn)
  BY DEF Under
<1>2. /\ p # NoPath /\ Len(p) >= Len(p) /\ SubSeq(p, 1, Len(p)) = p
  <2>1. p # NoPath
    BY PathShape
  <2>2. PICK x, y : p = <<x>> \/ p = <<x, y>>
    BY PathAssumption
  <2>3. p \in Seq({x, y}) /\ Len(p) \in Nat
    <3>1. PICK X : X = {x, y}
      OBVIOUS
    <3>2. x \in X /\ y \in X
      BY <3>1
    <3>3. <<x>> \in Seq(X) /\ <<x, y>> \in Seq(X)
      BY <3>2
    <3>4. \A s \in Seq(X) : Len(s) \in Nat
      OBVIOUS
    <3> QED BY <2>2, <3>1, <3>3, <3>4
  <2> QED BY <2>1, <2>3, SubSeqFull
<1>3. \A q : Under(q, torn') <=> Len(q) >= Len(p) /\ SubSeq(q, 1, Len(p)) = p
  BY <1>2 DEF Under
<1>4. ASSUME NEW q \in Path PROVE Shown(q)' = IF Under(q, torn') THEN S!Lost ELSE Shown(q)
  <2>1. CASE Under(q, torn')
    BY <2>1 DEF Shown, S!Lost
  <2>2. CASE ~ Under(q, torn')
    <3>1. q # p
      BY <1>2, <1>3, <2>2
    <3> QED BY <2>2, <3>1, ShownElsewhere
  <2> QED BY <2>1, <2>2
<1>5. View[p] # S!NoFile
  <2>1. Shown(p) = S!Directory \/ Shown(p) = S!File(FileCells(p))
    BY <1>1, ShownIs
  <2> QED BY <2>1, ViewIs DEF S!Directory, S!File, S!NoFile
<1>6. View' = [q \in Path |-> IF Len(q) >= Len(p) /\ SubSeq(q, 1, Len(p)) = p THEN S!Lost ELSE View[q]]
  <2>1. ASSUME NEW q \in Path
        PROVE  Shown(q)' = IF Len(q) >= Len(p) /\ SubSeq(q, 1, Len(p)) = p THEN S!Lost ELSE View[q]
    BY <1>3, <1>4, ViewIs
  <2>2. View' = [q \in Path |-> Shown(q)']
    BY DEF View
  <2> QED BY <2>1, <2>2
<1>7. View'[p] = S!Lost
  BY <1>2, <1>6
<1> QED BY <1>5, <1>6, <1>7 DEF S!Lose, View

\* A renamed file is at its new path with what it held, and at no other.
LEMMA MovedIs ==
  ASSUME torn = NoPath, torn' = NoPath, NEW p \in Path, NEW q \in Path, AllBefore({p, q}), Moved(p, q)
  PROVE  S!Rename(p, q)
<1>1. \A r : ~ Under(r, torn) /\ ~ Under(r, torn')
  BY DEF Under
<1>2. p # q
  BY DEF Moved
<1>3. View' = [View EXCEPT ![p] = Shown(p)', ![q] = Shown(q)']
  <2>1. PICK W : W = {p, q}
    OBVIOUS
  <2>2. \A r \in Path \ W : Shown(r)' = Shown(r)
    <3>1. ASSUME NEW r \in Path \ W PROVE Shown(r)' = Shown(r)
      BY <1>1, <2>1, ShownElsewhere
    <3> QED BY <3>1
  <2> QED BY <1>2, <2>1, <2>2, ViewIs
<1>4. View[p] = Shown(p) /\ View[q] = Shown(q)
  BY ViewIs
<1>5. View[p] = S!File(FileCells(p)) /\ View[q] = S!NoFile
  BY <1>1, <1>4, ShownIs DEF Moved
<1>6. Shown(p)' = S!NoFile /\ Shown(q)' = View[p]
  BY <1>1, <1>5, ShownIsNext DEF Moved
<1>7. View[p].kind = "file"
  BY <1>5 DEF S!File
<1>8. View' = [View EXCEPT ![p] = S!NoFile, ![q] = View[p]]
  BY <1>3, <1>6
<1> QED BY <1>5, <1>7, <1>8 DEF S!Rename, View

(***************************************************************************)
(* The FAT, the directories, the clusters and the handles of fat32.c and   *)
(* fd.c implement FileStore, on a disk of any size: an operation concerns  *)
(* the path it is called with (a rename two), every other path shows what  *)
(* it showed, and a file never shows a cell that was not written to it -   *)
(* also after failures of the card, as long as none cut short a removal or *)
(* a truncation, or took from view an entry that was not written, and then *)
(* only that path is lost, with what is below it.                          *)
(***************************************************************************)
THEOREM FileStoreImplemented ==
  Spec => ImplementsFileStore
<1>1. Init => S!Init
  <2> SUFFICES ASSUME Init PROVE S!Init
    OBVIOUS
  <2>1. ASSUME NEW p \in Path PROVE Shown(p) = S!NoFile
    <3>1. ~ Under(p, torn) /\ ~ Exists(p)
      BY InitSeen DEF Init, Under
    <3> QED BY <3>1, ShownIs
  <2>2. View = [p \in Path |-> S!NoFile]
    BY <2>1 DEF View
  <2> QED BY <2>2 DEF S!Init, View
<1>2. WInv /\ WInv' /\ [Next]_vars => [S!Next]_View
  <2> SUFFICES ASSUME WInv, WInv', [Next]_vars PROVE S!Next \/ View' = View
    OBVIOUS
  <2>1. CASE UNCHANGED vars
    <3>1. ASSUME NEW p \in Path PROVE Shown(p)' = Shown(p)
      BY <2>1 DEF vars, Shown, Under, Exists, EntryOf, FileCells, DirOf, SlotOf, SlotIn
    <3> QED BY <3>1, ViewIs
  <2>2. CASE Next
    <3>1. Outcome /\ torn = NoPath
      BY <2>2, StepSeen DEF WInv, Result, Next
    <3>2. CASE AllBefore({}) /\ torn' = NoPath
      <4>1. ASSUME NEW p \in Path PROVE Shown(p)' = Shown(p)
        <5>1. ~ Under(p, torn')
          BY <3>2 DEF Under
        <5> QED BY <3>1, <3>2, <5>1, ShownElsewhere
      <4> QED BY <4>1, ViewIs
    <3>3. ASSUME NEW p \in Path, AllBefore({p}), torn' = NoPath,
                 Made(p) \/ Gone(p) \/ Emptied(p) \/ Grown(p)
          PROVE  S!Next
      <4>1. S!Alter(p)
        BY <3>1, <3>3, AlteredIs
      <4> QED BY <4>1 DEF S!Next
    <3>4. ASSUME NEW p \in Path, AllBefore({p}), Exists(p), torn' = p PROVE S!Next
      <4>1. S!Lose(p)
        BY <3>1, <3>4, LostIs
      <4> QED BY <4>1 DEF S!Next
    <3>5. ASSUME NEW p \in Path, NEW q \in Path, AllBefore({p, q}), torn' = NoPath, Moved(p, q)
          PROVE  S!Next
      <4>1. S!Rename(p, q)
        BY <3>1, <3>5, MovedIs
      <4> QED BY <4>1 DEF S!Next
    <3> QED BY <3>1, <3>2, <3>3, <3>4, <3>5 DEF Outcome
  <2> QED BY <2>1, <2>2
<1> QED BY <1>1, <1>2, WritesInvariance, PTL DEF Spec, ImplementsFileStore, S!Spec, View
=============================================================================
