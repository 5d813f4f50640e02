--------------------------- MODULE SequenceLemmas ---------------------------
(***************************************************************************)
(* Lemmas that the proofs of this project share: what the library          *)
(* operators Min, RemoveAt and InsertAt return, sequences without          *)
(* repetition, induction over an interval of natural numbers, and that     *)
(* functions defined by recursion exist.                                   *)
(***************************************************************************)
EXTENDS Integers, SequencesExt, SequenceTheorems, WellFoundedInduction, TLAPS

(***************************************************************************)
(* A non-empty set of natural numbers has a least element:                 *)
(* scheduler_next stops at the first ready process, kmalloc at the first   *)
(* block that fits.                                                        *)
(***************************************************************************)
LEMMA MinExists ==
    ASSUME NEW S \in SUBSET Nat, S # {}
    PROVE  Min(S) \in S /\ \A y \in S : Min(S) <= y
<1> DEFINE R == {ss \in Nat \X Nat : ss[1] < ss[2]}
<1>1. IsWellFoundedOn(R, Nat)
  BY NatLessThanWellFounded DEF OpToRel
<1>2. PICK x \in S : \A y \in S : ~ (<<y, x>> \in R)
  <2> HIDE DEF R
  <2> QED BY <1>1, WFMin
<1>3. \A y \in S : x <= y
  <2> TAKE y \in S
  <2>1. x \in Nat /\ y \in Nat
    OBVIOUS
  <2>2. ~ (y < x)
    BY <1>2, <2>1
  <2> QED BY <2>1, <2>2
<1> QED BY <1>3 DEF Min

(***************************************************************************)
(* What is left of a sequence when its element at position i is removed.   *)
(***************************************************************************)
LEMMA RemoveAtLemma ==
    ASSUME NEW S, NEW q \in Seq(S), NEW i \in 1..Len(q)
    PROVE  /\ RemoveAt(q, i) \in Seq(S)
           /\ Len(RemoveAt(q, i)) = Len(q) - 1
           /\ \A k \in 1..(Len(q) - 1) :
                 RemoveAt(q, i)[k] = IF k < i THEN q[k] ELSE q[k + 1]
<1> DEFINE a == SubSeq(q, 1, i - 1)
           b == SubSeq(q, i + 1, Len(q))
<1>1. /\ a \in Seq(S) /\ Len(a) = i - 1
      /\ \A k \in 1..(i - 1) : a[k] = q[k]
  BY SubSeqProperties
<1>2. /\ b \in Seq(S) /\ Len(b) = Len(q) - i
      /\ \A k \in 1..(Len(q) - i) : b[k] = q[i + k]
  BY SubSeqProperties
<1>3. RemoveAt(q, i) = a \o b
  BY DEF RemoveAt
<1> HIDE DEF a, b
<1>4. /\ a \o b \in Seq(S)
      /\ Len(a \o b) = Len(a) + Len(b)
      /\ \A k \in 1..(Len(a) + Len(b)) :
            (a \o b)[k] = IF k <= Len(a) THEN a[k] ELSE b[k - Len(a)]
  BY <1>1, <1>2, ConcatProperties
<1> QED BY <1>1, <1>2, <1>3, <1>4

(***************************************************************************)
(* A sequence with e inserted at position i.                               *)
(***************************************************************************)
LEMMA InsertAtLemma ==
    ASSUME NEW S, NEW q \in Seq(S), NEW i \in 1..(Len(q) + 1), NEW e \in S
    PROVE  /\ InsertAt(q, i, e) \in Seq(S)
           /\ Len(InsertAt(q, i, e)) = Len(q) + 1
           /\ \A k \in 1..(Len(q) + 1) :
                 InsertAt(q, i, e)[k] = IF k < i THEN q[k]
                                        ELSE IF k = i THEN e ELSE q[k - 1]
<1> DEFINE a == SubSeq(q, 1, i - 1)
           b == SubSeq(q, i, Len(q))
           ae == a \o <<e>>
<1>1. /\ a \in Seq(S) /\ Len(a) = i - 1
      /\ \A k \in 1..(i - 1) : a[k] = q[k]
  BY SubSeqProperties
<1>2. /\ b \in Seq(S) /\ Len(b) = Len(q) - i + 1
      /\ \A k \in 1..(Len(q) - i + 1) : b[k] = q[i + k - 1]
  BY SubSeqProperties
<1>3. InsertAt(q, i, e) = ae \o b
  BY DEF InsertAt
<1>4. <<e>> \in Seq(S) /\ Len(<<e>>) = 1 /\ <<e>>[1] = e
  OBVIOUS
<1> HIDE DEF a, b
<1>5. /\ ae \in Seq(S)
      /\ Len(ae) = i
      /\ \A k \in 1..i : ae[k] = IF k < i THEN q[k] ELSE e
  BY <1>1, <1>4, ConcatProperties
<1> HIDE DEF ae
<1>6. /\ ae \o b \in Seq(S)
      /\ Len(ae \o b) = Len(ae) + Len(b)
      /\ \A k \in 1..(Len(ae) + Len(b)) :
            (ae \o b)[k] = IF k <= Len(ae) THEN ae[k] ELSE b[k - Len(ae)]
  BY <1>2, <1>5, ConcatProperties
<1> QED BY <1>2, <1>3, <1>5, <1>6

(***************************************************************************)
(* A sequence without repetition: a run list on which no process is twice. *)
(***************************************************************************)
Injective(q) == \A i, j \in 1..Len(q) : i # j => q[i] # q[j]

(***************************************************************************)
(* Taking one element out of such a sequence takes that element, and       *)
(* nothing else, out of its set.                                           *)
(***************************************************************************)
LEMMA RemoveOnce ==
    ASSUME NEW S, NEW q \in Seq(S), Injective(q), NEW i \in 1..Len(q)
    PROVE  /\ RemoveAt(q, i) \in Seq(S)
           /\ ToSet(RemoveAt(q, i)) = ToSet(q) \ {q[i]}
           /\ Injective(RemoveAt(q, i))
<1> DEFINE r == RemoveAt(q, i)
<1>1. /\ r \in Seq(S) /\ Len(r) = Len(q) - 1
      /\ \A k \in 1..(Len(q) - 1) : r[k] = IF k < i THEN q[k] ELSE q[k + 1]
  BY RemoveAtLemma
<1> HIDE DEF r
<1>2. ToSet(r) \subseteq ToSet(q) \ {q[i]}
  <2> SUFFICES ASSUME NEW k \in 1..(Len(q) - 1)
               PROVE  r[k] \in ToSet(q) /\ r[k] # q[i]
    BY <1>1 DEF ToSet
  <2>1. PICK m \in 1..Len(q) : m # i /\ r[k] = q[m]
    <3>1. CASE k < i
      BY <1>1, <3>1
    <3>2. CASE k >= i
      <4>1. k + 1 \in 1..Len(q) /\ k + 1 # i /\ r[k] = q[k + 1]
        BY <1>1, <3>2
      <4> QED BY <4>1
    <3> QED BY <3>1, <3>2
  <2> QED BY <2>1 DEF ToSet, Injective
<1>3. ToSet(q) \ {q[i]} \subseteq ToSet(r)
  <2> SUFFICES ASSUME NEW j \in 1..Len(q), q[j] # q[i]
               PROVE  q[j] \in ToSet(r)
    BY DEF ToSet
  <2>1. CASE j < i
    BY <1>1, <2>1 DEF ToSet
  <2>2. CASE j > i
    <3>1. j - 1 \in 1..(Len(q) - 1) /\ r[j - 1] = q[j]
      BY <1>1, <2>2
    <3> QED BY <1>1, <3>1 DEF ToSet
  <2> QED BY <2>1, <2>2
<1>4. Injective(r)
  <2> SUFFICES ASSUME NEW j \in 1..(Len(q) - 1), NEW k \in 1..(Len(q) - 1),
                      j < k
               PROVE  r[j] # r[k]
    BY <1>1 DEF Injective
  <2>1. j # k /\ j # k + 1 /\ j + 1 # k + 1
    OBVIOUS
  <2>2. /\ r[j] = q[j] \/ (r[j] = q[j + 1] /\ j >= i)
        /\ (r[k] = q[k] /\ k < i) \/ r[k] = q[k + 1]
    BY <1>1
  <2>3. \A m, n \in 1..Len(q) : m # n => q[m] # q[n]
    BY DEF Injective
  <2>4. /\ j \in 1..Len(q) /\ j + 1 \in 1..Len(q)
        /\ k \in 1..Len(q) /\ k + 1 \in 1..Len(q)
    OBVIOUS
  <2>5. CASE r[k] = q[k] /\ k < i
    BY <2>1, <2>2, <2>3, <2>4, <2>5
  <2>6. CASE r[k] = q[k + 1]
    BY <2>1, <2>2, <2>3, <2>4, <2>6
  <2> QED BY <2>2, <2>5, <2>6
<1> QED BY <1>1, <1>2, <1>3, <1>4 DEF r

(***************************************************************************)
(* Appending a new element keeps the sequence free of repetition.          *)
(***************************************************************************)
LEMMA AppendOnce ==
    ASSUME NEW S, NEW q \in Seq(S), NEW p \in S, Injective(q), p \notin ToSet(q)
    PROVE  /\ Append(q, p) \in Seq(S)
           /\ ToSet(Append(q, p)) = ToSet(q) \cup {p}
           /\ Injective(Append(q, p))
<1> DEFINE r == Append(q, p)
<1>1. /\ r \in Seq(S) /\ Len(r) = Len(q) + 1 /\ r[Len(q) + 1] = p
      /\ \A k \in 1..Len(q) : r[k] = q[k]
  BY AppendProperties
<1> HIDE DEF r
<1>2. ToSet(r) = ToSet(q) \cup {p}
  <2>1. ToSet(r) \subseteq ToSet(q) \cup {p}
    BY <1>1 DEF ToSet
  <2>2. \A k \in 1..Len(q) : q[k] \in ToSet(r)
    BY <1>1 DEF ToSet
  <2>3. p \in ToSet(r)
    <3>1. Len(q) + 1 \in DOMAIN r
      BY <1>1
    <3> QED BY <1>1, <3>1 DEF ToSet
  <2>4. \A x \in ToSet(q) : \E k \in 1..Len(q) : x = q[k]
    BY DEF ToSet
  <2> QED BY <2>1, <2>2, <2>3, <2>4
<1>3. Injective(r)
  BY <1>1 DEF Injective, ToSet
<1> QED BY <1>1, <1>2, <1>3 DEF r

(***************************************************************************)
(* A walk of Len(q) steps round a sequence, from its place s, stays on it  *)
(* and comes to every element.                                             *)
(***************************************************************************)
OnCircle(q, s, k) == IF s + k <= Len(q) THEN q[s + k] ELSE q[s + k - Len(q)]

LEMMA CircleLemma ==
    ASSUME NEW S, NEW q \in Seq(S), NEW s, Len(q) # 0 => s \in 1..Len(q)
    PROVE  /\ \A k \in 0..(Len(q) - 1) : OnCircle(q, s, k) \in ToSet(q)
           /\ \A p \in ToSet(q) : \E k \in 0..(Len(q) - 1) : OnCircle(q, s, k) = p
<1>1. ASSUME NEW k \in 0..(Len(q) - 1)
      PROVE  OnCircle(q, s, k) \in ToSet(q)
  <2>1. CASE s + k <= Len(q)
    BY <2>1 DEF OnCircle, ToSet
  <2>2. CASE s + k > Len(q)
    BY <2>2 DEF OnCircle, ToSet
  <2> QED BY <2>1, <2>2
<1>2. ASSUME NEW j \in 1..Len(q)
      PROVE  \E k \in 0..(Len(q) - 1) : OnCircle(q, s, k) = q[j]
  <2>1. CASE j >= s
    <3>1. j - s \in 0..(Len(q) - 1) /\ OnCircle(q, s, j - s) = q[j]
      BY <2>1 DEF OnCircle
    <3> QED BY <3>1
  <2>2. CASE j < s
    <3>1. /\ j + Len(q) - s \in 0..(Len(q) - 1)
          /\ OnCircle(q, s, j + Len(q) - s) = q[j]
      BY <2>2 DEF OnCircle
    <3> QED BY <3>1
  <2> QED BY <2>1, <2>2
<1>3. \A p \in ToSet(q) : \E j \in 1..Len(q) : p = q[j]
  BY DEF ToSet
<1> QED BY <1>1, <1>2, <1>3

(***************************************************************************)
(* Induction over 0..n, stated with a set so that it can be cited.         *)
(***************************************************************************)
LEMMA IntervalInduction ==
    ASSUME NEW n \in Nat, NEW Good, 0 \in Good,
           \A k \in 0..(n - 1) : k \in Good => k + 1 \in Good
    PROVE  \A k \in 0..n : k \in Good
<1> DEFINE Bad == (0..n) \ Good
<1> SUFFICES ASSUME Bad # {} PROVE FALSE
  OBVIOUS
<1> HIDE DEF Bad
<1>1. PICK m \in Bad : \A y \in Bad : m <= y
  <2>1. Bad \in SUBSET Nat
    BY DEF Bad
  <2> QED BY <2>1, MinExists
<1>2. m \in 1..n /\ m \notin Good
  BY <1>1 DEF Bad
<1>3. m - 1 \notin Bad /\ m - 1 \in 0..(n - 1)
  BY <1>1, <1>2 DEF Bad
<1> QED BY <1>2, <1>3 DEF Bad

(***************************************************************************)
(* A function on 0..n that is defined from its value one below exists, so  *)
(* that the recursive functions of the modules are what their definitions  *)
(* say.                                                                    *)
(***************************************************************************)
StepsFrom(f, base, n, S, next_) ==
  /\ f \in [0..n -> S] /\ f[0] = base
  /\ \A i \in 1..n : f[i] = next_[i][f[i - 1]]

LEMMA RecursionExists ==
    ASSUME NEW S, NEW n \in Nat, NEW base \in S, NEW next_ \in [1..n -> [S -> S]]
    PROVE  \E f : StepsFrom(f, base, n, S, next_)
<1> DEFINE Good == {k \in 0..n : \E f \in [0..k -> S] :
                        f[0] = base /\ \A i \in 1..k : f[i] = next_[i][f[i - 1]]}
<1>1. 0 \in Good
  <2> DEFINE f == [i \in 0..0 |-> base]
  <2>1. f \in [0..0 -> S] /\ f[0] = base /\ \A i \in 1..0 : f[i] = next_[i][f[i - 1]]
    OBVIOUS
  <2> HIDE DEF f
  <2> QED BY <2>1
<1>2. ASSUME NEW k \in 0..(n - 1), k \in Good
      PROVE  k + 1 \in Good
  <2>1. PICK f \in [0..k -> S] :
          f[0] = base /\ \A i \in 1..k : f[i] = next_[i][f[i - 1]]
    BY <1>2
  <2> DEFINE g == [i \in 0..(k + 1) |-> IF i <= k THEN f[i] ELSE next_[k + 1][f[k]]]
  <2>2. g \in [0..(k + 1) -> S]
    BY <2>1
  <2>3. g[0] = base
    BY <2>1
  <2>4. ASSUME NEW i \in 1..(k + 1)
        PROVE  g[i] = next_[i][g[i - 1]]
    <3>1. CASE i <= k
      BY <2>1, <3>1
    <3>2. CASE i = k + 1
      <4>1. g[i] = next_[k + 1][f[k]] /\ g[i - 1] = f[k]
        BY <3>2
      <4> QED BY <3>2, <4>1
    <3> QED BY <3>1, <3>2
  <2> HIDE DEF g
  <2>5. k + 1 \in 0..n
    OBVIOUS
  <2> QED BY <2>2, <2>3, <2>4, <2>5
<1> HIDE DEF Good
<1>3. \A k \in 0..n : k \in Good
  BY <1>1, <1>2, IntervalInduction
<1>4. n \in Good
  <2>1. n \in 0..n
    OBVIOUS
  <2> QED BY <1>3, <2>1
<1> QED BY <1>4 DEF Good, StepsFrom
=============================================================================
