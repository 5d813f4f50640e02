----------------------------- MODULE Containers -----------------------------
(***************************************************************************)
(* What programs keep things in: Vector, string and std::function of the   *)
(* SDK (compiler/sdk/lib).  Each owns at most one block of memory and      *)
(* copies it, passes it on or gives it back.  An object that was destroyed *)
(* is as one made without an argument: both hold nothing.                  *)
(*                                                                         *)
(* What a block holds is a sequence: the elements that are constructed in  *)
(* a vector, the characters of a string, or the one thing a function       *)
(* calls.  What is pushed into a vector is no element of it, and no        *)
(* function changes itself while it is called.                             *)
(***************************************************************************)
EXTENDS Integers, SequencesExt

CONSTANTS Vectors, Strings, Functions,  \* the objects of a program
          HeapBlocks,      \* what malloc may return
          Null,            \* nullptr
          Unowned,         \* in place of the contents of a block that is malloc's
          Elements,        \* elements, characters and what can be called
          StringLiterals,  \* strings in the program
          SizeValues,      \* values of a size_t
          ElementSize,     \* sizeof(T)
          Reserves,        \* capacities asked for
          MaxHeld          \* longest vector and sum (a bound)

Objects == Vectors \cup Strings \cup Functions

ASSUME ContainersAssumption ==
    /\ Vectors \cap Strings = {} /\ Vectors \cap Functions = {} /\ Strings \cap Functions = {}
    /\ Null \notin HeapBlocks /\ StringLiterals \subseteq Seq(Elements) /\ Unowned \notin Seq(Elements)
    /\ SizeValues \in Nat \ {0} /\ ElementSize \in Nat \ {0}
    /\ Reserves \subseteq 0..(SizeValues - 1) /\ MaxHeld \in Nat

VARIABLES data_,      \* data_, _data or target_
          size_,      \* size_ or _length, and whether there is a target_
          capacity_,  \* capacity_
          contents,   \* of each block, what is in it, or Unowned
          meant,      \* of each object, the value it is to have
          crashed     \* the program wrote through a null pointer

bvars == <<data_, size_, capacity_, contents, meant, crashed>>

ContainersInit ==
    /\ data_ = [o \in Objects |-> Null]
    /\ size_ = [o \in Objects |-> 0]
    /\ capacity_ = [v \in Vectors |-> 0]
    /\ contents = [b \in HeapBlocks |-> Unowned]
    /\ meant = [o \in Objects |-> <<>>]
    /\ crashed = FALSE

-----------------------------------------------------------------------------
(* malloc may fail at any time; free and delete take a null pointer. *)

Answers == {b \in HeapBlocks : contents[b] = Unowned} \cup {Null}

Freed(m, b) == IF b = Null THEN m ELSE [m EXCEPT ![b] = Unowned]

Inside(o) == IF data_[o] = Null THEN <<>> ELSE contents[data_[o]]

Means(o, value) == meant' = [meant EXCEPT ![o] = value]

\* Object o has a new block with `value` in it instead of what it had.  The
\* memory that new did not get is written nonetheless.
Renewed(o, value, meaning) ==
    \E b \in Answers :
        IF b = Null
        THEN crashed' = TRUE /\ UNCHANGED <<data_, size_, capacity_, contents, meant>>
        ELSE /\ data_' = [data_ EXCEPT ![o] = b]
             /\ size_' = [size_ EXCEPT ![o] = Len(value)]
             /\ contents' = Freed([contents EXCEPT ![b] = value], data_[o])
             /\ Means(o, meaning) /\ UNCHANGED <<capacity_, crashed>>

\* Object o gives back what it has.
Emptied(o) ==
    /\ data_' = [data_ EXCEPT ![o] = Null]
    /\ size_' = [size_ EXCEPT ![o] = 0]
    /\ contents' = Freed(contents, data_[o])
    /\ Means(o, <<>>) /\ UNCHANGED crashed

\* Object o gives back what it has and takes what another one has.
Taken(o, from) ==
    /\ data_' = [data_ EXCEPT ![o] = data_[from], ![from] = Null]
    /\ size_' = [size_ EXCEPT ![o] = size_[from], ![from] = 0]
    /\ contents' = Freed(contents, data_[o])
    /\ meant' = [meant EXCEPT ![o] = meant[from], ![from] = <<>>]
    /\ UNCHANGED crashed

-----------------------------------------------------------------------------
(* Vector *)

MostElements == (SizeValues - 1) \div ElementSize

NextCapacity(v) == IF capacity_[v] # 0 THEN (capacity_[v] * 2) % SizeValues ELSE 4

\* reserve: a larger block with the elements moved into it, if there is one.
Relocated(v, n, b, value) ==
    /\ data_' = [data_ EXCEPT ![v] = b]
    /\ capacity_' = [capacity_ EXCEPT ![v] = n]
    /\ contents' = Freed([contents EXCEPT ![b] = value], data_[v])

Reserve(v, n) ==
    /\ n > capacity_[v] /\ n <= MostElements
    /\ \E b \in Answers \ {Null} : Relocated(v, n, b, Inside(v))
    /\ UNCHANGED <<size_, meant, crashed>>

MayGrow(v) == NextCapacity(v) >= capacity_[v] /\ NextCapacity(v) <= MostElements

PushBack(v, x) ==
    /\ Len(meant[v]) < MaxHeld
    /\ \/ /\ size_[v] # capacity_[v]
          /\ contents' = [contents EXCEPT ![data_[v]] = Append(@, x)]
          /\ UNCHANGED <<data_, capacity_>>
       \/ /\ size_[v] = capacity_[v] /\ MayGrow(v)
          /\ \E b \in Answers \ {Null} : Relocated(v, NextCapacity(v), b, Append(Inside(v), x))
    /\ size_' = [size_ EXCEPT ![v] = @ + 1]
    /\ Means(v, Append(meant[v], x)) /\ UNCHANGED crashed

\* pop_back, or clear down to n elements.
Shortened(v, n) ==
    /\ size_[v] # 0
    /\ size_' = [size_ EXCEPT ![v] = n]
    /\ contents' = [contents EXCEPT ![data_[v]] = SubSeq(@, 1, n)]
    /\ Means(v, SubSeq(meant[v], 1, n))
    /\ UNCHANGED <<data_, capacity_, crashed>>

PopBack(v) == Shortened(v, size_[v] - 1)
ClearVector(v) == Shortened(v, 0)

\* The move constructor, or operator= with another vector that is given up.
MoveVectorKeepingCapacity(v, from) == v # from /\ Taken(v, from) /\ UNCHANGED capacity_

MoveVector(v, from) ==
    /\ v # from /\ Taken(v, from)
    /\ capacity_' = [capacity_ EXCEPT ![v] = capacity_[from], ![from] = 0]

DestroyVector(v) == Emptied(v) /\ capacity_' = [capacity_ EXCEPT ![v] = 0]

-----------------------------------------------------------------------------
(* string *)

\* string(str), for an object that holds nothing.
MakeString(s, value) == data_[s] = Null /\ Renewed(s, value, value)

\* string(other) and operator=
CopyString(s, other) ==
    /\ s # other
    /\ IF data_[other] # Null THEN Renewed(s, Inside(other), meant[other])
       ELSE Emptied(s) /\ UNCHANGED capacity_

\* operator+: the result is a new string.
AddStrings(s, left, right) ==
    /\ data_[s] = Null /\ Len(meant[left]) + Len(meant[right]) <= MaxHeld
    /\ Renewed(s, Inside(left) \o Inside(right), meant[left] \o meant[right])

DestroyString(s) == Emptied(s) /\ UNCHANGED capacity_

-----------------------------------------------------------------------------
(* function *)

\* function(callable), and operator= by way of a replacement
MakeFunction(f, callable) == Renewed(f, <<callable>>, <<callable>>)

\* function(other) and operator=: the target is cloned.
CopyFunction(f, other) ==
    /\ f # other
    /\ IF data_[other] # Null THEN Renewed(f, Inside(other), meant[other])
       ELSE Emptied(f) /\ UNCHANGED capacity_

MoveFunction(f, other) == f # other /\ Taken(f, other) /\ UNCHANGED capacity_

DestroyFunction(f) == Emptied(f) /\ UNCHANGED capacity_

-----------------------------------------------------------------------------

VectorStep(v) ==
    \/ \E n \in Reserves : Reserve(v, n)
    \/ \E x \in Elements : PushBack(v, x)
    \/ PopBack(v) \/ ClearVector(v) \/ DestroyVector(v)
    \/ \E from \in Vectors : MoveVector(v, from)

StringStep(s) ==
    \/ \E value \in StringLiterals : MakeString(s, value)
    \/ \E other \in Strings : CopyString(s, other)
    \/ \E left, right \in Strings : AddStrings(s, left, right)
    \/ DestroyString(s)

FunctionStep(f) ==
    \/ \E x \in Elements : MakeFunction(f, x)
    \/ \E other \in Functions : CopyFunction(f, other) \/ MoveFunction(f, other)
    \/ DestroyFunction(f)

ContainersNext ==
    /\ ~crashed
    /\ \/ \E v \in Vectors : VectorStep(v)
       \/ \E s \in Strings : StringStep(s)
       \/ \E f \in Functions : FunctionStep(f)

ContainersSpec == ContainersInit /\ [][ContainersNext]_bvars
-----------------------------------------------------------------------------
(* Properties *)

ContainersTypeOK ==
    /\ data_ \in [Objects -> HeapBlocks \cup {Null}]
    /\ size_ \in [Objects -> Nat] /\ capacity_ \in [Vectors -> Nat]
    /\ contents \in [HeapBlocks -> Seq(Elements) \cup {Unowned}]
    /\ meant \in [Objects -> Seq(Elements)]
    /\ crashed \in BOOLEAN

\* Every block is malloc's or one object's (the destructors and operator=).
OwnedOnce ==
    /\ \A o, p \in Objects : data_[o] = data_[p] /\ data_[o] # Null => o = p
    /\ \A b \in HeapBlocks : contents[b] # Unowned <=> \E o \in Objects : data_[o] = b

\* Every object has the value it was given, by copy, by move or in parts.
ValuesKept == \A o \in Objects : Inside(o) = meant[o] /\ size_[o] = Len(meant[o])

\* vector.hpp:61: what is constructed fits in what was allocated, whose size
\* in bytes did not wrap.
RoomForElements ==
    \A v \in Vectors :
        /\ size_[v] <= capacity_[v] /\ capacity_[v] * ElementSize < SizeValues
        /\ capacity_[v] = 0 <=> data_[v] = Null

\* Containers keep what they are given, for themselves, until they give it
\* back, also when memory runs out.
ContainersAreSound == ContainersTypeOK /\ OwnedOnce /\ ValuesKept /\ RoomForElements
=============================================================================
