-------------------------- MODULE EventPathProofs --------------------------
(***************************************************************************)
(* The event path implements a queue per application, for any number of    *)
(* applications, any size of the rings and any number of events.           *)
(***************************************************************************)
EXTENDS EventPath, SequenceTheorems, TLAPS

(***************************************************************************)
(* First, fifo.c: it implements a bounded first-in first-out queue, for    *)
(* every PROC_MAX_EVENTS.                                                  *)
(***************************************************************************)
(***************************************************************************)
(* The remainder of a number below twice the modulus.                      *)
(***************************************************************************)
LEMMA ModLemma ==
    ASSUME NEW n \in 0..(2 * MaxEvents)
    PROVE  /\ n < MaxEvents => n % MaxEvents = n
           /\ MaxEvents <= n /\ n < 2 * MaxEvents =>
                 n % MaxEvents = n - MaxEvents
           /\ n % MaxEvents \in Index
BY MaxEventsAssumption DEF Index

LEMMA AfterLemma ==
    ASSUME NEW i \in Index
    PROVE  After(i) = IF i + 1 = MaxEvents THEN 0 ELSE i + 1
<1>1. i + 1 \in 0..(2 * MaxEvents) /\ i + 1 <= MaxEvents
  BY MaxEventsAssumption DEF Index
<1> QED BY <1>1, ModLemma, MaxEventsAssumption DEF After, Index

(***************************************************************************)
(* The slots of a ring: each is an index, and the one after the last       *)
(* stored event is the tail.                                               *)
(***************************************************************************)
LEMMA SlotLemma ==
    ASSUME NEW q, FifoOK(q)
    PROVE  /\ \A k \in 1..MaxEvents : Slot(q, k) \in Index
           /\ \A j, k \in 1..MaxEvents : j # k => Slot(q, j) # Slot(q, k)
           /\ q.count < MaxEvents => Slot(q, q.count + 1) = q.tail
           /\ Slot(q, 1) = q.head
<1>1. q.head \in 0..(MaxEvents - 1) /\ q.count \in 0..MaxEvents
  BY DEF FifoOK, Fifo, Index
<1>2. ASSUME NEW k \in 1..MaxEvents
      PROVE  /\ Slot(q, k) \in Index
             /\ Slot(q, k) = IF q.head + k - 1 < MaxEvents
                             THEN q.head + k - 1
                             ELSE q.head + k - 1 - MaxEvents
  BY <1>1, ModLemma, MaxEventsAssumption DEF Slot, Index
<1>3. \A j, k \in 1..MaxEvents : j # k => Slot(q, j) # Slot(q, k)
  BY <1>1, <1>2, MaxEventsAssumption
<1>4. q.count < MaxEvents => Slot(q, q.count + 1) = q.tail
  BY <1>1, MaxEventsAssumption DEF Slot, FifoOK
<1>5. Slot(q, 1) = q.head
  BY <1>1, <1>2, MaxEventsAssumption
<1> QED BY <1>2, <1>3, <1>4, <1>5

(***************************************************************************)
(* A new queue is empty.                                                   *)
(***************************************************************************)
LEMMA FifoInitLemma == FifoOK(FifoInit) /\ Contents(FifoInit) = <<>>
<1>1. FifoInit \in Fifo
  BY MaxEventsAssumption DEF FifoInit, Fifo, Index
<1>2. (0 + 0) % MaxEvents = 0
  BY ModLemma, MaxEventsAssumption
<1>3. FifoOK(FifoInit)
  BY <1>1, <1>2 DEF FifoOK, FifoInit
<1>4. Contents(FifoInit) = <<>>
  BY DEF Contents, FifoInit
<1> QED BY <1>3, <1>4

(***************************************************************************)
(* What is in the queue is a sequence of events as long as the count.      *)
(***************************************************************************)
LEMMA ContentsType ==
    ASSUME NEW q, FifoOK(q)
    PROVE  /\ Contents(q) \in Seq(Event \cup {NoEvent})
           /\ Len(Contents(q)) = q.count
           /\ (Contents(q) = <<>>) <=> FifoIsEmpty(q)
<1>1. q.count \in 0..MaxEvents /\ q.buffer \in [Index -> Event \cup {NoEvent}]
  BY DEF FifoOK, Fifo
<1>2. \A k \in 1..q.count : q.buffer[Slot(q, k)] \in Event \cup {NoEvent}
  BY <1>1, SlotLemma, MaxEventsAssumption
<1>3. Contents(q) \in [1..q.count -> Event \cup {NoEvent}]
  BY <1>2 DEF Contents
<1>4. q.count \in Nat
  BY <1>1, MaxEventsAssumption
<1>5. Contents(q) \in Seq(Event \cup {NoEvent}) /\ Len(Contents(q)) = q.count
  BY <1>3, <1>4
<1> QED BY <1>4, <1>5 DEF FifoIsEmpty

(***************************************************************************)
(* What fifo_push and fifo_pop do to the fields.                           *)
(***************************************************************************)
LEMMA FifoFields ==
    ASSUME NEW q \in Fifo, NEW e
    PROVE  /\ FifoPush(q, e) = [buffer |-> [q.buffer EXCEPT ![q.tail] = e],
                                head |-> q.head, tail |-> After(q.tail),
                                count |-> q.count + 1]
           /\ FifoPop(q) = [buffer |-> q.buffer, head |-> After(q.head),
                            tail |-> q.tail, count |-> q.count - 1]
<1>1. q = [buffer |-> q.buffer, head |-> q.head,
           tail |-> q.tail, count |-> q.count]
  BY DEF Fifo
<1> DEFINE b == q.buffer
           h == q.head
           t == q.tail
           c == q.count
           rec == [buffer |-> b, head |-> h, tail |-> t, count |-> c]
<1>2. FifoPush(q, e) = [rec EXCEPT !.buffer[rec.tail] = e,
                                   !.tail = After(rec.tail), !.count = @ + 1]
  BY <1>1 DEF FifoPush
<1>3. FifoPop(q) = [rec EXCEPT !.head = After(rec.head), !.count = @ - 1]
  BY <1>1 DEF FifoPop
<1> HIDE DEF b, h, t, c
<1>4. /\ FifoPush(q, e) = [buffer |-> [b EXCEPT ![t] = e], head |-> h,
                           tail |-> After(t), count |-> c + 1]
      /\ FifoPop(q) = [buffer |-> b, head |-> After(h),
                       tail |-> t, count |-> c - 1]
  BY <1>2, <1>3
<1> QED BY <1>4 DEF b, h, t, c

(***************************************************************************)
(* fifo_push appends.                                                      *)
(***************************************************************************)
LEMMA FifoPushLemma ==
    ASSUME NEW q, FifoOK(q), ~FifoIsFull(q), NEW e \in Event \cup {NoEvent}
    PROVE  /\ FifoOK(FifoPush(q, e))
           /\ Contents(FifoPush(q, e)) = Append(Contents(q), e)
<1> DEFINE r == FifoPush(q, e)
<1>1. /\ q \in Fifo /\ q.count \in 0..(MaxEvents - 1)
      /\ q.head \in 0..(MaxEvents - 1) /\ q.tail \in Index
      /\ q.tail = (q.head + q.count) % MaxEvents
      /\ q.buffer \in [Index -> Event \cup {NoEvent}]
  BY MaxEventsAssumption DEF FifoOK, Fifo, FifoIsFull, Index
<1>a. r = [buffer |-> [q.buffer EXCEPT ![q.tail] = e], head |-> q.head,
           tail |-> After(q.tail), count |-> q.count + 1]
  BY <1>1, FifoFields
<1> HIDE DEF r
<1>2. /\ r.head = q.head /\ r.count = q.count + 1
      /\ r.tail = After(q.tail)
      /\ r.buffer = [q.buffer EXCEPT ![q.tail] = e]
  BY <1>a
<1>3. After(q.tail) \in Index
  BY <1>1, AfterLemma, MaxEventsAssumption DEF Index
<1>4. r \in Fifo
  <2>1. [q.buffer EXCEPT ![q.tail] = e] \in [Index -> Event \cup {NoEvent}]
    BY <1>1
  <2>2. q.head \in Index /\ q.count + 1 \in 0..MaxEvents
    BY <1>1, MaxEventsAssumption DEF Index
  <2> QED BY <1>a, <1>3, <2>1, <2>2 DEF Fifo
<1>5. After(q.tail) = (q.head + (q.count + 1)) % MaxEvents
  <2> DEFINE n == q.head + q.count
  <2>1. /\ n \in 0..(2 * MaxEvents) /\ n + 1 \in 0..(2 * MaxEvents)
        /\ n < 2 * MaxEvents /\ n + 1 < 2 * MaxEvents
        /\ q.head + (q.count + 1) = n + 1
    BY <1>1, MaxEventsAssumption
  <2>2. q.tail = n % MaxEvents
    BY <1>1
  <2> HIDE DEF n
  <2>3. q.tail = IF n < MaxEvents THEN n ELSE n - MaxEvents
    BY <2>1, <2>2, ModLemma, MaxEventsAssumption
  <2>4. (n + 1) % MaxEvents =
           IF n + 1 < MaxEvents THEN n + 1 ELSE n + 1 - MaxEvents
    BY <2>1, ModLemma, MaxEventsAssumption
  <2> QED BY <1>1, <2>1, <2>3, <2>4, AfterLemma, MaxEventsAssumption
<1>6. FifoOK(r)
  BY <1>2, <1>4, <1>5 DEF FifoOK
<1>7. \A k \in 1..(q.count + 1) : Slot(r, k) = Slot(q, k)
  BY <1>2 DEF Slot
<1>8. \A k \in 1..q.count : r.buffer[Slot(r, k)] = q.buffer[Slot(q, k)]
  <2>1. \A k \in 1..q.count : Slot(q, k) # q.tail /\ Slot(q, k) \in Index
    BY <1>1, SlotLemma, MaxEventsAssumption
  <2> QED BY <1>1, <1>2, <1>7, <2>1
<1>9. r.buffer[Slot(r, q.count + 1)] = e
  BY <1>1, <1>2, <1>7, SlotLemma, MaxEventsAssumption
<1> DEFINE s == Contents(q)
           t == Contents(r)
<1>10. /\ s \in Seq(Event \cup {NoEvent}) /\ Len(s) = q.count
       /\ t \in Seq(Event \cup {NoEvent}) /\ Len(t) = q.count + 1
  BY <1>2, <1>6, ContentsType
<1>11. \A k \in 1..(q.count + 1) : t[k] = IF k = q.count + 1 THEN e ELSE s[k]
  BY <1>1, <1>2, <1>8, <1>9 DEF Contents
<1> HIDE DEF s, t
<1>12. /\ Append(s, e) \in Seq(Event \cup {NoEvent})
       /\ Len(Append(s, e)) = Len(t)
       /\ \A k \in 1..Len(t) : t[k] = Append(s, e)[k]
  BY <1>1, <1>10, <1>11
<1>13. t = Append(s, e)
  BY <1>10, <1>12, SeqEqual
<1> QED BY <1>6, <1>13 DEF r, s, t

(***************************************************************************)
(* fifo_pop takes the oldest event.                                        *)
(***************************************************************************)
LEMMA FifoPopLemma ==
    ASSUME NEW q, FifoOK(q), ~FifoIsEmpty(q)
    PROVE  /\ FifoOK(FifoPop(q))
           /\ FifoFront(q) \in Event \cup {NoEvent}
           /\ Contents(q) = <<FifoFront(q)>> \o Contents(FifoPop(q))
<1> DEFINE r == FifoPop(q)
<1>1. /\ q \in Fifo /\ q.count \in 1..MaxEvents
      /\ q.head \in 0..(MaxEvents - 1)
      /\ q.tail = (q.head + q.count) % MaxEvents
      /\ q.buffer \in [Index -> Event \cup {NoEvent}]
  BY MaxEventsAssumption DEF FifoOK, Fifo, FifoIsEmpty, Index
<1>a. r = [buffer |-> q.buffer, head |-> After(q.head),
           tail |-> q.tail, count |-> q.count - 1]
  BY <1>1, FifoFields
<1> HIDE DEF r
<1>2. /\ r.head = After(q.head) /\ r.count = q.count - 1
      /\ r.tail = q.tail /\ r.buffer = q.buffer
  BY <1>a
<1>3. After(q.head) \in Index
  BY <1>1, AfterLemma, MaxEventsAssumption DEF Index
<1>4. r \in Fifo
  <2>1. q.tail \in Index /\ q.count - 1 \in 0..MaxEvents
    BY <1>1, MaxEventsAssumption DEF Fifo
  <2> QED BY <1>1, <1>a, <1>3, <2>1 DEF Fifo
<1>5. \A k \in 1..MaxEvents :
         (After(q.head) + k - 1) % MaxEvents = (q.head + k) % MaxEvents
  <2> TAKE k \in 1..MaxEvents
  <2>1. After(q.head) = IF q.head + 1 = MaxEvents THEN 0 ELSE q.head + 1
    BY <1>1, AfterLemma DEF Index
  <2>2. CASE q.head + 1 # MaxEvents
    <3>1. After(q.head) + k - 1 = q.head + k
      BY <1>1, <2>1, <2>2, MaxEventsAssumption
    <3> QED BY <3>1
  <2>3. CASE q.head + 1 = MaxEvents
    <3> DEFINE n == k - 1
    <3>1. /\ After(q.head) + k - 1 = n /\ q.head + k = n + MaxEvents
          /\ n \in 0..(2 * MaxEvents) /\ n + MaxEvents \in 0..(2 * MaxEvents)
          /\ n < MaxEvents
      BY <1>1, <2>1, <2>3, MaxEventsAssumption
    <3> HIDE DEF n
    <3>2. n % MaxEvents = n
      BY <3>1, ModLemma
    <3>3. (n + MaxEvents) % MaxEvents = n + MaxEvents - MaxEvents
      BY <3>1, ModLemma, MaxEventsAssumption
    <3> QED BY <3>1, <3>2, <3>3, MaxEventsAssumption
  <2> QED BY <2>2, <2>3
<1>6. (After(q.head) + (q.count - 1)) % MaxEvents = q.tail
  <2>1. After(q.head) \in Int /\ q.count \in Int
    BY <1>1, <1>3, MaxEventsAssumption DEF Index
  <2>2. After(q.head) + (q.count - 1) = After(q.head) + q.count - 1
    BY <2>1
  <2> QED BY <1>1, <1>5, <2>2
<1>7. FifoOK(r)
  BY <1>2, <1>4, <1>6 DEF FifoOK
<1>8. \A k \in 1..(q.count - 1) : Slot(r, k) = Slot(q, k + 1)
  BY <1>1, <1>2, <1>5, MaxEventsAssumption DEF Slot
<1> DEFINE s == Contents(q)
           t == Contents(r)
           f == FifoFront(q)
<1>9. /\ s \in Seq(Event \cup {NoEvent}) /\ Len(s) = q.count
      /\ t \in Seq(Event \cup {NoEvent}) /\ Len(t) = q.count - 1
  BY <1>2, <1>7, ContentsType
<1>10. f = s[1] /\ f \in Event \cup {NoEvent}
  BY <1>1, SlotLemma, MaxEventsAssumption DEF FifoFront, Contents, Index
<1>11. \A k \in 1..(q.count - 1) : t[k] = s[k + 1]
  BY <1>1, <1>2, <1>8, MaxEventsAssumption DEF Contents
<1> HIDE DEF s, t, f
<1>12. /\ <<f>> \o t \in Seq(Event \cup {NoEvent})
       /\ Len(<<f>> \o t) = Len(s)
       /\ \A k \in 1..Len(s) : s[k] = (<<f>> \o t)[k]
  BY <1>1, <1>9, <1>10, <1>11
<1>13. s = <<f>> \o t
  BY <1>9, <1>12, SeqEqual
<1> QED BY <1>7, <1>10, <1>13 DEF r, s, t, f

(***************************************************************************)
(* Then the path of an event.                                              *)
(***************************************************************************)

(***************************************************************************)
(* What a step that leaves application a alone does to it.                 *)
(***************************************************************************)
SameApp(a) ==
    /\ fifo'[a] = fifo[a] /\ thread'[a] = thread[a] /\ popped'[a] = popped[a]
    /\ pending'[a] = pending[a] /\ slot'[a] = slot[a]
    /\ main'[a] = main[a] /\ taken'[a] = taken[a]

LEMMA SameAppLemma ==
    ASSUME NEW a \in App, SameApp(a)
    PROVE  /\ InFlight(a)' = InFlight(a)
           /\ AppInv(a) => AppInv(a)'
BY DEF SameApp, InFlight, One, AppInv, Contents, Slot

(***************************************************************************)
(* Taking from or adding to a ring that holds events.                      *)
(***************************************************************************)
HoldsEvents(q) == \A k \in 1..q.count : Contents(q)[k] \in Event

LEMMA PopHolds ==
    ASSUME NEW q, FifoOK(q), ~FifoIsEmpty(q), HoldsEvents(q)
    PROVE  FifoFront(q) \in Event /\ HoldsEvents(FifoPop(q))
<1> DEFINE r == FifoPop(q)
           f == FifoFront(q)
           s == Contents(q)
           t == Contents(r)
<1>1. FifoOK(r) /\ f \in AnyEvent /\ s = <<f>> \o t
  BY FifoPopLemma DEF AnyEvent
<1>2. /\ s \in Seq(AnyEvent) /\ Len(s) = q.count /\ s # <<>>
      /\ t \in Seq(AnyEvent) /\ Len(t) = r.count
  BY <1>1, ContentsType DEF AnyEvent
<1> HIDE DEF r, f, s, t
<1>3. /\ Len(s) = Len(t) + 1 /\ s[1] = f
      /\ \A k \in 1..Len(t) : t[k] = s[k + 1]
  BY <1>1, <1>2
<1>4. \A k \in 1..Len(s) : s[k] \in Event
  BY <1>2 DEF HoldsEvents, s
<1>5. f \in Event /\ \A k \in 1..Len(t) : t[k] \in Event
  BY <1>2, <1>3, <1>4
<1> QED BY <1>2, <1>5 DEF HoldsEvents, r, f, t

LEMMA PushHolds ==
    ASSUME NEW q, FifoOK(q), ~FifoIsFull(q), HoldsEvents(q), NEW e \in Event
    PROVE  HoldsEvents(FifoPush(q, e))
<1> DEFINE r == FifoPush(q, e)
           s == Contents(q)
           t == Contents(r)
<1>1. FifoOK(r) /\ t = Append(s, e)
  BY FifoPushLemma
<1>2. /\ s \in Seq(AnyEvent) /\ Len(s) = q.count /\ Len(t) = r.count
  BY <1>1, ContentsType DEF AnyEvent
<1>3. \A k \in 1..Len(s) : s[k] \in Event
  BY <1>2 DEF HoldsEvents
<1> HIDE DEF r, s, t
<1>4. \A k \in 1..Len(t) : t[k] \in Event
  BY <1>1, <1>2, <1>3
<1> QED BY <1>2, <1>4 DEF HoldsEvents, r, t

----------------------------------------------------------------------------
(* What each step of an application does to its queue *)

(***************************************************************************)
(* The three places an event can be in user mode, and their types.         *)
(***************************************************************************)
InMain(a) == One(main[a] \in {"clear", "dispatch"}, taken[a])
InMailbox(a) == One(pending[a] /\ main[a] # "clear", slot[a])
InThread(a) == One(thread[a] \in {"store", "publish"}, popped[a])

LEMMA PlaceTypes ==
    ASSUME TypeOK, NEW a \in App
    PROVE  /\ InMain(a) \in Seq(AnyEvent)
           /\ InMailbox(a) \in Seq(AnyEvent)
           /\ InThread(a) \in Seq(AnyEvent)
           /\ Contents(fifo[a]) \in Seq(AnyEvent)
           /\ InFlight(a) \in Seq(AnyEvent)
           /\ InFlight(a) =
                InMain(a) \o InMailbox(a) \o InThread(a) \o Contents(fifo[a])
<1>1. taken[a] \in AnyEvent /\ slot[a] \in AnyEvent /\ popped[a] \in AnyEvent
  BY DEF TypeOK
<1>2. /\ InMain(a) \in Seq(AnyEvent) /\ InMailbox(a) \in Seq(AnyEvent)
      /\ InThread(a) \in Seq(AnyEvent)
  BY <1>1 DEF InMain, InMailbox, InThread, One
<1>3. Contents(fifo[a]) \in Seq(AnyEvent)
  BY ContentsType DEF TypeOK, AnyEvent
<1>4. InFlight(a) =
        InMain(a) \o InMailbox(a) \o InThread(a) \o Contents(fifo[a])
  BY DEF InFlight, InMain, InMailbox, InThread
<1>5. InFlight(a) \in Seq(AnyEvent)
  BY <1>2, <1>3, <1>4
<1> QED BY <1>2, <1>3, <1>4, <1>5

(***************************************************************************)
(* Facts on short sequences that the lemmas below use.                     *)
(***************************************************************************)
LEMMA Short ==
    ASSUME NEW S, NEW s \in Seq(S), NEW t \in Seq(S), NEW x \in S
    PROVE  /\ s \o <<>> = s /\ <<>> \o s = s
           /\ s \o (<<x>> \o t) = (s \o <<x>>) \o t
           /\ s \o Append(t, x) = Append(s \o t, x)
           /\ <<x>> \o t # <<>> /\ Tail(<<x>> \o t) = t
<1>1. s \o <<>> = s /\ <<>> \o s = s
  BY ConcatEmptySeq
<1>2. s \o (<<x>> \o t) = (s \o <<x>>) \o t
  BY ConcatAssociative
<1>3. s \o Append(t, x) = Append(s \o t, x)
  OBVIOUS
<1>4. <<x>> \o t # <<>> /\ Tail(<<x>> \o t) = t
  OBVIOUS
<1> QED BY <1>1, <1>2, <1>3, <1>4

(***************************************************************************)
(* Steps that move no event.                                               *)
(***************************************************************************)
LEMMA NoEventMoves ==
    ASSUME PathInv, NEW a \in App,
           \/ Draw(a) \/ CreateThread(a) \/ ThreadTest(a) \/ ThreadStore(a)
    PROVE  AppInv(a)' /\ InFlight(a)' = InFlight(a)
<1>1. TypeOK /\ AppInv(a)
  BY DEF PathInv
<1>2. CASE Draw(a)
  BY <1>1, <1>2 DEF Draw, AppInv, InFlight, One, TypeOK, threadVars, mailbox,
                    Contents, Slot
<1>3. CASE CreateThread(a)
  BY <1>1, <1>3 DEF CreateThread, AppInv, InFlight, One, TypeOK, kernelVars,
                    mailbox, Contents, Slot
<1>4. CASE ThreadTest(a)
  BY <1>1, <1>4 DEF ThreadTest, AppInv, InFlight, One, TypeOK, kernelVars,
                    mainVars, mailbox, Contents, Slot
<1>5. CASE ThreadStore(a)
  BY <1>1, <1>5 DEF ThreadStore, AppInv, InFlight, One, TypeOK, kernelVars,
                    mainVars, Contents, Slot
<1> QED BY <1>2, <1>3, <1>4, <1>5

(***************************************************************************)
(* sys_evtpop, into the event thread or straight into the main thread.     *)
(***************************************************************************)
LEMMA PopMoves ==
    ASSUME PathInv, NEW a \in App, ThreadPop(a)
    PROVE  AppInv(a)' /\ InFlight(a)' = InFlight(a)
<1>1. TypeOK /\ AppInv(a) /\ FifoOK(fifo[a])
  BY DEF PathInv, TypeOK
<1>2. CASE UNCHANGED <<kernelVars, popped>> /\ thread'[a] = "test"
  <2>1. /\ thread[a] = "pop" /\ fifo' = fifo /\ popped' = popped
        /\ UNCHANGED <<main, taken, pending, slot>>
    BY <1>2 DEF ThreadPop, kernelVars, mainVars, mailbox
  <2> QED BY <1>1, <1>2, <2>1 DEF AppInv, InFlight, One, Contents, Slot
<1>3. CASE SysEvtpop(a)
  <2> DEFINE q == fifo[a]
  <2>1. /\ ~FifoIsEmpty(q) /\ fifo'[a] = FifoPop(q)
        /\ popped'[a] = FifoFront(q) /\ thread'[a] = "store"
        /\ pending'[a] = pending[a] /\ slot'[a] = slot[a]
        /\ main'[a] = main[a] /\ taken'[a] = taken[a] /\ thread[a] = "pop"
    BY <1>1, <1>3 DEF ThreadPop, SysEvtpop, mainVars, mailbox, TypeOK,
                      kernelVars, FifoIsEmpty
  <2>2. FifoFront(q) \in Event /\ HoldsEvents(FifoPop(q))
    BY <1>1, <2>1, PopHolds DEF AppInv, HoldsEvents
  <2>3. AppInv(a)'
    BY <1>1, <2>1, <2>2 DEF AppInv, HoldsEvents, Contents, Slot
  <2>4. Contents(q) = <<FifoFront(q)>> \o Contents(FifoPop(q))
    BY <1>1, <2>1, FifoPopLemma
  <2>5. FifoOK(FifoPop(q)) /\ Contents(FifoPop(q)) \in Seq(AnyEvent)
    BY <1>1, <2>1, FifoPopLemma, ContentsType DEF AnyEvent
  <2> DEFINE s == InMain(a) \o InMailbox(a)
             f == FifoFront(q)
             t == Contents(FifoPop(q))
  <2>6. InFlight(a) = (s \o <<>>) \o (<<f>> \o t)
    BY <1>1, <2>1, <2>4, PlaceTypes DEF InThread, One
  <2>7. InFlight(a)' = (s \o <<f>>) \o t
    BY <2>1 DEF InFlight, One, InMain, InMailbox, Contents, Slot
  <2>8. s \in Seq(AnyEvent) /\ f \in AnyEvent
    BY <1>1, <2>2, PlaceTypes DEF AnyEvent
  <2> HIDE DEF s, f, t
  <2>9. s \o <<>> = s /\ s \o (<<f>> \o t) = (s \o <<f>>) \o t
    BY <2>5, <2>8, Short DEF t
  <2> QED BY <2>3, <2>6, <2>7, <2>9
<1>4. SysEvtpop(a) \/ (UNCHANGED <<kernelVars, popped>> /\ thread'[a] = "test")
  BY <1>1 DEF ThreadPop, TypeOK
<1> QED BY <1>2, <1>3, <1>4

LEMMA PollMoves ==
    ASSUME PathInv, NEW a \in App, PollEvent(a)
    PROVE  AppInv(a)' /\ InFlight(a)' = InFlight(a)
<1>1. TypeOK /\ AppInv(a) /\ FifoOK(fifo[a])
  BY DEF PathInv, TypeOK
<1> DEFINE q == fifo[a]
<1>2. /\ ~FifoIsEmpty(q) /\ fifo'[a] = FifoPop(q)
      /\ taken'[a] = FifoFront(q) /\ main'[a] = "dispatch"
      /\ pending'[a] = pending[a] /\ slot'[a] = slot[a]
      /\ thread'[a] = thread[a] /\ popped'[a] = popped[a]
      /\ main[a] = "wait" /\ thread[a] = "none"
  BY <1>1 DEF PollEvent, SysEvtpop, threadVars, mailbox, TypeOK
<1>3. FifoFront(q) \in Event /\ HoldsEvents(FifoPop(q))
  BY <1>1, <1>2, PopHolds DEF AppInv, HoldsEvents
<1>4. ~pending[a]
  BY <1>1, <1>2 DEF AppInv
<1>5. AppInv(a)'
  BY <1>1, <1>2, <1>3, <1>4 DEF AppInv, HoldsEvents, Contents, Slot
<1>6. Contents(q) = <<FifoFront(q)>> \o Contents(FifoPop(q))
  BY <1>1, <1>2, FifoPopLemma
<1> DEFINE f == FifoFront(q)
           t == Contents(FifoPop(q))
<1>7. t \in Seq(AnyEvent) /\ f \in AnyEvent
  BY <1>1, <1>2, <1>3, FifoPopLemma, ContentsType DEF AnyEvent
<1>8. InFlight(a) = ((<<>> \o <<>>) \o <<>>) \o (<<f>> \o t)
  BY <1>2, <1>4, <1>6 DEF InFlight, One
<1>9. InFlight(a)' = ((<<f>> \o <<>>) \o <<>>) \o t
  BY <1>2, <1>4 DEF InFlight, One, Contents, Slot
<1> HIDE DEF f, t
<1>10. <<>> \o <<>> = <<>> /\ <<f>> \o <<>> = <<f>>
  BY <1>7
<1>11. <<f>> \o t \in Seq(AnyEvent)
  BY <1>7
<1>12. <<>> \o (<<f>> \o t) = <<f>> \o t
  BY <1>11, ConcatEmptySeq
<1> QED BY <1>5, <1>8, <1>9, <1>10, <1>12

(***************************************************************************)
(* The mailbox.                                                            *)
(***************************************************************************)
LEMMA MailboxMoves ==
    ASSUME PathInv, NEW a \in App,
           ThreadPublish(a) \/ CopyEvent(a) \/ ClearPending(a)
    PROVE  AppInv(a)' /\ InFlight(a)' = InFlight(a)
<1>1. /\ TypeOK /\ AppInv(a)
      /\ taken[a] \in AnyEvent /\ slot[a] \in AnyEvent
  BY DEF PathInv, TypeOK
<1>2. CASE ThreadPublish(a)
  <2>1. /\ pending'[a] = TRUE /\ thread'[a] = "test" /\ slot'[a] = slot[a]
        /\ fifo'[a] = fifo[a] /\ main'[a] = main[a] /\ taken'[a] = taken[a]
        /\ thread[a] = "publish"
    BY <1>1, <1>2 DEF ThreadPublish, kernelVars, mainVars, TypeOK
  <2>2. /\ main[a] # "clear" /\ ~pending[a]
        /\ slot[a] = popped[a] /\ slot[a] \in Event /\ slot[a] # NoEvent
    BY <1>1, <2>1, NoEventAssumption DEF AppInv
  <2>3. AppInv(a)'
    BY <1>1, <2>1, <2>2 DEF AppInv, Contents, Slot
  <2>4. InFlight(a) = ((InMain(a) \o <<>>) \o <<slot[a]>>) \o Contents(fifo[a])
    BY <2>1, <2>2 DEF InFlight, One, InMain
  <2>5. InFlight(a)' = ((InMain(a) \o <<slot[a]>>) \o <<>>)
                          \o Contents(fifo[a])
    BY <2>1, <2>2 DEF InFlight, One, InMain, Contents, Slot
  <2>6. InMain(a) \in Seq(AnyEvent) /\ InMain(a) \o <<slot[a]>> \in Seq(AnyEvent)
    BY <1>1, PlaceTypes
  <2>7. /\ InMain(a) \o <<>> = InMain(a)
        /\ (InMain(a) \o <<slot[a]>>) \o <<>> = InMain(a) \o <<slot[a]>>
    BY <2>6, ConcatEmptySeq
  <2> QED BY <2>3, <2>4, <2>5, <2>7
<1>3. CASE CopyEvent(a)
  <2>1. /\ taken'[a] = slot[a] /\ main'[a] = "clear" /\ slot'[a] = slot[a]
        /\ fifo'[a] = fifo[a] /\ thread'[a] = thread[a]
        /\ popped'[a] = popped[a] /\ pending'[a] = pending[a]
        /\ main[a] = "wait" /\ pending[a]
    BY <1>1, <1>3 DEF CopyEvent, kernelVars, threadVars, mailbox, TypeOK
  <2>2. AppInv(a)'
    BY <1>1, <2>1 DEF AppInv, Contents, Slot
  <2>3. InFlight(a) = ((<<>> \o <<slot[a]>>) \o InThread(a)) \o Contents(fifo[a])
    BY <2>1 DEF InFlight, One, InThread
  <2>4. InFlight(a)' = ((<<slot[a]>> \o <<>>) \o InThread(a)) \o Contents(fifo[a])
    BY <2>1 DEF InFlight, One, InThread, Contents, Slot
  <2>5. <<>> \o <<slot[a]>> = <<slot[a]>> /\ <<slot[a]>> \o <<>> = <<slot[a]>>
    BY <1>1
  <2> QED BY <2>2, <2>3, <2>4, <2>5
<1>4. CASE ClearPending(a)
  <2>1. /\ main'[a] = "dispatch" /\ pending'[a] = FALSE /\ taken'[a] = taken[a]
        /\ fifo'[a] = fifo[a] /\ thread'[a] = thread[a] /\ slot'[a] = slot[a]
        /\ popped'[a] = popped[a] /\ main[a] = "clear"
    BY <1>1, <1>4 DEF ClearPending, kernelVars, threadVars, TypeOK
  <2>2. AppInv(a)'
    BY <1>1, <2>1 DEF AppInv, Contents, Slot
  <2> QED BY <2>1, <2>2 DEF InFlight, One, Contents, Slot
<1> QED BY <1>2, <1>3, <1>4

(***************************************************************************)
(* The handler gets the oldest event.                                      *)
(***************************************************************************)
LEMMA DispatchTakes ==
    ASSUME PathInv, NEW a \in App, Dispatch(a)
    PROVE  /\ AppInv(a)'
           /\ InFlight(a) # <<>> /\ InFlight(a)' = Tail(InFlight(a))
<1>1. TypeOK /\ AppInv(a) /\ taken[a] \in AnyEvent
  BY DEF PathInv, TypeOK
<1>2. /\ main'[a] \in {"draw", "wait"} /\ main[a] = "dispatch"
      /\ fifo'[a] = fifo[a] /\ thread'[a] = thread[a] /\ slot'[a] = slot[a]
      /\ popped'[a] = popped[a] /\ pending'[a] = pending[a]
  BY <1>1 DEF Dispatch, kernelVars, threadVars, mailbox, TypeOK
<1>3. AppInv(a)'
  BY <1>1, <1>2 DEF AppInv, Contents, Slot
<1> DEFINE x == taken[a]
           s == InMailbox(a)
           t == InThread(a)
           u == Contents(fifo[a])
<1>4. InFlight(a) = ((<<x>> \o s) \o t) \o u
  BY <1>2 DEF InFlight, One, InMailbox, InThread
<1>5. InFlight(a)' = ((<<>> \o s) \o t) \o u
  BY <1>2 DEF InFlight, One, InMailbox, InThread, Contents, Slot
<1>6. s \in Seq(AnyEvent) /\ t \in Seq(AnyEvent) /\ u \in Seq(AnyEvent)
  BY <1>1, PlaceTypes
<1>7. x \in AnyEvent
  BY <1>1
<1> HIDE DEF x, s, t, u
<1>8. <<x>> \in Seq(AnyEvent) /\ s \o t \in Seq(AnyEvent)
      /\ (s \o t) \o u \in Seq(AnyEvent)
  BY <1>6, <1>7
<1>9. ((<<x>> \o s) \o t) \o u = <<x>> \o ((s \o t) \o u)
  BY <1>6, <1>8, ConcatAssociative
<1>10. <<>> \o s = s
  BY <1>6, ConcatEmptySeq
<1>11. /\ <<x>> \o ((s \o t) \o u) # <<>>
       /\ Tail(<<x>> \o ((s \o t) \o u)) = (s \o t) \o u
  BY <1>7, <1>8, Short
<1> QED BY <1>3, <1>4, <1>5, <1>9, <1>10, <1>11

(***************************************************************************)
(* The dispatcher queues an event behind all others.                       *)
(***************************************************************************)
LEMMA QueueAppends ==
    ASSUME PathInv, QueueEvent, NEW a \in App, a = target,
           ~FifoIsFull(fifo[a])
    PROVE  /\ AppInv(a)'
           /\ InFlight(a)' = Append(InFlight(a), made)
<1> DEFINE q == fifo[a]
<1>1. /\ TypeOK /\ a \in App /\ FifoOK(q) /\ AppInv(a) /\ made \in Event
      /\ made \in AnyEvent
  BY EventAssumption, LastEventAssumption DEF PathInv, TypeOK, QueueEvent, AnyEvent
<1>2. /\ fifo'[a] = FifoPush(q, made)
      /\ main'[a] = main[a] /\ taken'[a] = taken[a]
      /\ thread'[a] = thread[a] /\ slot'[a] = slot[a]
      /\ popped'[a] = popped[a] /\ pending'[a] = pending[a]
  BY <1>1 DEF QueueEvent, threadVars, mainVars, mailbox, TypeOK
<1>3. HoldsEvents(FifoPush(q, made))
  BY <1>1, PushHolds DEF AppInv, HoldsEvents
<1>4. AppInv(a)'
  BY <1>1, <1>2, <1>3 DEF AppInv, HoldsEvents, Contents, Slot
<1>5. Contents(FifoPush(q, made)) = Append(Contents(q), made)
  BY <1>1, FifoPushLemma DEF AnyEvent
<1> DEFINE s == InMain(a) \o InMailbox(a) \o InThread(a)
           t == Contents(q)
<1>6. InFlight(a) = s \o t
  BY DEF InFlight, One, InMain, InMailbox, InThread
<1>7. InFlight(a)' = s \o Append(t, made)
  BY <1>2, <1>5 DEF InFlight, One, InMain, InMailbox, InThread, Contents, Slot
<1>8. s \in Seq(AnyEvent) /\ t \in Seq(AnyEvent)
  BY <1>1, PlaceTypes
<1> HIDE DEF s, t
<1>9. s \o Append(t, made) = Append(s \o t, made)
  BY <1>1, <1>8, Short
<1> QED BY <1>4, <1>6, <1>7, <1>9

----------------------------------------------------------------------------
(* The inductive invariant *)

(***************************************************************************)
(* An application's step leaves every other one alone.                     *)
(***************************************************************************)
AppStep(a) == ThreadStep(a) \/ MainStep(a)

LEMMA OthersStay ==
    ASSUME TypeOK, NEW a \in App, AppStep(a), NEW b \in App, b # a
    PROVE  SameApp(b)
BY DEF AppStep, ThreadStep, MainStep, ThreadTest, ThreadPop, ThreadStore,
       ThreadPublish, Draw, CreateThread, CopyEvent, ClearPending, PollEvent,
       Dispatch, SysEvtpop, SameApp, TypeOK, kernelVars, threadVars, mainVars,
       mailbox

LEMMA AppStepKernel ==
    ASSUME NEW a \in App, AppStep(a)
    PROVE  /\ alive' = alive /\ made' = made /\ target' = target
           /\ last' \in {last, a}
           /\ \/ fifo' = fifo
              \/ ~FifoIsEmpty(fifo[a]) /\ fifo' = [fifo EXCEPT ![a] = FifoPop(@)]
BY DEF AppStep, ThreadStep, MainStep, ThreadTest, ThreadPop, ThreadStore,
       ThreadPublish, Draw, CreateThread, CopyEvent, ClearPending, PollEvent,
       Dispatch, SysEvtpop, kernelVars

LEMMA AppStepMoves ==
    ASSUME PathInv, NEW a \in App, AppStep(a)
    PROVE  /\ AppInv(a)'
           /\ \/ InFlight(a)' = InFlight(a)
              \/ /\ alive[a] /\ InFlight(a) # <<>>
                 /\ InFlight(a)' = Tail(InFlight(a))
<1>1. CASE ThreadStep(a)
  BY <1>1, NoEventMoves, PopMoves, MailboxMoves DEF ThreadStep
<1>2. CASE MainStep(a) /\ ~Dispatch(a)
  BY <1>2, NoEventMoves, PollMoves, MailboxMoves DEF MainStep
<1>3. CASE Dispatch(a)
  BY <1>3, DispatchTakes DEF Dispatch
<1> QED BY <1>1, <1>2, <1>3 DEF AppStep

LEMMA TypeKept == TypeOK /\ [Next]_vars => TypeOK'
<1> SUFFICES ASSUME TypeOK, [Next]_vars
             PROVE  TypeOK'
  OBVIOUS
<1>1. ASSUME NEW a \in App, AppStep(a)
      PROVE  TypeOK'
  <2>1. /\ fifo' \in [App -> Fifo]
        /\ \A b \in App : FifoOK(fifo'[b])
    <3>1. \/ fifo' = fifo
          \/ ~FifoIsEmpty(fifo[a]) /\ fifo' = [fifo EXCEPT ![a] = FifoPop(@)]
      BY <1>1, AppStepKernel
    <3>2. ~FifoIsEmpty(fifo[a]) =>
             FifoOK(FifoPop(fifo[a])) /\ FifoPop(fifo[a]) \in Fifo
      BY FifoPopLemma DEF TypeOK, FifoOK
    <3> QED BY <3>1, <3>2 DEF TypeOK
  <2>2. FifoFront(fifo[a]) \in AnyEvent \/ FifoIsEmpty(fifo[a])
    BY FifoPopLemma DEF TypeOK, AnyEvent
  <2>3. /\ alive' \in [App -> BOOLEAN] /\ last' \in App \cup {Nobody}
        /\ made' \in 0..LastEvent /\ target' \in App \cup {Nobody}
    BY <1>1, AppStepKernel DEF TypeOK
  <2>4. /\ thread' \in [App -> ThreadState] /\ popped' \in [App -> AnyEvent]
        /\ pending' \in [App -> BOOLEAN] /\ slot' \in [App -> AnyEvent]
        /\ main' \in [App -> MainState] /\ taken' \in [App -> AnyEvent]
    <3> USE DEF TypeOK, MainState, ThreadState, kernelVars, threadVars,
                mainVars, mailbox
    <3>1. CASE ThreadTest(a) \/ ThreadStore(a)
      BY <3>1 DEF ThreadTest, ThreadStore
    <3>2. CASE ThreadPop(a)
      BY <2>2, <3>2 DEF ThreadPop, SysEvtpop
    <3>3. CASE ThreadPublish(a)
      BY <3>3 DEF ThreadPublish, AnyEvent
    <3>4. CASE Draw(a) \/ CreateThread(a)
      BY <3>4 DEF Draw, CreateThread
    <3>5. CASE CopyEvent(a) \/ ClearPending(a)
      BY <3>5 DEF CopyEvent, ClearPending
    <3>6. CASE PollEvent(a)
      BY <2>2, <3>6 DEF PollEvent, SysEvtpop
    <3>7. CASE Dispatch(a)
      BY <3>7 DEF Dispatch, AnyEvent
    <3> QED BY <1>1, <3>1, <3>2, <3>3, <3>4, <3>5, <3>6, <3>7
            DEF AppStep, ThreadStep, MainStep
  <2> QED BY <2>1, <2>3, <2>4 DEF TypeOK
<1>2. CASE DispatchEvent
  BY <1>2, LastEventAssumption
     DEF DispatchEvent, TypeOK, threadVars, mainVars, mailbox
<1>3. CASE QueueEvent
  <2>1. made \in Event \cup {NoEvent}
    BY EventAssumption, LastEventAssumption DEF TypeOK
  <2>2. ~FifoIsFull(fifo[target]) =>
           /\ FifoOK(FifoPush(fifo[target], made))
           /\ FifoPush(fifo[target], made) \in Fifo
    BY <1>3, <2>1, FifoPushLemma DEF TypeOK, QueueEvent, FifoOK
  <2> QED BY <1>3, <2>2 DEF QueueEvent, TypeOK, threadVars, mainVars, mailbox
<1>4. ASSUME NEW a \in App, Exit(a)
      PROVE  TypeOK'
  BY <1>4 DEF Exit, TypeOK, threadVars, mainVars, mailbox
<1>5. CASE UNCHANGED vars
  BY <1>5 DEF vars, kernelVars, threadVars, mainVars, mailbox, TypeOK
<1> QED BY <1>1, <1>2, <1>3, <1>4, <1>5 DEF Next, AppStep

(***************************************************************************)
(* Steps of the dispatchers and the end of a process.                      *)
(***************************************************************************)
LEMMA AllSame ==
    ASSUME UNCHANGED <<fifo, threadVars, mainVars, mailbox>>, NEW a \in App
    PROVE  SameApp(a)
BY DEF SameApp, threadVars, mainVars, mailbox

LEMMA QueueOthers ==
    ASSUME PathInv, QueueEvent, NEW a \in App,
           a # target \/ FifoIsFull(fifo[target])
    PROVE  SameApp(a)
BY DEF PathInv, TypeOK, QueueEvent, SameApp, threadVars, mainVars, mailbox

LEMMA PathInvKept == PathInv /\ [Next]_vars => PathInv'
<1> SUFFICES ASSUME PathInv, [Next]_vars
             PROVE  PathInv'
  OBVIOUS
<1>0. TypeOK /\ TypeOK' /\ \A a \in App : AppInv(a)
  BY TypeKept DEF PathInv
<1>1. ASSUME NEW a \in App, AppStep(a)
      PROVE  PathInv'
  <2>1. \A b \in App : b # a => AppInv(b)'
    BY <1>0, <1>1, OthersStay, SameAppLemma
  <2>2. AppInv(a)'
    BY <1>1, AppStepMoves
  <2>3. (target # Nobody => made # 0)'
    BY <1>1, AppStepKernel DEF PathInv
  <2> QED BY <1>0, <2>1, <2>2, <2>3 DEF PathInv
<1>2. CASE DispatchEvent
  <2>1. \A a \in App : AppInv(a)'
    BY <1>0, <1>2, AllSame, SameAppLemma DEF DispatchEvent
  <2>2. made' # 0
    BY <1>0, <1>2, LastEventAssumption DEF DispatchEvent, TypeOK
  <2> QED BY <1>0, <2>1, <2>2 DEF PathInv
<1>3. CASE QueueEvent
  <2>1. \A a \in App : AppInv(a)'
    BY <1>0, <1>3, QueueAppends, QueueOthers, SameAppLemma
  <2> QED BY <1>0, <1>3, <2>1 DEF PathInv, QueueEvent
<1>4. ASSUME NEW a \in App, Exit(a)
      PROVE  PathInv'
  <2>1. \A b \in App : AppInv(b)'
    BY <1>0, <1>4, AllSame, SameAppLemma DEF Exit
  <2> QED BY <1>0, <1>4, <2>1 DEF PathInv, Exit
<1>5. CASE UNCHANGED vars
  <2>1. \A b \in App : AppInv(b)'
    BY <1>0, <1>5, AllSame, SameAppLemma DEF vars, kernelVars
  <2> QED BY <1>0, <1>5, <2>1 DEF PathInv, vars, kernelVars
<1> QED BY <1>1, <1>2, <1>3, <1>4, <1>5 DEF Next, AppStep

LEMMA PathInvInit == Init => PathInv
<1> SUFFICES ASSUME Init
             PROVE  PathInv
  OBVIOUS
<1>1. FifoOK(FifoInit) /\ FifoInit \in Fifo /\ FifoInit.count = 0
  BY FifoInitLemma DEF FifoOK, FifoInit
<1>2. TypeOK
  BY <1>1, EventAssumption, LastEventAssumption
     DEF Init, TypeOK, AnyEvent, MainState, ThreadState
<1>3. \A a \in App : AppInv(a)
  BY <1>1 DEF Init, AppInv
<1> QED BY <1>2, <1>3 DEF PathInv, Init

(***************************************************************************)
(* The inductive invariant holds.                                          *)
(***************************************************************************)
THEOREM PathInvariant == Spec => []PathInv
BY PathInvInit, PathInvKept, PTL DEF Spec

(***************************************************************************)
(* The event path is well-typed; its rings are well formed.                *)
(***************************************************************************)
THEOREM PathTypeCorrect == Spec => []TypeOK
BY PathInvariant, PTL DEF PathInv

(***************************************************************************)
(* The event thread and the main thread never use the mailbox at the same  *)
(* time.                                                                   *)
(***************************************************************************)
THEOREM MailboxSafe == Spec => []MailboxHandedOver
<1>1. PathInv => MailboxHandedOver
  BY DEF PathInv, AppInv, MailboxHandedOver
<1> QED BY <1>1, PathInvariant, PTL

----------------------------------------------------------------------------
(* Refinement *)

(***************************************************************************)
(* The abstract queue of application a.                                    *)
(***************************************************************************)
Mapped(a) == IF alive[a] THEN InFlight(a) ELSE <<>>

LEMMA StepRefines == PathInv /\ [Next]_vars => [Q!Next]_(Q!vars)
<1> SUFFICES ASSUME PathInv, [Next]_vars
             PROVE  [Q!Next]_(Q!vars)
  OBVIOUS
<1> DEFINE qm == [a \in App |-> Mapped(a)]
           rm == {a \in App : alive[a]}
<1>0. TypeOK
  BY DEF PathInv
<1>1. ASSUME NEW a \in App, AppStep(a)
      PROVE  [Q!Next]_(Q!vars)
  <2>1. \A b \in App : b # a => InFlight(b)' = InFlight(b)
    BY <1>0, <1>1, OthersStay, SameAppLemma
  <2>2. alive' = alive /\ made' = made /\ target' = target
    BY <1>1, AppStepKernel
  <2>3. CASE InFlight(a)' = InFlight(a)
    BY <2>1, <2>2, <2>3 DEF Q!vars
  <2>4. CASE alive[a] /\ InFlight(a) # <<>> /\ InFlight(a)' = Tail(InFlight(a))
    <3>1. Q!Take(a)
      BY <2>1, <2>2, <2>4 DEF Q!Take
    <3> QED BY <3>1 DEF Q!Next
  <2> QED BY <1>1, <2>3, <2>4, AppStepMoves
<1>2. CASE DispatchEvent
  <2>1. \A a \in App : InFlight(a)' = InFlight(a)
    BY <1>2, AllSame, SameAppLemma DEF DispatchEvent
  <2>2. Q!MakeEvent
    BY <1>2, <2>1 DEF DispatchEvent, Q!MakeEvent
  <2> QED BY <2>2 DEF Q!Next
<1>3. CASE QueueEvent
  <2>1. /\ target \in App /\ target # Nobody /\ target' = Nobody
        /\ alive' = alive /\ made' = made
    BY <1>0, <1>3 DEF QueueEvent, TypeOK
  <2>2. \A b \in App : b # target => InFlight(b)' = InFlight(b)
    BY <1>3, QueueOthers, SameAppLemma
  <2>3. CASE alive[target] /\ ~FifoIsFull(fifo[target])
    <3>1. PICK a \in App : a = target
      BY <2>1
    <3>2. InFlight(a)' = Append(InFlight(a), made)
      BY <1>3, <2>3, <3>1, QueueAppends
    <3>3. Q!Push(a)
      BY <2>1, <2>2, <2>3, <3>1, <3>2 DEF Q!Push
    <3> QED BY <3>3 DEF Q!Next
  <2>4. CASE ~alive[target] \/ FifoIsFull(fifo[target])
    <3>1. \A b \in App : alive[b] => InFlight(b)' = InFlight(b)
      BY <1>3, <2>2, <2>4, QueueOthers, SameAppLemma
    <3>2. Q!Lose
      BY <2>1, <3>1 DEF Q!Lose
    <3> QED BY <3>2 DEF Q!Next
  <2> QED BY <2>3, <2>4
<1>4. ASSUME NEW a \in App, Exit(a)
      PROVE  [Q!Next]_(Q!vars)
  <2>1. \A b \in App : InFlight(b)' = InFlight(b)
    BY <1>4, AllSame, SameAppLemma DEF Exit
  <2>2. /\ alive[a] /\ alive' = [alive EXCEPT ![a] = FALSE]
        /\ made' = made /\ target' = target /\ alive \in [App -> BOOLEAN]
    BY <1>0, <1>4 DEF Exit, TypeOK
  <2>3. Q!End(a)
    BY <2>1, <2>2 DEF Q!End
  <2> QED BY <2>3 DEF Q!Next
<1>5. CASE UNCHANGED vars
  <2>1. \A b \in App : InFlight(b)' = InFlight(b)
    BY <1>5, AllSame, SameAppLemma DEF vars, kernelVars
  <2> QED BY <1>5, <2>1 DEF Q!vars, vars, kernelVars
<1> QED BY <1>1, <1>2, <1>3, <1>4, <1>5 DEF Next, AppStep

LEMMA InitRefines == Init => Q!Init
<1> SUFFICES ASSUME Init
             PROVE  Q!Init
  OBVIOUS
<1>1. Contents(FifoInit) = <<>>
  BY FifoInitLemma
<1>2. ASSUME NEW a \in App
      PROVE  InFlight(a) = <<>>
  BY <1>1, <1>2 DEF Init, InFlight, One
<1> QED BY <1>2 DEF Init, Q!Init

(***************************************************************************)
(* Every behaviour of the event path is one of the abstract queues: no     *)
(* event that was queued is lost, doubled or overtaken.                    *)
(***************************************************************************)
THEOREM QueueImplemented == Spec => ImplementsQueue
BY InitRefines, StepRefines, PathInvariant, PTL DEF Spec, ImplementsQueue, Q!Spec

(***************************************************************************)
(* The rings and mailboxes are sound, for any applications and ring size.  *)
(***************************************************************************)
THEOREM PathSound == Spec => []PathIsSound
BY PathTypeCorrect, MailboxSafe, PTL DEF PathIsSound
=============================================================================
