--------------------------- MODULE ProcessProofs ---------------------------
(***************************************************************************)
(* Theorems about module Process: its inductive invariant, and what        *)
(* follows from it.                                                        *)
(***************************************************************************)
EXTENDS Process, SequenceLemmas

(***************************************************************************)
(* scheduler_remove takes p, and nothing else, off a list on which no      *)
(* process is twice.                                                       *)
(***************************************************************************)
LEMMA RemoveLemma ==
    ASSUME NEW q \in Seq(Proc), NEW p, Injective(q)
    PROVE  /\ SchedulerRemove(q, p) \in Seq(Proc)
           /\ ToSet(SchedulerRemove(q, p)) = ToSet(q) \ {p}
           /\ Injective(SchedulerRemove(q, p))
<1>1. CASE ~ \E i \in 1..Len(q) : q[i] = p
  BY <1>1 DEF SchedulerRemove, ToSet, Injective
<1>2. CASE \E i \in 1..Len(q) : q[i] = p
  <2> DEFINE i == CHOOSE i \in 1..Len(q) : q[i] = p
  <2>1. i \in 1..Len(q) /\ q[i] = p
    BY <1>2
  <2>2. SchedulerRemove(q, p) = RemoveAt(q, i)
    BY <1>2 DEF SchedulerRemove
  <2> HIDE DEF i
  <2> QED BY <2>1, <2>2, RemoveOnce
<1> QED BY <1>1, <1>2

(***************************************************************************)
(* scheduler_add puts p on the list, once if it was not there before.      *)
(***************************************************************************)
LEMMA AddLemma ==
    ASSUME NEW q \in Seq(Proc), NEW p \in Proc, Injective(q), p \notin ToSet(q)
    PROVE  /\ SchedulerAdd(q, p) \in Seq(Proc)
           /\ ToSet(SchedulerAdd(q, p)) = ToSet(q) \cup {p}
           /\ Injective(SchedulerAdd(q, p))
BY AppendOnce DEF SchedulerAdd

(***************************************************************************)
(* The circular walk starts on the list, stays on it and misses no one.    *)
(***************************************************************************)
LEMMA CircularLemma ==
    ASSUME NEW q \in Seq(Proc), NEW cur
    PROVE  LET s == StartIndex(q, cur)
           IN  /\ Len(q) # 0 => s \in 1..Len(q)
               /\ \A k \in 0..(Len(q) - 1) : Circular(q, s, k) \in ToSet(q)
               /\ \A p \in ToSet(q) :
                     \E k \in 0..(Len(q) - 1) : Circular(q, s, k) = p
<1>1. Len(q) # 0 => StartIndex(q, cur) \in 1..Len(q)
  BY DEF StartIndex
<1>2. \A k \in 0..(Len(q) - 1) :
         Circular(q, StartIndex(q, cur), k) = OnCircle(q, StartIndex(q, cur), k)
  BY DEF Circular, OnCircle
<1> QED BY <1>1, <1>2, CircleLemma

(***************************************************************************)
(* scheduler_next returns a ready process of the list, and null only if    *)
(* there is none.                                                          *)
(***************************************************************************)
LEMMA NextLemma ==
    ASSUME NEW q \in Seq(Proc), NEW cur, NEW st
    PROVE  /\ SchedulerNext(q, cur, st) # None =>
                 /\ SchedulerNext(q, cur, st) \in ToSet(q)
                 /\ st[SchedulerNext(q, cur, st)] = "READY"
           /\ (\E p \in ToSet(q) : st[p] = "READY") =>
                 SchedulerNext(q, cur, st) # None
<1> DEFINE s == StartIndex(q, cur)
           ready == {k \in 0..(Len(q) - 1) : st[Circular(q, s, k)] = "READY"}
<1>1. SchedulerNext(q, cur, st) =
         IF ready = {} THEN None ELSE Circular(q, s, Min(ready))
  BY DEF SchedulerNext
<1>2. ready # {} => Min(ready) \in ready
  <2>1. ready \in SUBSET Nat
    OBVIOUS
  <2> HIDE DEF ready
  <2> QED BY <2>1, MinExists
<1>3. /\ \A k \in 0..(Len(q) - 1) : Circular(q, s, k) \in ToSet(q)
      /\ \A p \in ToSet(q) : \E k \in 0..(Len(q) - 1) : Circular(q, s, k) = p
  BY CircularLemma
<1>4. ToSet(q) \subseteq Proc
  BY DEF ToSet
<1> HIDE DEF s
<1> QED BY <1>1, <1>2, <1>3, <1>4, NoneAssumption

USE DEF ProcState, Terminated

(***************************************************************************)
(* Constant facts about the records of t_process fields.                   *)
(***************************************************************************)
LEMMA NewInfoType ==
    ASSUME NEW m \in Mode, TypeOK, PidsLeft
    PROVE  /\ NewInfo(m) \in Info
           /\ NewInfo(m).pid = nextPid
           /\ NewInfo(m).mode = m
           /\ NewInfo(m).isThread = FALSE
BY PidAssumption DEF NewInfo, Info, TypeOK

(***************************************************************************)
(* The core goes to a ready process of the list q, when st, the states at  *)
(* that point, has one and has no running process.                         *)
(***************************************************************************)
LEMMA ResumeLemma ==
    ASSUME TypeOK,
           NEW q \in Seq(Proc), NEW cur, NEW st \in [Proc -> ProcState],
           \A p \in Proc : st[p] # "RUNNING",
           \E p \in ToSet(q) : st[p] = "READY",
           ResumeNext(q, cur, st)
    PROVE  /\ current' \in ToSet(q)
           /\ current' \in Proc
           /\ st[current'] = "READY"
           /\ state' = [st EXCEPT ![current'] = "RUNNING"]
           /\ state' \in [Proc -> ProcState]
           /\ slice' \in [Proc -> 1..TimeSlice]
           /\ \A p \in Proc : state'[p] = "RUNNING" <=> p = current'
<1> DEFINE next == SchedulerNext(q, cur, st)
<1>1. next # None /\ next \in ToSet(q) /\ st[next] = "READY"
  BY NextLemma
<1>2. current' = next /\ state' = [st EXCEPT ![next] = "RUNNING"]
      /\ slice' = [slice EXCEPT ![next] = TimeSlice]
  BY <1>1 DEF ResumeNext
<1>3. next \in Proc
  BY <1>1 DEF ToSet
<1> HIDE DEF next
<1>4. slice' \in [Proc -> 1..TimeSlice]
  BY <1>2, <1>3, SliceAssumption DEF TypeOK
<1>5. /\ state' \in [Proc -> ProcState]
      /\ \A p \in Proc : state'[p] = "RUNNING" <=> p = next
  BY <1>2, <1>3
<1> QED BY <1>1, <1>2, <1>3, <1>4, <1>5

(***************************************************************************)
(* process_exit_current keeps the invariant, for any process but init.     *)
(***************************************************************************)
LEMMA ExitLemma ==
    ASSUME IInv, NEW code, current # InitProc, ProcessExitCurrent(code),
           UNCHANGED <<tableVars, initVars, masked>>
    PROVE  IInv'
<1> DEFINE q == SchedulerRemove(runq, current)
           st == [state EXCEPT ![current] = ExitState(code)]
<1>1. /\ runq \in Seq(Proc) /\ Injective(runq)
      /\ current \in Proc /\ state \in [Proc -> ProcState]
  <2>1. current \in Proc
    BY DEF IInv, AlwaysCurrent, Listed, ToSet, TypeOK
  <2> QED BY <2>1 DEF IInv, TypeOK, RunListSound, Injective
<1>2. /\ q \in Seq(Proc) /\ Injective(q)
      /\ ToSet(q) = ToSet(runq) \ {current}
  BY <1>1, RemoveLemma
<1>3. runq' = q /\ ResumeNext(q, None, st)
  BY DEF ProcessExitCurrent
<1>4. ExitState(code) \in Terminated
  BY DEF ExitState
<1>5. /\ st \in [Proc -> ProcState]
      /\ \A p \in Proc : st[p] # "RUNNING"
      /\ \A p \in Proc : p # current => st[p] = state[p]
      /\ st[current] \in Terminated
  BY <1>1, <1>4 DEF IInv, AlwaysCurrent
<1>6. InitProc \in ToSet(q) /\ st[InitProc] = "READY"
  BY <1>1, <1>2, <1>5, InitAssumption
     DEF IInv, InitSurvives, RunListSound, AlwaysCurrent, Listed
<1> HIDE DEF q, st
<1>7. /\ current' \in ToSet(q) /\ current' \in Proc
      /\ st[current'] = "READY"
      /\ state' = [st EXCEPT ![current'] = "RUNNING"]
      /\ state' \in [Proc -> ProcState]
      /\ slice' \in [Proc -> 1..TimeSlice]
      /\ \A p \in Proc : state'[p] = "RUNNING" <=> p = current'
  BY <1>2, <1>3, <1>5, <1>6, ResumeLemma DEF IInv
<1>8. /\ info' = info /\ nextPid' = nextPid
      /\ initPc' = initPc /\ loader' = loader /\ masked' = masked
  BY DEF tableVars, initVars
<1>9. \A p \in Proc : /\ state'[p] = "FREE" <=> state[p] = "FREE"
                      /\ p \in ToSet(q) =>
                            (state'[p] \in Terminated <=> state[p] \in Terminated)
  BY <1>1, <1>2, <1>5, <1>7 DEF IInv, AlwaysCurrent
<1>10. TypeOK'
  BY <1>2, <1>3, <1>7, <1>8 DEF IInv, TypeOK
<1>11. AlwaysCurrent'
  BY <1>3, <1>7 DEF AlwaysCurrent, Listed
<1>12. RunListSound'
  <2>1. ToSet(q) \subseteq Proc
    BY <1>2 DEF ToSet
  <2> QED BY <1>2, <1>3, <1>8, <1>9, <2>1 DEF IInv, RunListSound, Listed, Injective
<1>13. InitSurvives'
  BY <1>3, <1>6, <1>8, <1>9, InitAssumption DEF IInv, InitSurvives, Listed
<1>14. PidsUnique' /\ PidsIssued' /\ ThreadsAreUser' /\ OwnersExist'
  BY <1>8, <1>9 DEF IInv, PidsUnique, PidsIssued, ThreadsAreUser, OwnersExist
<1> QED BY <1>8, <1>10, <1>11, <1>12, <1>13, <1>14 DEF IInv, LoaderKnown

(***************************************************************************)
(* thread_exit_current keeps the invariant, for any process but init.      *)
(***************************************************************************)
LEMMA ThreadExitLemma ==
    ASSUME IInv, NEW left \in Terminated, current # InitProc,
           ThreadExitCurrent(left),
           UNCHANGED <<tableVars, initVars, masked>>
    PROVE  IInv'
<1>1. CASE ~ info[current].isThread
  BY <1>1, ExitLemma DEF ThreadExitCurrent
<1>2. CASE info[current].isThread
  <2> DEFINE st == [state EXCEPT ![current] = left]
  <2>1. /\ runq \in Seq(Proc) /\ current \in Proc /\ current \in ToSet(runq)
        /\ ToSet(runq) \subseteq Proc
    BY DEF IInv, AlwaysCurrent, Listed, ToSet, TypeOK
  <2>2. runq' = runq /\ ResumeNext(runq, current, st)
    BY <1>2 DEF ThreadExitCurrent
  <2>3. /\ st \in [Proc -> ProcState]
        /\ \A p \in Proc : st[p] # "RUNNING"
        /\ \A p \in Proc : p # current => st[p] = state[p]
        /\ st[current] \in Terminated
    BY <2>1 DEF IInv, AlwaysCurrent, TypeOK
  <2>4. InitProc \in ToSet(runq) /\ st[InitProc] = "READY"
    BY <2>1, <2>3, InitAssumption
       DEF IInv, InitSurvives, RunListSound, AlwaysCurrent, Listed
  <2> HIDE DEF st
  <2>5. /\ current' \in ToSet(runq) /\ current' \in Proc
        /\ st[current'] = "READY"
        /\ state' = [st EXCEPT ![current'] = "RUNNING"]
        /\ state' \in [Proc -> ProcState]
        /\ slice' \in [Proc -> 1..TimeSlice]
        /\ \A p \in Proc : state'[p] = "RUNNING" <=> p = current'
    BY <2>1, <2>2, <2>3, <2>4, ResumeLemma DEF IInv
  <2>6. /\ info' = info /\ nextPid' = nextPid
        /\ initPc' = initPc /\ loader' = loader /\ masked' = masked
    BY DEF tableVars, initVars
  <2>7. \A p \in Proc : /\ state'[p] = "FREE" <=> state[p] = "FREE"
                        /\ state'[p] \in Terminated =>
                              p = current \/ state[p] \in Terminated
    BY <2>1, <2>3, <2>5 DEF IInv, AlwaysCurrent
  <2>8. TypeOK' /\ AlwaysCurrent'
    BY <2>1, <2>2, <2>5, <2>6 DEF IInv, TypeOK, AlwaysCurrent, Listed
  <2>9. RunListSound' /\ InitSurvives'
    BY <1>2, <2>1, <2>2, <2>6, <2>7, InitAssumption
       DEF IInv, RunListSound, InitSurvives, Listed
  <2>10. PidsUnique' /\ PidsIssued' /\ ThreadsAreUser' /\ OwnersExist'
    BY <2>6, <2>7 DEF IInv, PidsUnique, PidsIssued, ThreadsAreUser, OwnersExist
  <2> QED BY <2>6, <2>8, <2>9, <2>10 DEF IInv, LoaderKnown
<1> QED BY <1>1, <1>2

(***************************************************************************)
(* Filling a free t_process with the next pid, on the list or not, keeps   *)
(* the table sound; i is what is written into it.                          *)
(***************************************************************************)
LEMMA TableLemma ==
    ASSUME IInv, NEW p \in Proc, NEW i \in Info, PidsLeft,
           state[p] = "FREE",
           i.pid = nextPid,
           i.isThread => /\ i.mode = "USER"
                         /\ \E o \in Proc : /\ state[o] # "FREE"
                                            /\ info[o].pid = i.ownerPid
                                            /\ info[o].mode = "USER"
                                            /\ ~info[o].isThread,
           AllocatePid,
           info' = [info EXCEPT ![p] = i],
           state' = [state EXCEPT ![p] = "READY"]
    PROVE  PidsUnique' /\ PidsIssued' /\ ThreadsAreUser' /\ OwnersExist'
<1>1. /\ state \in [Proc -> ProcState] /\ info \in [Proc -> Info]
      /\ nextPid \in Nat /\ nextPid' = nextPid + 1
  BY DEF IInv, TypeOK, AllocatePid
<1>2. \A x \in Proc : info[x].pid \in Nat
  BY <1>1 DEF Info
<1>3. /\ info'[p] = i /\ state'[p] = "READY"
      /\ \A x \in Proc : x # p => info'[x] = info[x] /\ state'[x] = state[x]
  BY <1>1
<1>4. PidsUnique' /\ PidsIssued'
  BY <1>1, <1>2, <1>3 DEF IInv, PidsUnique, PidsIssued
<1>5. ThreadsAreUser'
  BY <1>3 DEF IInv, ThreadsAreUser
<1>6. OwnersExist'
  <2> SUFFICES ASSUME NEW t \in Proc, state'[t] # "FREE", info'[t].isThread
               PROVE  \E o \in Proc : /\ state'[o] # "FREE"
                                      /\ info'[o].pid = info'[t].ownerPid
                                      /\ info'[o].mode = "USER"
                                      /\ ~info'[o].isThread
    BY DEF OwnersExist
  <2>1. \E o \in Proc : /\ state[o] # "FREE"
                        /\ info[o].pid = info'[t].ownerPid
                        /\ info[o].mode = "USER"
                        /\ ~info[o].isThread
    BY <1>3 DEF IInv, OwnersExist
  <2> QED BY <1>3, <2>1
<1> QED BY <1>4, <1>5, <1>6

LEMMA EnlistLemma ==
    ASSUME IInv, NEW p \in Proc, NEW i \in Info,
           i.pid = nextPid,
           i.isThread => /\ i.mode = "USER"
                         /\ \E o \in Proc : /\ state[o] # "FREE"
                                            /\ info[o].pid = i.ownerPid
                                            /\ info[o].mode = "USER"
                                            /\ ~info[o].isThread,
           Enlist(p, i)
    PROVE  /\ runq' \in Seq(Proc) /\ nextPid' \in 1..MaxPid
           /\ current' = current /\ state' \in [Proc -> ProcState]
           /\ slice' \in [Proc -> 1..TimeSlice] /\ info' \in [Proc -> Info]
           /\ AlwaysCurrent' /\ RunListSound' /\ InitSurvives'
           /\ PidsUnique' /\ PidsIssued' /\ ThreadsAreUser' /\ OwnersExist'
<1>1. /\ runq \in Seq(Proc) /\ Injective(runq) /\ p \notin ToSet(runq)
      /\ state \in [Proc -> ProcState] /\ info \in [Proc -> Info]
      /\ slice \in [Proc -> 1..TimeSlice] /\ nextPid \in 1..MaxPid
      /\ ToSet(runq) \subseteq Proc
  <2>1. p \notin ToSet(runq)
    BY DEF Enlist, IInv, RunListSound, Listed
  <2> QED BY <2>1 DEF IInv, TypeOK, RunListSound, Injective, ToSet
<1>2. /\ runq' \in Seq(Proc) /\ Injective(runq')
      /\ ToSet(runq') = ToSet(runq) \cup {p}
  BY <1>1, AddLemma DEF Enlist
<1>3. /\ PidsLeft /\ state[p] = "FREE" /\ AllocatePid
      /\ info' = [info EXCEPT ![p] = i]
      /\ state' = [state EXCEPT ![p] = "READY"]
      /\ slice' = [slice EXCEPT ![p] = TimeSlice]
      /\ current' = current
  BY DEF Enlist
<1>4. /\ nextPid' \in 1..MaxPid /\ state' \in [Proc -> ProcState]
      /\ slice' \in [Proc -> 1..TimeSlice] /\ info' \in [Proc -> Info]
  BY <1>1, <1>3, SliceAssumption, PidAssumption DEF PidsLeft, AllocatePid
<1>5. /\ info'[p] = i /\ state'[p] = "READY"
      /\ \A x \in Proc : x # p => info'[x] = info[x] /\ state'[x] = state[x]
  BY <1>1, <1>3
<1>6. AlwaysCurrent'
  BY <1>1, <1>2, <1>3, <1>5 DEF IInv, AlwaysCurrent, Listed
<1>7. RunListSound'
  BY <1>1, <1>2, <1>5 DEF IInv, RunListSound, Listed, Injective
<1>8. InitSurvives'
  BY <1>1, <1>2, <1>3, <1>5, InitAssumption DEF IInv, InitSurvives, Listed
<1>9. PidsUnique' /\ PidsIssued' /\ ThreadsAreUser' /\ OwnersExist'
  BY <1>3, TableLemma
<1> QED BY <1>2, <1>3, <1>4, <1>6, <1>7, <1>8, <1>9

(***************************************************************************)
(* What the lemmas on creation establish about schedVars, info and         *)
(* nextPid, whoever the creator is.                                        *)
(***************************************************************************)
TableInv ==
    /\ runq \in Seq(Proc)
    /\ current \in Proc \cup {None}
    /\ state \in [Proc -> ProcState]
    /\ slice \in [Proc -> 1..TimeSlice]
    /\ info \in [Proc -> Info]
    /\ nextPid \in 1..MaxPid
    /\ AlwaysCurrent /\ RunListSound /\ InitSurvives
    /\ PidsUnique /\ PidsIssued /\ ThreadsAreUser /\ OwnersExist

LEMMA CreateLemma ==
    ASSUME IInv, NEW p \in Proc, NEW m \in Mode, ProcessCreate(p, m)
    PROVE  TableInv'
<1>1. PidsLeft
  BY DEF ProcessCreate, Enlist
<1>2. /\ NewInfo(m) \in Info /\ NewInfo(m).pid = nextPid
      /\ NewInfo(m).isThread = FALSE
  BY <1>1, NewInfoType DEF IInv
<1>3. current' = current /\ current \in Proc \cup {None}
  BY DEF ProcessCreate, Enlist, IInv, TypeOK
<1> QED BY <1>2, <1>3, EnlistLemma DEF ProcessCreate, TableInv

LEMMA CreateFailsLemma ==
    ASSUME IInv, ProcessCreateFails
    PROVE  TableInv'
<1>1. /\ runq' = runq /\ current' = current /\ state' = state
      /\ slice' = slice /\ info' = info
  BY DEF ProcessCreateFails, schedVars
<1>2. nextPid' \in 1..MaxPid /\ nextPid <= nextPid'
  BY PidAssumption
     DEF ProcessCreateFails, PidsLeft, AllocatePid, IInv, TypeOK
<1>3. PidsIssued'
  <2>1. \A p \in Proc : info[p].pid \in Nat
    BY DEF IInv, TypeOK, Info
  <2>2. nextPid \in Nat
    BY DEF IInv, TypeOK
  <2> QED BY <1>1, <1>2, <2>1, <2>2 DEF IInv, PidsIssued
<1>4. AlwaysCurrent' /\ RunListSound' /\ InitSurvives'
  BY <1>1 DEF IInv, AlwaysCurrent, RunListSound, InitSurvives, Listed
<1>5. PidsUnique' /\ ThreadsAreUser' /\ OwnersExist'
  BY <1>1 DEF IInv, PidsUnique, ThreadsAreUser, OwnersExist
<1> QED BY <1>1, <1>2, <1>3, <1>4, <1>5 DEF IInv, TypeOK, TableInv

LEMMA AddressSpaceFailsLemma ==
    ASSUME IInv, NEW p \in Proc, AddressSpaceFails(p)
    PROVE  TableInv'
<1>1. /\ runq \in Seq(Proc) /\ Injective(runq) /\ p \notin ToSet(runq)
      /\ state \in [Proc -> ProcState] /\ info \in [Proc -> Info]
      /\ slice \in [Proc -> 1..TimeSlice] /\ nextPid \in 1..MaxPid
      /\ ToSet(runq) \subseteq Proc
  <2>1. p \notin ToSet(runq)
    BY DEF AddressSpaceFails, IInv, RunListSound, Listed
  <2> QED BY <2>1 DEF IInv, TypeOK, RunListSound, Injective, ToSet
<1>2. /\ runq' \in Seq(Proc) /\ Injective(runq') /\ ToSet(runq') = ToSet(runq)
  <2> DEFINE q == SchedulerAdd(runq, p)
  <2>1. q \in Seq(Proc) /\ Injective(q) /\ ToSet(q) = ToSet(runq) \cup {p}
    BY <1>1, AddLemma
  <2>2. runq' = SchedulerRemove(q, p)
    BY DEF AddressSpaceFails
  <2> HIDE DEF q
  <2>3. /\ runq' \in Seq(Proc) /\ Injective(runq')
        /\ ToSet(runq') = ToSet(q) \ {p}
    BY <2>1, <2>2, RemoveLemma
  <2> QED BY <1>1, <2>1, <2>3
<1>3. /\ PidsLeft /\ state[p] = "FREE" /\ AllocatePid
      /\ info' = [info EXCEPT ![p] = NewInfo("USER")]
      /\ state' = [state EXCEPT ![p] = "READY"]
      /\ slice' = [slice EXCEPT ![p] = TimeSlice]
      /\ current' = current
  BY DEF AddressSpaceFails
<1>4. /\ NewInfo("USER") \in Info /\ NewInfo("USER").pid = nextPid
      /\ NewInfo("USER").isThread = FALSE
  BY <1>3, NewInfoType DEF IInv, Mode
<1>5. /\ nextPid' \in 1..MaxPid /\ state' \in [Proc -> ProcState]
      /\ slice' \in [Proc -> 1..TimeSlice] /\ info' \in [Proc -> Info]
  BY <1>1, <1>3, <1>4, SliceAssumption, PidAssumption DEF PidsLeft, AllocatePid
<1>6. /\ state'[p] = "READY"
      /\ \A x \in Proc : x # p => info'[x] = info[x] /\ state'[x] = state[x]
  BY <1>1, <1>3
<1>7. AlwaysCurrent' /\ InitSurvives'
  BY <1>1, <1>2, <1>3, <1>6, InitAssumption
     DEF IInv, AlwaysCurrent, InitSurvives, Listed
<1>8. RunListSound'
  BY <1>1, <1>2, <1>6 DEF IInv, RunListSound, Listed, Injective
<1>9. PidsUnique' /\ PidsIssued' /\ ThreadsAreUser' /\ OwnersExist'
  BY <1>3, <1>4, TableLemma
<1>10. current' \in Proc \cup {None}
  BY <1>3 DEF IInv, TypeOK
<1> QED BY <1>2, <1>5, <1>7, <1>8, <1>9, <1>10 DEF TableInv

LEMMA ElfToProcFailsLemma ==
    ASSUME IInv, ElfToProcFails
    PROVE  TableInv'
BY CreateFailsLemma, AddressSpaceFailsLemma DEF ElfToProcFails

LEMMA ThreadCreateLemma ==
    ASSUME IInv, SysThreadCreate
    PROVE  TableInv'
<1>1. /\ current \in Proc /\ info[current].mode = "USER"
      /\ state[current] = "RUNNING" /\ info \in [Proc -> Info]
  BY DEF SysThreadCreate, InUser, IInv, AlwaysCurrent, Listed, ToSet, TypeOK
<1>2. CASE \E p \in Proc : Enlist(p, ThreadInfo)
  <2>1. PICK p \in Proc : Enlist(p, ThreadInfo)
    BY <1>2
  <2>2. \E o \in Proc : /\ state[o] # "FREE"
                        /\ info[o].pid = Group(current)
                        /\ info[o].mode = "USER"
                        /\ ~info[o].isThread
    BY <1>1 DEF IInv, OwnersExist, Group
  <2>3. Group(current) \in 0..MaxPid
    BY <1>1 DEF Group, Info
  <2>4. /\ ThreadInfo \in Info /\ ThreadInfo.pid = nextPid
        /\ ThreadInfo.mode = "USER" /\ ThreadInfo.ownerPid = Group(current)
    BY <2>3, PidAssumption DEF ThreadInfo, Info, Mode, IInv, TypeOK
  <2>5. current' = current /\ current \in Proc \cup {None}
    BY <1>1, <2>1 DEF Enlist
  <2> QED BY <2>1, <2>2, <2>4, <2>5, EnlistLemma DEF TableInv
<1>3. CASE PidsLeft /\ AllocatePid /\ UNCHANGED <<schedVars, info>>
  BY <1>3, CreateFailsLemma DEF ProcessCreateFails
<1> QED BY <1>2, <1>3 DEF SysThreadCreate

(***************************************************************************)
(* A user process that has the core is not init.                           *)
(***************************************************************************)
LEMMA UserIsNotInit ==
    ASSUME IInv, InUser
    PROVE  /\ current # InitProc /\ current \in Proc /\ current \in Listed
           /\ state[current] = "RUNNING"
BY DEF IInv, InUser, InitSurvives, AlwaysCurrent, Listed, ToSet, TypeOK

(***************************************************************************)
(* Ending another process or thread p: it stays on the list (q = runq) if  *)
(* it is a thread, or leaves it.                                           *)
(***************************************************************************)
LEMMA EndOtherLemma ==
    ASSUME IInv, NEW p \in Listed, NEW s \in {"ZOMBIE", "CRASHED", "FREE"},
           p # current, p # InitProc,
           state' = [state EXCEPT ![p] = s],
           \/ runq' = SchedulerRemove(runq, p)
           \/ runq' = runq /\ s # "FREE" /\ info[p].isThread,
           s = "FREE" => info[p].isThread,
           UNCHANGED <<current, slice, tableVars, initVars, masked>>
    PROVE  IInv'
<1>1. /\ runq \in Seq(Proc) /\ Injective(runq) /\ p \in Proc
      /\ state \in [Proc -> ProcState] /\ ToSet(runq) \subseteq Proc
  BY DEF IInv, TypeOK, RunListSound, Injective, Listed, ToSet
<1>2. /\ runq' \in Seq(Proc) /\ Injective(runq')
      /\ \/ ToSet(runq') = ToSet(runq) \ {p}
         \/ /\ ToSet(runq') = ToSet(runq)
            /\ s # "FREE" /\ info[p].isThread
  BY <1>1, RemoveLemma
<1>3. /\ current' = current /\ slice' = slice /\ info' = info
      /\ nextPid' = nextPid /\ initPc' = initPc /\ loader' = loader
      /\ masked' = masked
  BY DEF tableVars, initVars
<1>4. /\ state' \in [Proc -> ProcState] /\ state'[p] = s
      /\ \A x \in Proc : x # p => state'[x] = state[x]
  BY <1>1
<1>5. TypeOK'
  BY <1>2, <1>3, <1>4 DEF IInv, TypeOK
<1>6. AlwaysCurrent'
  BY <1>1, <1>2, <1>3, <1>4 DEF IInv, AlwaysCurrent, Listed
<1>7. RunListSound'
  <2> SUFFICES ASSUME NEW x \in ToSet(runq')
               PROVE  /\ state'[x] # "FREE"
                      /\ state'[x] \in Terminated => info'[x].isThread
    BY <1>2 DEF RunListSound, Injective, Listed
  <2>1. x \in ToSet(runq) /\ x \in Proc
    BY <1>1, <1>2
  <2>2. CASE x = p
    BY <1>2, <1>3, <1>4, <2>2
  <2>3. CASE x # p
    BY <1>3, <1>4, <2>1, <2>3 DEF IInv, RunListSound, Listed
  <2> QED BY <2>2, <2>3
<1>8. InitSurvives'
  BY <1>1, <1>2, <1>3, <1>4, InitAssumption DEF IInv, InitSurvives, Listed
<1>9. \A x \in Proc : state'[x] # "FREE" => state[x] # "FREE"
  BY <1>1, <1>4 DEF IInv, RunListSound, Listed
<1>10. PidsUnique' /\ PidsIssued' /\ ThreadsAreUser'
  BY <1>3, <1>9 DEF IInv, PidsUnique, PidsIssued, ThreadsAreUser
<1>11. OwnersExist'
  <2> SUFFICES ASSUME NEW t \in Proc, state'[t] # "FREE", info[t].isThread
               PROVE  \E o \in Proc : /\ state'[o] # "FREE"
                                      /\ info[o].pid = info[t].ownerPid
                                      /\ info[o].mode = "USER"
                                      /\ ~info[o].isThread
    BY <1>3 DEF OwnersExist
  <2>1. PICK o \in Proc : /\ state[o] # "FREE"
                          /\ info[o].pid = info[t].ownerPid
                          /\ info[o].mode = "USER"
                          /\ ~info[o].isThread
    BY <1>9 DEF IInv, OwnersExist
  <2>2. state'[o] # "FREE"
    BY <1>4, <2>1
  <2> QED BY <2>1, <2>2
<1> QED BY <1>3, <1>5, <1>6, <1>7, <1>8, <1>10, <1>11 DEF IInv, LoaderKnown

LEMMA KillLemma ==
    ASSUME IInv, NEW p \in Proc, SysKill(p)
    PROVE  IInv'
<1>1. InUser /\ p \in Listed /\ current # InitProc
  BY UserIsNotInit DEF SysKill
<1>2. CASE p = current
  BY <1>1, <1>2, ExitLemma DEF SysKill
<1>3. CASE p # current
  <2>1. info[p].mode # "KERNEL"
    BY <1>1, <1>3 DEF SysKill, MayKill, InUser
  <2>2. p # InitProc
    BY <2>1 DEF IInv, InitSurvives
  <2>3. /\ state' = [state EXCEPT ![p] = "ZOMBIE"]
        /\ runq' = SchedulerRemove(runq, p)
        /\ UNCHANGED <<current, slice, tableVars, initVars, masked>>
    BY <1>3 DEF SysKill
  <2> QED BY <1>1, <1>3, <2>2, <2>3, EndOtherLemma
<1> QED BY <1>2, <1>3

LEMMA ThreadKillLemma ==
    ASSUME IInv, NEW p \in Proc, SysThreadKill(p)
    PROVE  IInv'
<1>1. /\ current # InitProc /\ p \in Listed /\ info[p].isThread
      /\ p # InitProc
  BY UserIsNotInit DEF SysThreadKill, OwnedByCurrent, IInv, InitSurvives
<1>2. CASE p = current
  BY <1>1, <1>2, ThreadExitLemma DEF SysThreadKill
<1>3. CASE p # current
  <2>1. /\ state' = [state EXCEPT ![p] = "CRASHED"]
        /\ runq' = runq
        /\ UNCHANGED <<current, slice, tableVars, initVars, masked>>
    BY <1>3 DEF SysThreadKill
  <2> QED BY <1>1, <1>3, <2>1, EndOtherLemma
<1> QED BY <1>2, <1>3

LEMMA ThreadDestroyLemma ==
    ASSUME IInv, NEW p \in Proc, SysThreadDestroy(p)
    PROVE  IInv'
<1>1. /\ p \in Listed /\ info[p].isThread /\ state[p] \in Terminated
      /\ state[current] = "RUNNING"
      /\ state' = [state EXCEPT ![p] = "FREE"]
      /\ runq' = SchedulerRemove(runq, p)
      /\ UNCHANGED <<current, slice, tableVars, initVars, masked>>
  BY UserIsNotInit DEF SysThreadDestroy, MayDestroy, OwnedByCurrent
<1>2. p # current /\ p # InitProc
  BY <1>1 DEF IInv, InitSurvives
<1> QED BY <1>1, <1>2, EndOtherLemma

(***************************************************************************)
(* schedule() passes the core from one process to another.                 *)
(***************************************************************************)
LEMMA TimerLemma ==
    ASSUME IInv, TimerHandler
    PROVE  IInv'
<1>1. /\ runq' = runq /\ info' = info /\ nextPid' = nextPid
      /\ initPc' = initPc /\ loader' = loader /\ masked' = masked
  BY DEF TimerHandler, tableVars, initVars
<1>2. /\ current \in Proc /\ current \in ToSet(runq) /\ ToSet(runq) \subseteq Proc
      /\ slice \in [Proc -> 1..TimeSlice] /\ state \in [Proc -> ProcState]
      /\ state[current] = "RUNNING" /\ runq \in Seq(Proc)
  BY DEF IInv, AlwaysCurrent, Listed, ToSet, TypeOK
<1>3. \/ /\ slice' \in [Proc -> 1..TimeSlice]
         /\ current' = current /\ state' = state
      \/ \E next \in ToSet(runq) :
            /\ state[next] = "READY"
            /\ slice' \in [Proc -> 1..TimeSlice]
            /\ current' = next
            /\ state' = [state EXCEPT ![current] = "READY", ![next] = "RUNNING"]
  <2>1. CASE slice[current] > 1
    BY <1>2, <2>1, SliceAssumption DEF TimerHandler
  <2>2. CASE ~(slice[current] > 1)
    <3> DEFINE sl == [slice EXCEPT ![current] = TimeSlice]
               next == SchedulerNext(runq, current, state)
    <3>1. Schedule(sl)
      BY <2>2 DEF TimerHandler
    <3>2. sl \in [Proc -> 1..TimeSlice]
      BY <1>2, SliceAssumption
    <3>3. next # None => next \in ToSet(runq) /\ state[next] = "READY"
      BY <1>2, NextLemma
    <3>4. CASE next \in {None, current}
      BY <3>1, <3>2, <3>4 DEF Schedule
    <3>5. CASE next \notin {None, current}
      <4>1. /\ state' = [state EXCEPT ![current] = "READY", ![next] = "RUNNING"]
            /\ slice' = [sl EXCEPT ![next] = TimeSlice]
            /\ current' = next
        BY <1>2, <3>1, <3>5 DEF Schedule
      <4> HIDE DEF next, sl
      <4>2. TimeSlice \in 1..TimeSlice
        BY SliceAssumption
      <4>3. slice' \in [Proc -> 1..TimeSlice]
        BY <3>2, <4>1, <4>2
      <4> QED BY <3>3, <3>5, <4>1, <4>3
    <3> QED BY <3>4, <3>5
  <2> QED BY <2>1, <2>2
<1>4. /\ current' \in ToSet(runq) /\ current' \in Proc
      /\ state' \in [Proc -> ProcState]
      /\ slice' \in [Proc -> 1..TimeSlice]
      /\ \A p \in Proc : state'[p] = "RUNNING" <=> p = current'
      /\ \A p \in Proc : state'[p] \in Terminated <=> state[p] \in Terminated
      /\ \A p \in Proc : state'[p] = "FREE" <=> state[p] = "FREE"
  BY <1>2, <1>3 DEF IInv, AlwaysCurrent
<1>5. TypeOK' /\ AlwaysCurrent'
  BY <1>1, <1>4 DEF IInv, TypeOK, AlwaysCurrent, Listed
<1>6. RunListSound' /\ InitSurvives'
  BY <1>1, <1>2, <1>4, InitAssumption DEF IInv, RunListSound, InitSurvives, Listed
<1>7. PidsUnique' /\ PidsIssued' /\ ThreadsAreUser' /\ OwnersExist'
  BY <1>1, <1>4 DEF IInv, PidsUnique, PidsIssued, ThreadsAreUser, OwnersExist
<1> QED BY <1>1, <1>5, <1>6, <1>7 DEF IInv, LoaderKnown

(***************************************************************************)
(* The steps of init: the new loader is not init, whose t_process is taken.*)
(***************************************************************************)
LEMMA InitStepLemma ==
    ASSUME IInv, InitStep
    PROVE  IInv'
<1>1. CASE StartLoader
  <2>1. CASE \E p \in Proc : /\ ProcessCreate(p, "KERNEL")
                             /\ loader' = p
                             /\ initPc' = "wait"
    <3>1. PICK p \in Proc : /\ ProcessCreate(p, "KERNEL")
                            /\ loader' = p
                            /\ initPc' = "wait"
      BY <2>1
    <3>2. TableInv'
      BY <3>1, CreateLemma DEF Mode
    <3>3. p # InitProc
      BY <3>1 DEF ProcessCreate, Enlist, IInv, InitSurvives, RunListSound
    <3> QED BY <1>1, <3>1, <3>2, <3>3
            DEF StartLoader, TableInv, IInv, TypeOK, LoaderKnown
  <2>2. CASE ProcessCreateFails /\ initPc' = "panic" /\ UNCHANGED loader
    BY <1>1, <2>2, CreateFailsLemma
       DEF StartLoader, TableInv, IInv, TypeOK, LoaderKnown
  <2> QED BY <1>1, <2>1, <2>2 DEF StartLoader
<1>2. CASE LoaderDone
  <2>1. /\ UNCHANGED <<runq, current, state, slice, info, nextPid>>
        /\ initPc' = "launch" /\ loader' = loader /\ masked' = masked
    BY <1>2 DEF LoaderDone, schedVars, tableVars
  <2>2. AlwaysCurrent' /\ RunListSound' /\ InitSurvives'
    BY <2>1 DEF IInv, AlwaysCurrent, RunListSound, InitSurvives, Listed
  <2>3. PidsUnique' /\ PidsIssued' /\ ThreadsAreUser' /\ OwnersExist'
    BY <2>1 DEF IInv, PidsUnique, PidsIssued, ThreadsAreUser, OwnersExist
  <2> QED BY <2>1, <2>2, <2>3 DEF IInv, TypeOK, LoaderKnown
<1>3. CASE StartLauncher
  <2>1. TableInv'
    BY <1>3, CreateLemma, ElfToProcFailsLemma DEF StartLauncher, Mode
  <2>2. initPc' \in {"poll", "panic"} /\ loader' = loader /\ masked' = masked
    BY <1>3 DEF StartLauncher
  <2> QED BY <2>1, <2>2 DEF TableInv, IInv, TypeOK, LoaderKnown
<1> QED BY <1>1, <1>2, <1>3 DEF InitStep

LEMMA InitIInv == Init => IInv
<1> SUFFICES ASSUME Init PROVE IInv
  OBVIOUS
<1>1. runq = <<InitProc>> /\ Len(runq) = 1 /\ runq[1] = InitProc
  BY DEF Init
<1>2. Listed = {InitProc}
  BY <1>1 DEF Listed, ToSet
<1>3. TypeOK
  <2>1. runq \in Seq(Proc)
    BY <1>1, InitAssumption
  <2>2. slice \in [Proc -> 1..TimeSlice] /\ nextPid \in 1..MaxPid
    BY SliceAssumption, PidAssumption DEF Init
  <2>3. info \in [Proc -> Info]
    <3>1. [pid |-> 0, mode |-> "KERNEL", isThread |-> FALSE, ownerPid |-> 0]
             \in Info
      BY PidAssumption DEF Info, Mode
    <3> QED BY <3>1 DEF Init
  <2>4. state \in [Proc -> ProcState] /\ current \in Proc
    BY InitAssumption DEF Init
  <2> QED BY <2>1, <2>2, <2>3, <2>4 DEF Init, TypeOK
<1>4. AlwaysCurrent /\ RunListSound /\ InitSurvives /\ LoaderKnown
  BY <1>1, <1>2, InitAssumption, NoneAssumption
     DEF Init, AlwaysCurrent, RunListSound, InitSurvives, LoaderKnown
<1>5. PidsUnique /\ PidsIssued /\ ThreadsAreUser /\ OwnersExist
  BY InitAssumption
     DEF Init, PidsUnique, PidsIssued, ThreadsAreUser, OwnersExist
<1> QED BY <1>3, <1>4, <1>5 DEF IInv

LEMMA StutterLemma ==
    ASSUME IInv, UNCHANGED <<schedVars, tableVars, initVars>>,
           masked' \in {"no", "read", "lost"}
    PROVE  IInv'
<1>1. UNCHANGED <<runq, current, state, slice, info, nextPid, initPc, loader>>
  BY DEF schedVars, tableVars, initVars
<1>2. AlwaysCurrent' /\ RunListSound' /\ InitSurvives'
  BY <1>1 DEF IInv, AlwaysCurrent, RunListSound, InitSurvives, Listed
<1>3. PidsUnique' /\ PidsIssued' /\ ThreadsAreUser' /\ OwnersExist'
  BY <1>1 DEF IInv, PidsUnique, PidsIssued, ThreadsAreUser, OwnersExist
<1> QED BY <1>1, <1>2, <1>3 DEF IInv, TypeOK, LoaderKnown

LEMMA NextIInv == IInv /\ [Next]_vars => IInv'
<1> SUFFICES ASSUME IInv, [Next]_vars PROVE IInv'
  OBVIOUS
<1>1. CASE TimerHandler
  BY <1>1, TimerLemma
<1>2. CASE StartLoader \/ LoaderDone \/ StartLauncher
  BY <1>2, InitStepLemma DEF InitStep
<1>3. CASE LoaderExit
  BY <1>3, ExitLemma DEF LoaderExit, IInv, LoaderKnown
<1>4. CASE SysExec
  <2>1. TableInv'
    BY <1>4, CreateLemma, ElfToProcFailsLemma DEF SysExec, Mode
  <2>2. initPc' = initPc /\ loader' = loader /\ masked' = masked
    BY <1>4 DEF SysExec, initVars
  <2> QED BY <2>1, <2>2 DEF TableInv, IInv, TypeOK, LoaderKnown
<1>5. CASE SysThreadCreate
  <2>1. TableInv'
    BY <1>5, ThreadCreateLemma
  <2>2. initPc' = initPc /\ loader' = loader /\ masked' = masked
    BY <1>5 DEF SysThreadCreate, initVars
  <2> QED BY <2>1, <2>2 DEF TableInv, IInv, TypeOK, LoaderKnown
<1>6. CASE SysExit
  BY <1>6, ExitLemma, UserIsNotInit DEF SysExit
<1>7. CASE UserFault
  BY <1>7, ExitLemma, UserIsNotInit DEF UserFault
<1>8. CASE \E p \in Proc : SysKill(p)
  BY <1>8, KillLemma
<1>9. CASE SysThreadExit
  BY <1>9, ThreadExitLemma, UserIsNotInit DEF SysThreadExit
<1>10. CASE \E p \in Proc : SysThreadKill(p)
  BY <1>10, ThreadKillLemma
<1>11. CASE \E p \in Proc : SysThreadDestroy(p)
  BY <1>11, ThreadDestroyLemma
<1>12. CASE SysReadBegin \/ SysReadEnd \/ LogLosesInterrupts
  BY <1>12, StutterLemma DEF SysReadBegin, SysReadEnd, LogLosesInterrupts
<1>13. CASE UNCHANGED vars
  <2>1. UNCHANGED <<schedVars, tableVars, initVars>> /\ masked' \in {"no", "read", "lost"}
    BY <1>13 DEF vars, schedVars, tableVars, initVars, IInv, TypeOK
  <2> QED BY <2>1, StutterLemma
<1> QED BY <1>1, <1>2, <1>3, <1>4, <1>5, <1>6, <1>7, <1>8, <1>9, <1>10,
           <1>11, <1>12, <1>13 DEF Next

(***************************************************************************)
(* The inductive invariant holds in every reachable state, for every set   *)
(* of t_process objects, every time slice and every number of pids.        *)
(***************************************************************************)
THEOREM Inductive == Spec => []IInv
BY InitIInv, NextIInv, PTL DEF Spec

(***************************************************************************)
(* Type correctness of the process table and the run list.                 *)
(***************************************************************************)
THEOREM TypeCorrect == Spec => []TypeOK
<1>1. IInv => TypeOK
  BY DEF IInv
<1> QED BY <1>1, Inductive, PTL

(***************************************************************************)
(* A timer interrupt always finds a current process, which is listed and   *)
(* is the only running one: boot.s never panics for want of a context.     *)
(***************************************************************************)
THEOREM CoreNeverIdle == Spec => []AlwaysCurrent
<1>1. IInv => AlwaysCurrent
  BY DEF IInv
<1> QED BY <1>1, Inductive, PTL

(***************************************************************************)
(* The run list never holds a process twice, a freed one, or a terminated  *)
(* one that is not a thread awaiting its destruction.                      *)
(***************************************************************************)
THEOREM ListSound == Spec => []RunListSound
<1>1. IInv => RunListSound
  BY DEF IInv
<1> QED BY <1>1, Inductive, PTL

(***************************************************************************)
(* A pid names one t_process for as long as it is allocated, however many  *)
(* creations of processes and threads succeeded or failed.                 *)
(***************************************************************************)
THEOREM PidsName == Spec => []PidsUnique
<1>1. IInv => PidsUnique
  BY DEF IInv
<1> QED BY <1>1, Inductive, PTL

(***************************************************************************)
(* A thread's owner pid names an existing user process that is not itself  *)
(* a thread, also for threads created by threads.                          *)
(***************************************************************************)
THEOREM ThreadsHaveOwners == Spec => []OwnersExist
<1>1. IInv => OwnersExist
  BY DEF IInv
<1> QED BY <1>1, Inductive, PTL

(***************************************************************************)
(* How a step changes states: only creation leaves "FREE", only thread     *)
(* destruction returns to it, and a terminated process never gets back.    *)
(***************************************************************************)
Deadlier(p) == state[p] \in Terminated => state'[p] \in Terminated

LEMMA ResumeDead ==
    ASSUME IInv, NEW q \in Seq(Proc), NEW cur,
           NEW s \in Terminated, current # InitProc, current \in Proc,
           ToSet(q) \subseteq Listed, InitProc \in ToSet(q),
           ResumeNext(q, cur, [state EXCEPT ![current] = s])
    PROVE  \A p \in Proc : /\ Deadlier(p)
                           /\ state'[p] = "FREE" => state[p] = "FREE"
<1> DEFINE st == [state EXCEPT ![current] = s]
<1>1. /\ st \in [Proc -> ProcState] /\ st[current] = s
      /\ \A p \in Proc : p # current => st[p] = state[p]
  BY DEF IInv, TypeOK
<1>2. \A p \in Proc : st[p] # "RUNNING"
  BY <1>1 DEF IInv, AlwaysCurrent
<1>3. st[InitProc] = "READY"
  BY <1>1, <1>2, InitAssumption
     DEF IInv, InitSurvives, RunListSound, Listed
<1>a. ResumeNext(q, cur, st)
  OBVIOUS
<1>b. \E p \in ToSet(q) : st[p] = "READY"
  BY <1>3
<1> HIDE DEF st
<1>4. /\ st[current'] = "READY"
      /\ state' = [st EXCEPT ![current'] = "RUNNING"]
  BY <1>1, <1>2, <1>a, <1>b, ResumeLemma DEF IInv
<1>5. state[current] = "RUNNING"
  BY DEF IInv, AlwaysCurrent
<1> QED BY <1>1, <1>4, <1>5 DEF Deadlier

LEMMA ExitDead ==
    ASSUME IInv, NEW code, current # InitProc, ProcessExitCurrent(code)
    PROVE  \A p \in Proc : /\ Deadlier(p)
                           /\ state'[p] = "FREE" => state[p] = "FREE"
<1> DEFINE q == SchedulerRemove(runq, current)
<1>1. /\ runq \in Seq(Proc) /\ Injective(runq) /\ current \in Proc
  BY DEF IInv, TypeOK, RunListSound, Injective, AlwaysCurrent, Listed, ToSet
<1>2. q \in Seq(Proc) /\ ToSet(q) = ToSet(runq) \ {current}
  BY <1>1, RemoveLemma
<1>3. ToSet(q) \subseteq Listed /\ InitProc \in ToSet(q)
  BY <1>2 DEF IInv, InitSurvives, Listed
<1>4. ExitState(code) \in Terminated
  BY DEF ExitState
<1>5. ResumeNext(q, None, [state EXCEPT ![current] = ExitState(code)])
  BY DEF ProcessExitCurrent
<1> HIDE DEF q
<1> QED BY <1>1, <1>2, <1>3, <1>4, <1>5, ResumeDead

LEMMA ThreadExitDead ==
    ASSUME IInv, NEW left \in Terminated, current # InitProc,
           ThreadExitCurrent(left)
    PROVE  \A p \in Proc : /\ Deadlier(p)
                           /\ state'[p] = "FREE" => state[p] = "FREE"
<1>1. CASE ~ info[current].isThread
  BY <1>1, ExitDead DEF ThreadExitCurrent
<1>2. CASE info[current].isThread
  <2>1. runq \in Seq(Proc) /\ current \in Proc
    BY DEF IInv, TypeOK, AlwaysCurrent, Listed, ToSet
  <2>2. ToSet(runq) \subseteq Listed /\ InitProc \in ToSet(runq)
    BY DEF IInv, InitSurvives, Listed
  <2>3. ResumeNext(runq, current, [state EXCEPT ![current] = left])
    BY <1>2 DEF ThreadExitCurrent
  <2> QED BY <2>1, <2>2, <2>3, ResumeDead
<1> QED BY <1>1, <1>2

(***************************************************************************)
(* What a step may do to the state of one t_process.                       *)
(***************************************************************************)
SafeStep(p) ==
    /\ state[p] \in Terminated => state'[p] \in Terminated \cup {"FREE"}
    /\ state[p] # "FREE" /\ state'[p] = "FREE" =>
          /\ state[p] \in Terminated
          /\ p \in Listed \ ToSet(runq')
          /\ info[p].isThread
          /\ info[p].ownerPid = Group(current)
          /\ p # current

LEMMA StepsAreSafe ==
    ASSUME IInv, [Next]_vars
    PROVE  \A p \in Proc : SafeStep(p)
<1> USE DEF SafeStep
<1>0. state \in [Proc -> ProcState]
  BY DEF IInv, TypeOK
<1>1. CASE TimerHandler
  <2>1. \/ state' = state
        \/ \E next : state' = [state EXCEPT ![current] = "READY",
                                            ![next] = "RUNNING"]
                     /\ state[next] = "READY"
    <3> DEFINE next == SchedulerNext(runq, current, state)
    <3>1. runq \in Seq(Proc)
      BY DEF IInv, TypeOK
    <3>2. next # None => state[next] = "READY"
      BY <3>1, NextLemma
    <3>3. state[current] = "RUNNING"
      BY DEF IInv, AlwaysCurrent, Listed, ToSet, TypeOK
    <3> QED BY <1>1, <3>2, <3>3 DEF TimerHandler, Schedule
  <2>2. state[current] = "RUNNING"
    BY DEF IInv, AlwaysCurrent, Listed, ToSet, TypeOK
  <2> QED BY <1>0, <2>1, <2>2
<1>2. CASE StartLoader \/ StartLauncher \/ SysExec \/ SysThreadCreate
  <2>1. \/ state' = state
        \/ \E x \in Proc : /\ state[x] = "FREE"
                           /\ state' = [state EXCEPT ![x] = "READY"]
    BY <1>2 DEF StartLoader, StartLauncher, SysExec, SysThreadCreate,
                ElfToProcFails, AddressSpaceFails, ProcessCreateFails,
                ProcessCreate, Enlist, schedVars
  <2> QED BY <1>0, <2>1
<1>3. CASE \/ LoaderDone \/ SysReadBegin \/ SysReadEnd
           \/ LogLosesInterrupts \/ UNCHANGED vars
  BY <1>3 DEF LoaderDone, SysReadBegin, SysReadEnd, LogLosesInterrupts, vars,
              schedVars
<1>4. CASE LoaderExit
  BY <1>4, ExitDead DEF LoaderExit, IInv, LoaderKnown, Deadlier
<1>5. CASE SysExit \/ UserFault
  BY <1>5, ExitDead, UserIsNotInit DEF SysExit, UserFault, Deadlier
<1>6. CASE SysThreadExit
  BY <1>6, ThreadExitDead, UserIsNotInit DEF SysThreadExit, Deadlier
<1>7. ASSUME NEW x \in Proc, SysKill(x)
      PROVE  \A p \in Proc : SafeStep(p)
  <2>1. CASE x = current
    BY <1>7, <2>1, ExitDead, UserIsNotInit DEF SysKill, Deadlier
  <2>2. CASE x # current
    BY <1>0, <1>7, <2>2 DEF SysKill
  <2> QED BY <2>1, <2>2
<1>8. ASSUME NEW x \in Proc, SysThreadKill(x)
      PROVE  \A p \in Proc : SafeStep(p)
  <2>1. CASE x = current
    BY <1>8, <2>1, ThreadExitDead, UserIsNotInit DEF SysThreadKill, Deadlier
  <2>2. CASE x # current
    BY <1>0, <1>8, <2>2 DEF SysThreadKill
  <2> QED BY <2>1, <2>2
<1>9. ASSUME NEW x \in Proc, SysThreadDestroy(x)
      PROVE  \A p \in Proc : SafeStep(p)
  <2>1. /\ x \in Listed /\ info[x].isThread /\ state[x] \in Terminated
        /\ info[x].ownerPid = Group(current)
        /\ state' = [state EXCEPT ![x] = "FREE"]
        /\ runq' = SchedulerRemove(runq, x)
    BY <1>9 DEF SysThreadDestroy, MayDestroy, OwnedByCurrent
  <2>2. x \notin ToSet(runq')
    BY <2>1, RemoveLemma DEF IInv, TypeOK, RunListSound, Injective
  <2>3. x # current
    BY <1>9, <2>1, UserIsNotInit DEF SysThreadDestroy
  <2> QED BY <1>0, <2>1, <2>2, <2>3
<1> QED BY <1>1, <1>2, <1>3, <1>4, <1>5, <1>6, <1>7, <1>8, <1>9 DEF Next

(***************************************************************************)
(* A terminated process or thread is never scheduled or started again.     *)
(***************************************************************************)
THEOREM DeadStayDead == Spec => StaysDead
<1>1. IInv /\ [Next]_vars =>
         [\A p \in Proc : state[p] \in Terminated =>
             state'[p] \in Terminated \cup {"FREE"}]_vars
  BY StepsAreSafe DEF SafeStep
<1> QED BY <1>1, Inductive, PTL DEF Spec, StaysDead

(***************************************************************************)
(* Only the memory of a terminated thread is freed, by its own group, as   *)
(* it leaves the run list.                                                 *)
(***************************************************************************)
THEOREM ReclaimIsSafe == Spec => FreedSafely
<1>1. IInv /\ [Next]_vars =>
         [\A p \in Proc : state[p] # "FREE" /\ state'[p] = "FREE" =>
             /\ state[p] \in Terminated
             /\ p \in Listed \ ToSet(runq')
             /\ info[p].isThread
             /\ info[p].ownerPid = Group(current)
             /\ p # current]_vars
  BY StepsAreSafe DEF SafeStep
<1> QED BY <1>1, Inductive, PTL DEF Spec, FreedSafely

(***************************************************************************)
(* The process table is sound, whatever the number of processes, the time  *)
(* slice and the pid limit.                                                *)
(***************************************************************************)
THEOREM TableSound == Spec => []TableIsSound
BY TypeCorrect, CoreNeverIdle, ListSound, PidsName, ThreadsHaveOwners, PTL DEF TableIsSound


----------------------------------------------------------------------------
(***************************************************************************)
(* The refinement of Lifecycle goes through the processes of the run list  *)
(* that have not ended: their pids differ, so that what a pid is seen as   *)
(* depends on them, on the current process and on the next pid only, and   *)
(* every step is one of four kinds, told apart by what it does to these.   *)
(***************************************************************************)
Alive == {p \in Listed : state[p] \notin Terminated}

PidSeen(n) ==
  IF n >= nextPid THEN "unborn"
  ELSE IF info[current].pid = n THEN "running"
  ELSE IF \E p \in Alive : info[p].pid = n THEN "ready"
  ELSE "dead"

LEMMA AliveOnes ==
    ASSUME IInv
    PROVE  /\ current \in Alive /\ Alive \subseteq Proc /\ nextPid \in 1..MaxPid
           /\ \A p \in Alive : /\ info[p].pid \in 0..(nextPid - 1)
                               /\ state[p] = IF p = current THEN "RUNNING" ELSE "READY"
           /\ \A p, q \in Alive : info[p].pid = info[q].pid => p = q
<1>1. /\ Listed \subseteq Proc /\ current \in Listed /\ nextPid \in 1..MaxPid
      /\ state \in [Proc -> ProcState] /\ info \in [Proc -> Info]
  BY DEF IInv, TypeOK, AlwaysCurrent, Listed, ToSet
<1>2. \A p \in Proc : state[p] = "RUNNING" <=> p = current
  BY DEF IInv, AlwaysCurrent
<1>3. current \in Alive /\ Alive \subseteq Proc
  BY <1>1, <1>2 DEF Alive
<1>4. \A p \in Alive : state[p] # "FREE" /\ p \in Proc
  BY <1>1 DEF Alive, IInv, RunListSound
<1>5. ASSUME NEW p \in Alive
      PROVE  /\ info[p].pid \in 0..(nextPid - 1)
             /\ state[p] = IF p = current THEN "RUNNING" ELSE "READY"
  <2>1. info[p].pid < nextPid
    BY <1>4 DEF IInv, PidsIssued
  <2>2. info[p].pid \in 0..MaxPid
    BY <1>1, <1>4 DEF Info
  <2>3. state[p] \in ProcState /\ state[p] # "FREE" /\ state[p] \notin Terminated
    BY <1>1, <1>4 DEF Alive
  <2> QED BY <1>1, <1>2, <1>4, <2>1, <2>2, <2>3, PidAssumption
<1>6. \A p, q \in Alive : info[p].pid = info[q].pid => p = q
  BY <1>4 DEF IInv, PidsUnique
<1> QED BY <1>1, <1>3, <1>5, <1>6

LEMMA PidSeenIsStatus ==
    ASSUME IInv
    PROVE  \A n \in 0..(MaxPid - 1) : PidStatus(n) = PidSeen(n)
<1> TAKE n \in 0..(MaxPid - 1)
<1>1. /\ current \in Alive /\ Alive \subseteq Proc
      /\ \A p \in Alive : state[p] = IF p = current THEN "RUNNING" ELSE "READY"
  BY AliveOnes
<1>2. \A p \in Proc : Bears(p, n) <=> p \in Alive /\ info[p].pid = n
  BY DEF Bears, Alive
<1>3. (\E p \in Proc : Bears(p, n) /\ state[p] = "RUNNING") <=> info[current].pid = n
  BY <1>1, <1>2
<1>4. (\E p \in Proc : Bears(p, n)) <=> \E p \in Alive : info[p].pid = n
  BY <1>1, <1>2
<1> QED BY <1>3, <1>4 DEF PidStatus, PidSeen

LEMMA SeenIsStatus == IInv => \A n \in 0..(MaxPid - 1) : PidStatus(n) = PidSeen(n)
BY PidSeenIsStatus

LEMMA SeenIsStatusNext == IInv' => \A n \in 0..(MaxPid - 1) : PidStatus(n)' = PidSeen(n)'
<1>1. (IInv => \A n \in 0..(MaxPid - 1) : PidStatus(n) = PidSeen(n))'
  BY SeenIsStatus, PTL
<1> QED BY <1>1

(***************************************************************************)
(* What a step does to those that have not ended.                          *)
(***************************************************************************)
Kept == \A p \in Alive : info'[p] = info[p]

NothingSeen == Alive' = Alive /\ current' = current /\ nextPid' = nextPid /\ Kept

CoreGoesOn ==
  /\ current' \in Alive \ {current} /\ (Alive' = Alive \/ Alive' = Alive \ {current})
  /\ nextPid' = nextPid /\ info' = info

OtherEnds ==
  \E p \in Alive \ {current} :
    /\ info[p].mode # "KERNEL" /\ Alive' = Alive \ {p}
    /\ current' = current /\ nextPid' = nextPid /\ info' = info

PidIsUsed ==
  /\ nextPid # MaxPid /\ nextPid' = nextPid + 1 /\ current' = current /\ Kept
  /\ \/ Alive' = Alive
     \/ \E p \in Proc \ Alive : Alive' = Alive \cup {p} /\ info'[p].pid = nextPid

LEMMA RunListFacts ==
    ASSUME IInv
    PROVE  /\ runq \in Seq(Proc) /\ Injective(runq) /\ ToSet(runq) = Listed /\ Listed \subseteq Proc
           /\ state \in [Proc -> ProcState] /\ info \in [Proc -> Info]
           /\ current \in Proc /\ current \in Listed /\ state[current] = "RUNNING"
           /\ \A p \in Proc : state[p] = "RUNNING" <=> p = current
           /\ \A p \in Listed : state[p] # "FREE"
BY DEF IInv, TypeOK, AlwaysCurrent, RunListSound, Injective, Listed, ToSet

\* The core passes to a ready process when the current one ends.
LEMMA ResumedIsSeen ==
    ASSUME IInv, NEW q \in Seq(Proc), NEW cur, NEW s \in Terminated, current # InitProc,
           ToSet(q) = Listed \/ ToSet(q) = Listed \ {current}, runq' = q,
           ResumeNext(q, cur, [state EXCEPT ![current] = s]),
           info' = info, nextPid' = nextPid
    PROVE  CoreGoesOn
<1> DEFINE st == [state EXCEPT ![current] = s]
<1>1. /\ state \in [Proc -> ProcState] /\ Listed \subseteq Proc /\ current \in Proc
      /\ \A p \in Proc : state[p] = "RUNNING" <=> p = current
  BY RunListFacts
<1>2. /\ st \in [Proc -> ProcState] /\ st[current] = s
      /\ \A p \in Proc : p # current => st[p] = state[p]
      /\ \A p \in Proc : st[p] # "RUNNING"
  BY <1>1
<1>3. InitProc \in ToSet(q) /\ st[InitProc] = "READY"
  BY <1>1, <1>2, InitAssumption DEF IInv, InitSurvives, RunListSound
<1>4. ResumeNext(q, cur, st) /\ \E p \in ToSet(q) : st[p] = "READY"
  BY <1>3
<1> HIDE DEF st
<1>5. /\ current' \in ToSet(q) /\ st[current'] = "READY" /\ current' \in Proc
      /\ state' = [st EXCEPT ![current'] = "RUNNING"]
  BY <1>2, <1>4, ResumeLemma DEF IInv
<1>6. current' # current /\ state[current'] = "READY"
  BY <1>2, <1>5
<1>7. current' \in Alive \ {current}
  BY <1>5, <1>6 DEF Alive
<1>8. \A p \in Proc : state'[p] \in Terminated <=> p = current \/ state[p] \in Terminated
  BY <1>1, <1>2, <1>5, <1>6
<1>9. Listed' = ToSet(q)
  BY DEF Listed
<1>10. Alive' = Alive \ {current}
  BY <1>1, <1>8, <1>9 DEF Alive
<1> QED BY <1>7, <1>10 DEF CoreGoesOn

LEMMA ExitIsSeen ==
    ASSUME IInv, NEW code, current # InitProc, ProcessExitCurrent(code),
           info' = info, nextPid' = nextPid
    PROVE  CoreGoesOn
<1>1. PICK q : q = SchedulerRemove(runq, current)
  OBVIOUS
<1>2. q \in Seq(Proc) /\ ToSet(q) = Listed \ {current}
  BY <1>1, RemoveLemma, RunListFacts
<1>3. PICK s \in Terminated : s = ExitState(code)
  BY DEF ExitState
<1>4. runq' = q /\ ResumeNext(q, None, [state EXCEPT ![current] = s])
  BY <1>1, <1>3 DEF ProcessExitCurrent
<1> QED BY <1>2, <1>4, ResumedIsSeen

LEMMA ThreadExitIsSeen ==
    ASSUME IInv, NEW left \in Terminated, current # InitProc, ThreadExitCurrent(left),
           info' = info, nextPid' = nextPid
    PROVE  CoreGoesOn
<1>1. CASE ~ info[current].isThread
  BY <1>1, ExitIsSeen DEF ThreadExitCurrent
<1>2. CASE info[current].isThread
  <2>1. runq' = runq /\ ResumeNext(runq, current, [state EXCEPT ![current] = left])
    BY <1>2 DEF ThreadExitCurrent
  <2> QED BY <2>1, RunListFacts, ResumedIsSeen
<1> QED BY <1>1, <1>2

\* Another one ends; it may have ended before.
LEMMA EndedIsSeen ==
    ASSUME IInv, NEW x \in Listed, x # current, info[x].mode # "KERNEL",
           NEW s \in {"ZOMBIE", "CRASHED"}, state' = [state EXCEPT ![x] = s],
           Listed' = Listed \/ Listed' = Listed \ {x},
           current' = current, nextPid' = nextPid, info' = info
    PROVE  NothingSeen \/ OtherEnds
<1>1. /\ state \in [Proc -> ProcState] /\ Listed \subseteq Proc
  BY RunListFacts
<1>2. Alive' = Alive \ {x}
  BY <1>1 DEF Alive
<1>3. CASE x \in Alive
  BY <1>2, <1>3 DEF OtherEnds
<1>4. CASE x \notin Alive
  BY <1>2, <1>4 DEF NothingSeen, Kept
<1> QED BY <1>3, <1>4

\* A new t_process is filled; it is put on the list, or taken off again.
LEMMA FilledIsSeen ==
    ASSUME IInv, NEW p \in Proc, NEW i, i.pid = nextPid, PidsLeft, AllocatePid,
           state[p] = "FREE", info' = [info EXCEPT ![p] = i],
           state' = [state EXCEPT ![p] = "READY"], current' = current,
           Listed' = Listed \/ Listed' = Listed \cup {p}
    PROVE  PidIsUsed
<1>1. /\ state \in [Proc -> ProcState] /\ info \in [Proc -> Info] /\ Listed \subseteq Proc
      /\ p \notin Listed
  BY RunListFacts
<1>2. p \notin Alive /\ info'[p] = i /\ Kept
  BY <1>1 DEF Alive, Kept
<1>3. \A y \in Proc : y # p => state'[y] = state[y]
  BY <1>1
<1>4. state'[p] = "READY"
  BY <1>1
<1>5. Alive' = IF Listed' = Listed THEN Alive ELSE Alive \cup {p}
  BY <1>1, <1>3, <1>4 DEF Alive
<1> QED BY <1>2, <1>5 DEF PidIsUsed, PidsLeft, AllocatePid

LEMMA EnlistedIsSeen ==
    ASSUME IInv, NEW p \in Proc, NEW i, i.pid = nextPid, Enlist(p, i)
    PROVE  PidIsUsed
<1>1. state[p] = "FREE" /\ runq' = SchedulerAdd(runq, p)
  BY DEF Enlist
<1>2. p \notin ToSet(runq)
  BY <1>1, RunListFacts
<1>3. Listed' = Listed \cup {p}
  BY <1>1, <1>2, RunListFacts, AddLemma DEF Listed
<1> QED BY <1>3, FilledIsSeen DEF Enlist

LEMMA CreatedIsSeen ==
    ASSUME IInv, NEW p \in Proc, NEW m, ProcessCreate(p, m)
    PROVE  PidIsUsed
<1>1. NewInfo(m).pid = nextPid
  BY DEF NewInfo
<1> QED BY <1>1, EnlistedIsSeen DEF ProcessCreate

LEMMA FailureIsSeen ==
    ASSUME IInv, ElfToProcFails
    PROVE  NothingSeen \/ PidIsUsed
<1>1. CASE ProcessCreateFails
  <2>1. runq' = runq /\ current' = current /\ state' = state /\ info' = info
    BY <1>1 DEF ProcessCreateFails, schedVars
  <2>2. Alive' = Alive /\ Kept
    BY <2>1 DEF Alive, Listed, Kept
  <2> QED BY <1>1, <2>1, <2>2 DEF ProcessCreateFails, PidsLeft, AllocatePid, NothingSeen, PidIsUsed
<1>2. ASSUME NEW p \in Proc, AddressSpaceFails(p)
      PROVE  PidIsUsed
  <2>1. state[p] = "FREE" /\ runq' = SchedulerRemove(SchedulerAdd(runq, p), p)
    BY <1>2 DEF AddressSpaceFails
  <2>2. p \notin ToSet(runq)
    BY <2>1, RunListFacts
  <2>3. PICK q \in Seq(Proc) : q = SchedulerAdd(runq, p) /\ Injective(q) /\ ToSet(q) = Listed \cup {p}
    BY <2>2, AddLemma, RunListFacts
  <2>4. ToSet(SchedulerRemove(q, p)) = ToSet(q) \ {p}
    BY <2>3, RemoveLemma
  <2>5. Listed' = Listed
    BY <2>1, <2>2, <2>3, <2>4, RunListFacts DEF Listed
  <2>6. NewInfo("USER").pid = nextPid
    BY DEF NewInfo
  <2> QED BY <1>2, <2>1, <2>5, <2>6, FilledIsSeen DEF AddressSpaceFails
<1> QED BY <1>1, <1>2 DEF ElfToProcFails

(***************************************************************************)
(* Every step, seen by those that have not ended.                          *)
(***************************************************************************)
LEMMA StepIsSeen ==
    ASSUME IInv, [Next]_vars
    PROVE  NothingSeen \/ CoreGoesOn \/ OtherEnds \/ PidIsUsed
<1>1. CASE TimerHandler
  <2>1. runq' = runq /\ info' = info /\ nextPid' = nextPid
    BY <1>1 DEF TimerHandler, tableVars
  <2>2. CASE state' = state /\ current' = current
    BY <2>1, <2>2 DEF NothingSeen, Alive, Listed, Kept
  <2>3. CASE ~(state' = state /\ current' = current)
    <3>1. PICK next : next = SchedulerNext(runq, current, state)
      OBVIOUS
    <3>2. /\ next # None /\ next # current /\ current' = next
          /\ state' = [state EXCEPT ![current] = "READY", ![next] = "RUNNING"]
      BY <1>1, <2>3, <3>1, RunListFacts DEF TimerHandler, Schedule
    <3>3. next \in Listed /\ next \in Proc /\ state[next] = "READY"
      BY <3>1, <3>2, NextLemma, RunListFacts
    <3>4. \A p \in Proc : state'[p] \in Terminated <=> state[p] \in Terminated
      BY <3>2, <3>3, RunListFacts
    <3>5. Alive' = Alive
      BY <2>1, <3>4, RunListFacts DEF Alive, Listed
    <3>6. next \in Alive \ {current}
      BY <3>2, <3>3 DEF Alive
    <3> QED BY <2>1, <3>2, <3>5, <3>6 DEF CoreGoesOn
  <2> QED BY <2>2, <2>3
<1>2. CASE StartLoader
  BY <1>2, CreatedIsSeen, FailureIsSeen DEF StartLoader, ElfToProcFails
<1>3. CASE StartLauncher
  BY <1>3, CreatedIsSeen, FailureIsSeen DEF StartLauncher
<1>4. CASE SysExec
  BY <1>4, CreatedIsSeen, FailureIsSeen DEF SysExec
<1>5. CASE SysThreadCreate
  <2>1. ASSUME NEW p \in Proc, Enlist(p, ThreadInfo)
        PROVE  PidIsUsed
    <3>1. ThreadInfo.pid = nextPid
      BY DEF ThreadInfo
    <3> QED BY <2>1, <3>1, EnlistedIsSeen
  <2>2. ASSUME PidsLeft /\ AllocatePid /\ UNCHANGED <<schedVars, info>>
        PROVE  PidIsUsed
    BY <2>2 DEF PidIsUsed, PidsLeft, AllocatePid, schedVars, Alive, Listed, Kept
  <2> QED BY <1>5, <2>1, <2>2 DEF SysThreadCreate
<1>6. CASE \/ LoaderDone \/ SysReadBegin \/ SysReadEnd
           \/ LogLosesInterrupts \/ UNCHANGED vars
  <2>1. UNCHANGED <<runq, current, state, info, nextPid>>
    BY <1>6 DEF LoaderDone, SysReadBegin, SysReadEnd, LogLosesInterrupts, vars,
                schedVars, tableVars
  <2> QED BY <2>1 DEF NothingSeen, Alive, Listed, Kept
<1>7. CASE LoaderExit
  BY <1>7, ExitIsSeen DEF LoaderExit, IInv, LoaderKnown, tableVars
<1>8. CASE SysExit \/ UserFault
  BY <1>8, ExitIsSeen, UserIsNotInit DEF SysExit, UserFault, tableVars
<1>9. CASE SysThreadExit
  BY <1>9, ThreadExitIsSeen, UserIsNotInit DEF SysThreadExit, tableVars
<1>10. ASSUME NEW x \in Proc, SysKill(x)
       PROVE  NothingSeen \/ CoreGoesOn \/ OtherEnds
  <2>1. CASE x = current
    BY <1>10, <2>1, ExitIsSeen, UserIsNotInit DEF SysKill, tableVars
  <2>2. CASE x # current
    <3>1. /\ x \in Listed /\ info[x].mode # "KERNEL"
          /\ state' = [state EXCEPT ![x] = "ZOMBIE"] /\ runq' = SchedulerRemove(runq, x)
          /\ current' = current /\ nextPid' = nextPid /\ info' = info
      BY <1>10, <2>2 DEF SysKill, MayKill, InUser, tableVars
    <3>2. Listed' = Listed \ {x}
      BY <3>1, RemoveLemma, RunListFacts DEF Listed
    <3> QED BY <2>2, <3>1, <3>2, EndedIsSeen
  <2> QED BY <2>1, <2>2
<1>11. ASSUME NEW x \in Proc, SysThreadKill(x)
       PROVE  NothingSeen \/ CoreGoesOn \/ OtherEnds
  <2>1. CASE x = current
    BY <1>11, <2>1, ThreadExitIsSeen, UserIsNotInit DEF SysThreadKill, tableVars
  <2>2. CASE x # current
    <3>1. /\ x \in Listed /\ info[x].isThread
          /\ state' = [state EXCEPT ![x] = "CRASHED"] /\ runq' = runq
          /\ current' = current /\ nextPid' = nextPid /\ info' = info
      BY <1>11, <2>2 DEF SysThreadKill, OwnedByCurrent, tableVars
    <3>2. info[x].mode # "KERNEL"
      BY <1>11, <3>1, RunListFacts DEF IInv, ThreadsAreUser
    <3>3. Listed' = Listed
      BY <3>1 DEF Listed
    <3> QED BY <2>2, <3>1, <3>2, <3>3, EndedIsSeen
  <2> QED BY <2>1, <2>2
<1>12. ASSUME NEW x \in Proc, SysThreadDestroy(x)
       PROVE  NothingSeen
  <2>1. /\ x \in Listed /\ state[x] \in Terminated /\ runq' = SchedulerRemove(runq, x)
        /\ state' = [state EXCEPT ![x] = "FREE"]
        /\ current' = current /\ nextPid' = nextPid /\ info' = info
    BY <1>12 DEF SysThreadDestroy, MayDestroy, OwnedByCurrent, tableVars
  <2>2. Listed' = Listed \ {x}
    BY <2>1, RemoveLemma, RunListFacts DEF Listed
  <2>3. Alive' = Alive
    BY <2>1, <2>2, RunListFacts DEF Alive
  <2> QED BY <2>1, <2>3 DEF NothingSeen, Kept
<1> QED BY <1>1, <1>2, <1>3, <1>4, <1>5, <1>6, <1>7, <1>8, <1>9, <1>10,
           <1>11, <1>12 DEF Next

(***************************************************************************)
(* A step of a user process leaves every kernel process on the run list    *)
(* and alive: what ends is the caller itself or not a kernel process       *)
(* (sys_kill refuses those, and a thread is never one).                    *)
(***************************************************************************)
THEOREM KernelKept == Spec => KernelSurvivesUser
<1>1. ASSUME IInv, IInv', [Next]_vars
      PROVE  InUser => \A p \in Listed : info[p].mode = "KERNEL" =>
               p \in ToSet(runq') /\ state'[p] \in {"READY", "RUNNING"}
  <2>1. SUFFICES ASSUME InUser, NEW p \in Listed, info[p].mode = "KERNEL"
                 PROVE  p \in ToSet(runq') /\ state'[p] \in {"READY", "RUNNING"}
    OBVIOUS
  <2>2. p # current /\ p \in Proc
    BY <2>1, <1>1, RunListFacts DEF InUser
  <2>3. p \in Alive
    BY <1>1, <2>1, <2>2 DEF Alive, IInv, RunListSound, ThreadsAreUser
  <2>4. p \in Alive'
    BY <1>1, <2>1, <2>2, <2>3, StepIsSeen DEF NothingSeen, CoreGoesOn, OtherEnds, PidIsUsed
  <2>5. p \in ToSet(runq') /\ state'[p] \notin Terminated
    BY <2>4 DEF Alive, Listed
  <2>6. state'[p] \in ProcState /\ state'[p] # "FREE"
    BY <1>1, <2>2, <2>5 DEF IInv, TypeOK, RunListSound, Listed
  <2> QED BY <2>5, <2>6
<1>2. IInv /\ IInv' /\ [Next]_vars =>
        [InUser => \A p \in Listed : info[p].mode = "KERNEL" =>
           p \in ToSet(runq') /\ state'[p] \in {"READY", "RUNNING"}]_vars
  BY <1>1
<1> QED BY <1>2, Inductive, PTL DEF Spec, KernelSurvivesUser

(***************************************************************************)
(* Each of the four kinds of step, on what pids are seen as.               *)
(***************************************************************************)
Seen == [n \in 0..(MaxPid - 1) |-> PidSeen(n)]

LEMMA NothingIsStutter ==
    ASSUME IInv, IInv', NothingSeen
    PROVE  Seen' = Seen
<1>1. current \in Alive
  BY AliveOnes
<1>2. \A n \in 0..(MaxPid - 1) : PidSeen(n)' = PidSeen(n)
  BY <1>1 DEF NothingSeen, Kept, PidSeen
<1> QED BY <1>2 DEF Seen

LEMMA GoesOnIsSwitch ==
    ASSUME IInv, IInv', CoreGoesOn
    PROVE  \E a, b \in 0..(MaxPid - 1), s \in {"ready", "dead"} :
              /\ Seen[a] = "running" /\ Seen[b] = "ready"
              /\ Seen' = [Seen EXCEPT ![a] = s, ![b] = "running"]
<1>1. PICK b : b = current'
  OBVIOUS
<1>2. PICK s \in {"ready", "dead"} : s = IF Alive' = Alive THEN "ready" ELSE "dead"
  OBVIOUS
<1>3. /\ current \in Alive /\ b \in Alive /\ b # current
      /\ nextPid \in 1..MaxPid /\ nextPid' = nextPid /\ info' = info
      /\ \A p \in Alive : info[p].pid \in 0..(nextPid - 1)
      /\ \A p, q \in Alive : info[p].pid = info[q].pid => p = q
  BY <1>1, AliveOnes DEF CoreGoesOn
<1>4. PICK m \in 0..(MaxPid - 1) : m = info[current].pid
  BY <1>3, PidAssumption
<1>5. PICK k \in 0..(MaxPid - 1) : k = info[b].pid
  BY <1>3, PidAssumption
<1>6. m # k /\ m < nextPid /\ k < nextPid
  BY <1>3, <1>4, <1>5
<1>7. PidSeen(m) = "running" /\ PidSeen(k) = "ready"
  BY <1>3, <1>4, <1>5, <1>6 DEF PidSeen
<1>8. ASSUME NEW n \in 0..(MaxPid - 1)
      PROVE  PidSeen(n)' = IF n = k THEN "running" ELSE IF n = m THEN s ELSE PidSeen(n)
  <2>1. (\E p \in Alive' : info[p].pid = n) <=>
          IF n = m THEN s = "ready" ELSE \E p \in Alive : info[p].pid = n
    BY <1>2, <1>3, <1>4 DEF CoreGoesOn
  <2>2. PidSeen(n)' = IF n >= nextPid THEN "unborn" ELSE IF k = n THEN "running"
                      ELSE IF \E p \in Alive' : info[p].pid = n THEN "ready" ELSE "dead"
    BY <1>1, <1>3, <1>5 DEF PidSeen
  <2>3. PidSeen(n) = IF n >= nextPid THEN "unborn" ELSE IF m = n THEN "running"
                     ELSE IF \E p \in Alive : info[p].pid = n THEN "ready" ELSE "dead"
    BY <1>4 DEF PidSeen
  <2>4. ~(m >= nextPid) /\ ~(k >= nextPid)
    BY <1>3, <1>6
  <2>5. CASE n = k
    BY <2>2, <2>4, <2>5
  <2>6. CASE n = m
    BY <1>6, <2>1, <2>2, <2>4, <2>6
  <2>7. CASE n # k /\ n # m
    BY <2>1, <2>2, <2>3, <2>7
  <2> QED BY <1>6, <2>5, <2>6, <2>7
<1>9. Seen' = [Seen EXCEPT ![m] = s, ![k] = "running"]
  BY <1>6, <1>8 DEF Seen
<1> QED BY <1>7, <1>9 DEF Seen

LEMMA EndIsKill ==
    ASSUME IInv, IInv', OtherEnds
    PROVE  \E n \in 0..(MaxPid - 1) :
              Seen[n] = "ready" /\ Seen' = [Seen EXCEPT ![n] = "dead"]
<1>1. PICK p \in Alive \ {current} :
         Alive' = Alive \ {p} /\ current' = current /\ nextPid' = nextPid /\ info' = info
  BY DEF OtherEnds
<1>2. /\ current \in Alive /\ nextPid \in 1..MaxPid
      /\ \A y \in Alive : info[y].pid \in 0..(nextPid - 1)
      /\ \A y, z \in Alive : info[y].pid = info[z].pid => y = z
  BY AliveOnes
<1>3. PICK k \in 0..(MaxPid - 1) : k = info[p].pid
  BY <1>1, <1>2, PidAssumption
<1>4. k < nextPid /\ info[current].pid # k
  BY <1>1, <1>2, <1>3
<1>5. PidSeen(k) = "ready"
  <2>1. \E y \in Alive : info[y].pid = k
    BY <1>1, <1>3
  <2>2. ~(k >= nextPid)
    BY <1>2, <1>4
  <2> QED BY <1>4, <2>1, <2>2 DEF PidSeen
<1>6. ASSUME NEW n \in 0..(MaxPid - 1)
      PROVE  PidSeen(n)' = IF n = k THEN "dead" ELSE PidSeen(n)
  <2>1. (\E y \in Alive' : info[y].pid = n) <=> n # k /\ \E y \in Alive : info[y].pid = n
    BY <1>1, <1>2, <1>3
  <2>2. PidSeen(n)' = IF n >= nextPid THEN "unborn" ELSE IF info[current].pid = n THEN "running"
                      ELSE IF \E y \in Alive' : info[y].pid = n THEN "ready" ELSE "dead"
    BY <1>1 DEF PidSeen
  <2>3. ~(k >= nextPid)
    BY <1>2, <1>4
  <2>4. CASE n = k
    BY <1>4, <2>1, <2>2, <2>3, <2>4
  <2>5. CASE n # k
    BY <2>1, <2>2, <2>5 DEF PidSeen
  <2> QED BY <2>4, <2>5
<1>7. Seen' = [Seen EXCEPT ![k] = "dead"]
  BY <1>6 DEF Seen
<1> QED BY <1>5, <1>7 DEF Seen

LEMMA UseIsSpawn ==
    ASSUME IInv, IInv', PidIsUsed
    PROVE  \E n \in 0..(MaxPid - 1), s \in {"ready", "dead"} :
              /\ Seen[n] = "unborn" /\ \A m \in 0..(n - 1) : Seen[m] # "unborn"
              /\ Seen' = [Seen EXCEPT ![n] = s]
<1>1. PICK s \in {"ready", "dead"} : s = IF Alive' = Alive THEN "dead" ELSE "ready"
  OBVIOUS
<1>2. /\ current \in Alive /\ nextPid \in 1..MaxPid
      /\ \A y \in Alive : info[y].pid \in 0..(nextPid - 1)
  BY AliveOnes
<1>3. PICK k \in 0..(MaxPid - 1) : k = nextPid
  BY <1>2, PidAssumption DEF PidIsUsed
<1>4. PidSeen(k) = "unborn" /\ \A m \in 0..(k - 1) : PidSeen(m) # "unborn"
  BY <1>3 DEF PidSeen
<1>5. ASSUME NEW n \in 0..(MaxPid - 1)
      PROVE  PidSeen(n)' = IF n = k THEN s ELSE PidSeen(n)
  <2>1. nextPid' = nextPid + 1 /\ current' = current /\ info'[current] = info[current]
        /\ info[current].pid # k
    BY <1>2, <1>3 DEF PidIsUsed, Kept
  <2>2. (\E y \in Alive' : info'[y].pid = n) <=>
          IF n = k THEN s = "ready" ELSE \E y \in Alive : info[y].pid = n
    BY <1>1, <1>2, <1>3 DEF PidIsUsed, Kept
  <2>3. PidSeen(n)' = IF n >= k + 1 THEN "unborn" ELSE IF info[current].pid = n THEN "running"
                      ELSE IF \E p \in Alive' : info'[p].pid = n THEN "ready" ELSE "dead"
    BY <1>3, <2>1 DEF PidSeen
  <2>4. PidSeen(n) = IF n >= k THEN "unborn" ELSE IF info[current].pid = n THEN "running"
                     ELSE IF \E p \in Alive : info[p].pid = n THEN "ready" ELSE "dead"
    BY <1>3 DEF PidSeen
  <2> QED BY <2>1, <2>2, <2>3, <2>4
<1>6. Seen' = [Seen EXCEPT ![k] = s]
  BY <1>5 DEF Seen
<1>7. Seen[k] = "unborn" /\ \A m \in 0..(k - 1) : Seen[m] # "unborn"
  <2>1. \A m \in 0..(k - 1) : m \in 0..(MaxPid - 1)
    BY PidAssumption
  <2> QED BY <1>4, <2>1 DEF Seen
<1> QED BY <1>6, <1>7

Published == [n \in 0..(MaxPid - 1) |-> PidStatus(n)]

LEMMA PublishedIsSeen == IInv => Published = Seen
BY SeenIsStatus DEF Published, Seen

LEMMA PublishedIsSeenNext == IInv' => Published' = Seen'
<1>1. (IInv => Published = Seen)'
  BY PublishedIsSeen, PTL
<1> QED BY <1>1

(***************************************************************************)
(* The process code implements Lifecycle, whatever the number of           *)
(* processes, the time slice and the pid limit: pids are given out in      *)
(* increasing order and once, each is ready, running and then dead for     *)
(* good, and the core passes directly from one running pid to the next.    *)
(***************************************************************************)
THEOREM LifecycleImplemented == Spec => ImplementsLifecycle
<1>1. Init => L!Init
  <2> SUFFICES ASSUME Init PROVE L!Init
    OBVIOUS
  <2>1. IInv
    BY InitIInv
  <2>2. nextPid = 1 /\ current = InitProc /\ info[current].pid = 0
    BY <2>1, InitAssumption DEF Init
  <2>3. \A n \in 0..(MaxPid - 1) : PidSeen(n) = IF n = 0 THEN "running" ELSE "unborn"
    BY <2>2 DEF PidSeen
  <2>4. Published = [n \in 0..(MaxPid - 1) |-> IF n = 0 THEN "running" ELSE "unborn"]
    BY <2>1, <2>3, PublishedIsSeen DEF Seen
  <2> QED BY <2>4 DEF L!Init, L!Pid, Published
<1>2. IInv /\ IInv' /\ [Next]_vars => [L!Next]_Published
  <2> SUFFICES ASSUME IInv, IInv', [Next]_vars PROVE L!Next \/ Published' = Published
    OBVIOUS
  <2>1. Published = Seen /\ Published' = Seen'
    BY PublishedIsSeen, PublishedIsSeenNext
  <2>2. CASE NothingSeen
    BY <2>1, <2>2, NothingIsStutter
  <2>3. CASE CoreGoesOn
    <3>1. PICK a, b \in 0..(MaxPid - 1), s \in {"ready", "dead"} :
              /\ Published[a] = "running" /\ Published[b] = "ready"
              /\ Published' = [Published EXCEPT ![a] = s, ![b] = "running"]
      BY <2>1, <2>3, GoesOnIsSwitch
    <3>2. L!Switch(a, b, s)
      BY <3>1 DEF L!Switch, Published
    <3> QED BY <3>2 DEF L!Next, L!Pid
  <2>4. CASE OtherEnds
    <3>1. PICK n \in 0..(MaxPid - 1) :
              Published[n] = "ready" /\ Published' = [Published EXCEPT ![n] = "dead"]
      BY <2>1, <2>4, EndIsKill
    <3>2. L!Kill(n)
      BY <3>1 DEF L!Kill, Published
    <3> QED BY <3>2 DEF L!Next, L!Pid
  <2>5. CASE PidIsUsed
    <3>1. PICK n \in 0..(MaxPid - 1), s \in {"ready", "dead"} :
              /\ Published[n] = "unborn" /\ \A m \in 0..(n - 1) : Published[m] # "unborn"
              /\ Published' = [Published EXCEPT ![n] = s]
      BY <2>1, <2>5, UseIsSpawn
    <3>2. L!Spawn(n, s)
      BY <3>1 DEF L!Spawn, Published
    <3> QED BY <3>2 DEF L!Next, L!Pid
  <2> QED BY <2>2, <2>3, <2>4, <2>5, StepIsSeen
<1> QED BY <1>1, <1>2, Inductive, PTL DEF Spec, ImplementsLifecycle, L!Spec, Published
=============================================================================
