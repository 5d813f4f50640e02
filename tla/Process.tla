------------------------------ MODULE Process ------------------------------
(***************************************************************************)
(* Process and thread life cycle of the kernel: creation, time slicing,    *)
(* exit, kill and reclamation (src/src/proc/proc.c, scheduler.c, the       *)
(* process system calls of syscalls.c, the user branch of exceptions.c and *)
(* the boot sequence of init_proc.c).                                      *)
(*                                                                         *)
(* There is one core.  A system call runs with interrupts masked from      *)
(* swi_handler.s:15 to its return, and so does an exception or a timer     *)
(* interrupt, so each is one action.  Between two of them the current      *)
(* process runs its own code, which does not touch this state.             *)
(***************************************************************************)
EXTENDS Scheduler

CONSTANTS
    InitProc,   \* the t_process of init
    TimeSlice,  \* TIME_SLICE_MS, in timer ticks
    MaxPid      \* (uint32_t)-1: no pid is handed out once current_pid is here

ASSUME InitAssumption == InitProc \in Proc
ASSUME SliceAssumption == TimeSlice \in Nat \ {0}
ASSUME PidAssumption == MaxPid \in Nat \ {0}

VARIABLES
    runq,       \* scheduled_processes .. scheduled_processes_tail
    current,    \* current_process
    state,      \* t_process.state, or "FREE"
    slice,      \* t_process.time_slice
    info,       \* the fields of t_process that its creation sets for good
    nextPid,    \* current_pid
    initPc,     \* where init_proc() is
    loader,     \* init_proc()'s icon_loader pointer
    masked      \* why no interrupt is taken: a process spins in sys_read(0),
                \* or init lost its interrupts in log(); "no" if they are

schedVars == <<runq, current, state, slice>>
tableVars == <<info, nextPid>>
initVars == <<initPc, loader>>
vars == <<runq, current, state, slice, info, nextPid, initPc, loader, masked>>

Mode == {"KERNEL", "USER"}
Info == [pid : 0..MaxPid, mode : Mode, isThread : BOOLEAN, ownerPid : 0..MaxPid]
NewInfo(m) ==
    [pid |-> nextPid, mode |-> m, isThread |-> FALSE, ownerPid |-> 0]

(***************************************************************************)
(* The state scheduler_start hands over: kernel_main has created init,     *)
(* alone on the list, with pid 0.                                          *)
(***************************************************************************)
Init ==
    /\ runq = <<InitProc>>
    /\ current = InitProc
    /\ state = [p \in Proc |-> IF p = InitProc THEN "RUNNING" ELSE "FREE"]
    /\ slice = [p \in Proc |-> TimeSlice]
    /\ info = [p \in Proc |-> [pid |-> 0, mode |-> "KERNEL",
                               isThread |-> FALSE, ownerPid |-> 0]]
    /\ nextPid = 1
    /\ initPc = "start"
    /\ loader = None
    /\ masked = "no"

Listed == ToSet(runq)

(***************************************************************************)
(* The current process executes in user mode and may enter the kernel.     *)
(***************************************************************************)
InUser ==
    /\ current # None
    /\ info[current].mode = "USER"
    /\ masked = "no"

----------------------------------------------------------------------------
(* Switching *)

(***************************************************************************)
(* The tail of process_exit_current and thread_exit_current: hand the core *)
(* to scheduler_next(), or park with no current process.  q, cur and st    *)
(* are the list, current_process and the states at that point.             *)
(***************************************************************************)
ResumeNext(q, cur, st) ==
    LET next == SchedulerNext(q, cur, st)
    IN  /\ current' = next
        /\ IF next = None
           THEN UNCHANGED slice /\ state' = st
           ELSE /\ state' = [st EXCEPT ![next] = "RUNNING"]
                /\ slice' = [slice EXCEPT ![next] = TimeSlice]

(***************************************************************************)
(* schedule(): preempt the current process, if another one is ready.       *)
(***************************************************************************)
ScheduleKeepsRunning(sl) ==
    LET next == SchedulerNext(runq, current, state)
    IN  /\ current' = IF next = None THEN current ELSE next
        /\ state' = IF next = None THEN state
                    ELSE [state EXCEPT ![next] = "RUNNING"]
        /\ slice' = IF next = None THEN sl
                    ELSE [sl EXCEPT ![next] = TimeSlice]

Schedule(sl) ==
    LET next == SchedulerNext(runq, current, state)
        old == IF state[current] = "RUNNING" THEN "READY" ELSE state[current]
    IN  IF next \in {None, current}
        THEN slice' = sl /\ UNCHANGED <<current, state>>
        ELSE /\ state' = [state EXCEPT ![current] = old, ![next] = "RUNNING"]
             /\ slice' = [sl EXCEPT ![next] = TimeSlice]
             /\ current' = next

(***************************************************************************)
(* A timer interrupt: irq_handler (boot.s) saves the frame into the        *)
(* current process, which must exist, then timer_handler counts the slice  *)
(* down and calls schedule() when it is used up.                           *)
(***************************************************************************)
TimerHandler ==
    /\ current # None
    /\ masked = "no"
    /\ IF slice[current] > 1
       THEN /\ slice' = [slice EXCEPT ![current] = @ - 1]
            /\ UNCHANGED <<current, state>>
       ELSE Schedule([slice EXCEPT ![current] = TimeSlice])
    /\ UNCHANGED <<runq, tableVars, initVars, masked>>

----------------------------------------------------------------------------
(* Creation *)

PidsLeft == nextPid # MaxPid

(***************************************************************************)
(* allocate_pid                                                            *)
(***************************************************************************)

AllocatePid == nextPid' = nextPid + 1

(***************************************************************************)
(* Take an unallocated t_process, fill it and put it on the list.          *)
(***************************************************************************)
Enlist(p, i) ==
    /\ PidsLeft
    /\ state[p] = "FREE"
    /\ AllocatePid
    /\ info' = [info EXCEPT ![p] = i]
    /\ state' = [state EXCEPT ![p] = "READY"]
    /\ slice' = [slice EXCEPT ![p] = TimeSlice]
    /\ runq' = SchedulerAdd(runq, p)
    /\ UNCHANGED current

ProcessCreate(p, m) == Enlist(p, NewInfo(m))

(***************************************************************************)
(* process_create returned 0.  A stack that cannot be allocated costs a    *)
(* pid; the other failures (no heap for the t_process, no pid left) leave  *)
(* no trace.                                                               *)
(***************************************************************************)
ProcessCreateFails ==
    /\ \/ PidsLeft /\ AllocatePid
       \/ UNCHANGED nextPid
    /\ UNCHANGED <<schedVars, info>>

(***************************************************************************)
(* elf_to_proc after process_create when the address space cannot be       *)
(* built: the process is taken off the list again, its t_process and its   *)
(* stacks stay allocated for good.                                         *)
(***************************************************************************)
AddressSpaceFails(p) ==
    /\ PidsLeft
    /\ state[p] = "FREE"
    /\ AllocatePid
    /\ info' = [info EXCEPT ![p] = NewInfo("USER")]
    /\ state' = [state EXCEPT ![p] = "READY"]
    /\ slice' = [slice EXCEPT ![p] = TimeSlice]
    /\ runq' = SchedulerRemove(SchedulerAdd(runq, p), p)
    /\ UNCHANGED current

ElfToProcFails ==
    \/ ProcessCreateFails
    \/ \E p \in Proc : AddressSpaceFails(p)

SysExec ==
    /\ InUser
    /\ \/ \E p \in Proc : ProcessCreate(p, "USER")
       \/ ElfToProcFails
    /\ UNCHANGED <<initVars, masked>>

(***************************************************************************)
(* The pid that owns a process's threads: a thread passes on its owner's.  *)
(***************************************************************************)

Group(p) == IF info[p].isThread THEN info[p].ownerPid ELSE info[p].pid

ThreadInfo ==
    [pid |-> nextPid, mode |-> "USER", isThread |-> TRUE,
     ownerPid |-> Group(current)]

(***************************************************************************)
(* sys_thread_create / thread_create_current.  A failure frees everything  *)
(* it allocated; one in the page mapping has already taken a pid.          *)
(***************************************************************************)
SysThreadCreate ==
    /\ InUser
    /\ \/ \E p \in Proc : Enlist(p, ThreadInfo)
       \/ PidsLeft /\ AllocatePid /\ UNCHANGED <<schedVars, info>>
    /\ UNCHANGED <<initVars, masked>>

----------------------------------------------------------------------------
(* Termination *)

(***************************************************************************)
(* process_exit_current records the top six status codes, -1 .. -6, as a   *)
(* crash; the codes are the uint32_t values as signed integers.            *)
(***************************************************************************)
ExitStatus == -7..1

ExitStateNonzeroCrashes(code) == IF code # 0 THEN "CRASHED" ELSE "ZOMBIE"

ExitState(code) == IF code \in -6..-1 THEN "CRASHED" ELSE "ZOMBIE"

(***************************************************************************)
(* process_exit_current: the exiting process leaves the list and is never  *)
(* freed; scheduler_remove clears current_process, so the search for the   *)
(* next one starts at the head.                                            *)
(***************************************************************************)

ProcessExitCurrent(code) ==
    LET q == SchedulerRemove(runq, current)
    IN  /\ runq' = q
        /\ ResumeNext(q, None, [state EXCEPT ![current] = ExitState(code)])

(***************************************************************************)
(* thread_exit_current: a thread stays listed until it is destroyed.       *)
(* `left` is its state when the handler got here.                          *)
(***************************************************************************)
ThreadExitCurrent(left) ==
    IF info[current].isThread
    THEN /\ ResumeNext(runq, current, [state EXCEPT ![current] = left])
         /\ UNCHANGED runq
    ELSE ProcessExitCurrent(-1)

(***************************************************************************)
(* sys_exit, and kernel_panic for a fault in user mode, which exits with   *)
(* minus the exception number.                                             *)
(***************************************************************************)
SysExit ==
    /\ InUser
    /\ \E code \in ExitStatus : ProcessExitCurrent(code)
    /\ UNCHANGED <<tableVars, initVars, masked>>

UserException == {0, 2, 3}    \* undefined instruction, prefetch and data abort

UserFault ==
    /\ InUser
    /\ \E id \in UserException : ProcessExitCurrent(-id)
    /\ UNCHANGED <<tableVars, initVars, masked>>

(***************************************************************************)
(* sys_kill: itself (an exit), or any other listed process or thread,      *)
(* except that user code may not kill a kernel process.                    *)
(***************************************************************************)
MayKillAny(p) == TRUE

MayKill(p) == info[p].mode = "KERNEL" => info[current].mode = "KERNEL"

SysKill(p) ==
    /\ InUser
    /\ p \in Listed
    /\ IF p = current
       THEN \E code \in ExitStatus : ProcessExitCurrent(code)
       ELSE /\ MayKill(p)
            /\ state' = [state EXCEPT ![p] = "ZOMBIE"]
            /\ runq' = SchedulerRemove(runq, p)
            /\ UNCHANGED <<current, slice>>
    /\ UNCHANGED <<tableVars, initVars, masked>>

(***************************************************************************)
(* thread_owned_by_current, for a listed thread                            *)
(***************************************************************************)
OwnedByCurrent(p) ==
    /\ p \in Listed
    /\ info[p].isThread
    /\ info[p].ownerPid = Group(current)

SysThreadExit ==
    /\ InUser
    /\ ThreadExitCurrent("ZOMBIE")
    /\ UNCHANGED <<tableVars, initVars, masked>>

SysThreadKill(p) ==
    /\ InUser
    /\ OwnedByCurrent(p)
    /\ state[p] \notin Terminated
    /\ IF p = current
       THEN ThreadExitCurrent("CRASHED")
       ELSE /\ state' = [state EXCEPT ![p] = "CRASHED"]
            /\ UNCHANGED <<runq, current, slice>>
    /\ UNCHANGED <<tableVars, initVars, masked>>

(***************************************************************************)
(* thread_destroy_current: unlink and free a terminated thread.            *)
(***************************************************************************)
MayDestroyAny(p) == OwnedByCurrent(p)

MayDestroy(p) == OwnedByCurrent(p) /\ state[p] \in Terminated

SysThreadDestroy(p) ==
    /\ InUser
    /\ MayDestroy(p)
    /\ runq' = SchedulerRemove(runq, p)
    /\ state' = [state EXCEPT ![p] = "FREE"]
    /\ UNCHANGED <<current, slice, tableVars, initVars, masked>>

----------------------------------------------------------------------------
(* Standard input: sys_read(0) polls with interrupts masked *)

SysReadBegin ==
    /\ InUser
    /\ masked' = "read"
    /\ UNCHANGED <<schedVars, tableVars, initVars>>

SysReadEnd ==
    /\ masked = "read"
    /\ masked' = "no"
    /\ UNCHANGED <<schedVars, tableVars, initVars>>

----------------------------------------------------------------------------
(* The two kernel processes *)

(***************************************************************************)
(* init_proc: start the icon loader, wait for it to be a zombie, load the  *)
(* launcher, then poll the input devices for ever.  A failure is a panic   *)
(* in init's context, an endless wait that the timer still preempts.       *)
(***************************************************************************)
StartLoader ==
    /\ current = InitProc
    /\ initPc = "start"
    /\ \/ \E p \in Proc : /\ ProcessCreate(p, "KERNEL")
                          /\ loader' = p
                          /\ initPc' = "wait"
       \/ ProcessCreateFails /\ initPc' = "panic" /\ UNCHANGED loader
    /\ UNCHANGED masked

LoaderDone ==
    /\ current = InitProc
    /\ initPc = "wait"
    /\ state[loader] = "ZOMBIE"
    /\ initPc' = "launch"
    /\ UNCHANGED <<schedVars, tableVars, loader, masked>>

StartLauncher ==
    /\ current = InitProc
    /\ initPc = "launch"
    /\ \/ \E p \in Proc : ProcessCreate(p, "USER") /\ initPc' = "poll"
       \/ ElfToProcFails /\ initPc' = "panic"
    /\ UNCHANGED <<loader, masked>>

(***************************************************************************)
(* log() in init's polling loop, where mutex_unlock may leave init's       *)
(* interrupts masked for good (module LogMutex has the details).           *)
(***************************************************************************)
LogLosesInterrupts ==
    /\ current = InitProc
    /\ initPc = "poll"
    /\ masked = "no"
    /\ masked' = "lost"
    /\ UNCHANGED <<schedVars, tableVars, initVars>>

(***************************************************************************)
(* app_and_icon_loader_thread ends in process_exit_current(success == 0).  *)
(***************************************************************************)
LoaderExit ==
    /\ current = loader
    /\ current # None
    /\ \E code \in {0, 1} : ProcessExitCurrent(code)
    /\ UNCHANGED <<tableVars, initVars, masked>>

InitStep == StartLoader \/ LoaderDone \/ StartLauncher

Next ==
    \/ TimerHandler
    \/ StartLoader
    \/ LoaderDone
    \/ StartLauncher
    \/ LoaderExit
    \/ SysExec
    \/ SysThreadCreate
    \/ SysExit
    \/ UserFault
    \/ \E p \in Proc : SysKill(p)
    \/ SysThreadExit
    \/ \E p \in Proc : SysThreadKill(p)
    \/ \E p \in Proc : SysThreadDestroy(p)
    \/ SysReadBegin
    \/ SysReadEnd
    \/ LogLosesInterrupts

Spec == Init /\ [][Next]_vars

(***************************************************************************)
(* timer_ack programs the next tick in every tick, and a tick that became  *)
(* pending while interrupts were masked is taken as soon as they are not:  *)
(* strong fairness.  The kernel processes never block, so given the core   *)
(* again and again they get on with their code.                            *)
(***************************************************************************)
Fairness ==
    /\ SF_vars(TimerHandler)
    /\ SF_vars(InitStep)
    /\ SF_vars(LoaderExit)

FairSpec == Spec /\ Fairness
----------------------------------------------------------------------------
(* Properties *)

TypeOK ==
    /\ runq \in Seq(Proc)
    /\ current \in Proc \cup {None}
    /\ state \in [Proc -> ProcState]
    /\ slice \in [Proc -> 1..TimeSlice]
    /\ info \in [Proc -> Info]
    /\ nextPid \in 1..MaxPid
    /\ initPc \in {"start", "wait", "launch", "poll", "panic"}
    /\ loader \in Proc \cup {None}
    /\ masked \in {"no", "read", "lost"}

(***************************************************************************)
(* There is always a current process, it is on the run list, and it is the *)
(* one and only PROC_RUNNING one.  irq_handler (boot.s:180-183) panics     *)
(* with "invalid process context" on an interrupt without a current        *)
(* process, so no sequence of exits, kills and thread exits may ever empty *)
(* the core: it rests on init never leaving the list.                      *)
(***************************************************************************)
AlwaysCurrent ==
    /\ current \in Listed
    /\ \A p \in Proc : state[p] = "RUNNING" <=> p = current

(***************************************************************************)
(* The run list is sound: no t_process is on it twice (the list would have *)
(* a cycle), none on it has been freed, and a terminated one that is still *)
(* on it is a thread waiting for thread_destroy_current.                   *)
(***************************************************************************)
RunListSound ==
    /\ \A i, j \in 1..Len(runq) : i # j => runq[i] # runq[j]
    /\ \A p \in Listed : /\ state[p] # "FREE"
                         /\ state[p] \in Terminated => info[p].isThread

(***************************************************************************)
(* A pid names one t_process: sys_kill, sys_pstate and find_thread stop at *)
(* the first match in the list.  It has to survive failed creations, which *)
(* may or may not consume a pid, and the reuse of freed threads' memory.   *)
(***************************************************************************)
PidsUnique ==
    \A p, q \in Proc :
        p # q /\ state[p] # "FREE" /\ state[q] # "FREE"
            => info[p].pid # info[q].pid

(***************************************************************************)
(* Thread groups are flat: the owner pid of every allocated thread is the  *)
(* pid of an allocated user process that is no thread itself, even for a   *)
(* thread started by a thread, and even after the owner has exited (its    *)
(* t_process is never freed).  thread_memory_owner and                     *)
(* thread_owned_by_current compare owner pids on that understanding.       *)
(***************************************************************************)
OwnersExist ==
    \A t \in Proc : state[t] # "FREE" /\ info[t].isThread =>
        \E o \in Proc : /\ state[o] # "FREE"
                        /\ info[o].pid = info[t].ownerPid
                        /\ info[o].mode = "USER"
                        /\ ~info[o].isThread

(***************************************************************************)
(* The process table is sound after any mixture of ticks, exits, faults,   *)
(* kills and thread calls: the core has a current process, the run list    *)
(* has no stale entry, pids and thread groups name who they should.        *)
(***************************************************************************)
TableIsSound == TypeOK /\ AlwaysCurrent /\ RunListSound /\ PidsUnique /\ OwnersExist

(***************************************************************************)
(* Nothing a step does brings a terminated process or thread back to life: *)
(* from then on it is terminated (sys_kill may turn PROC_CRASHED into      *)
(* PROC_ZOMBIE) until its memory is given back.                            *)
(***************************************************************************)
StaysDead ==
    [][\A p \in Proc : state[p] \in Terminated =>
          state'[p] \in Terminated \cup {"FREE"}]_vars

(***************************************************************************)
(* Memory is given back only for a terminated thread that is still listed, *)
(* by a running member of its own thread group, and it leaves the list in  *)
(* the same step: neither the running process's stacks nor those of a      *)
(* process the scheduler may still pick are ever freed.                    *)
(***************************************************************************)
FreedSafely ==
    [][\A p \in Proc : state[p] # "FREE" /\ state'[p] = "FREE" =>
          /\ state[p] \in Terminated
          /\ p \in Listed \ ToSet(runq')
          /\ info[p].isThread
          /\ info[p].ownerPid = Group(current)
          /\ p # current]_vars

(***************************************************************************)
(* User code cannot end a kernel process: while a user process has the     *)
(* core, kernel processes stay listed and unterminated (init_proc and the  *)
(* input dispatch it runs are the only way events reach any program).      *)
(***************************************************************************)
KernelSurvivesUser ==
    [][InUser => \A p \in Listed :
          info[p].mode = "KERNEL" =>
              p \in ToSet(runq') /\ state'[p] \in {"READY", "RUNNING"}]_vars

(***************************************************************************)
(* Every listed ready process gets the core (or is ended by another one),  *)
(* provided interrupts are not masked for good: that no process spins for  *)
(* ever in sys_read(0), and that init has not lost its interrupts.         *)
(***************************************************************************)
NoStarvation ==
    []<>(masked = "no") => \A p \in Proc :
        (p \in Listed /\ state[p] = "READY") ~> state[p] # "READY"

(***************************************************************************)
(* init always gets past the icon loader: it polls input devices in the    *)
(* end, or has reported why it cannot.                                     *)
(***************************************************************************)
BootCompletes == <>(initPc \in {"poll", "panic"})
(***************************************************************************)
(* The inductive invariant behind the safety properties.  The added parts: *)
(* init stays on the list, alive and a kernel process; the loader is not   *)
(* init; only issued pids are in use; threads run in user mode.            *)
(***************************************************************************)
InitSurvives ==
    /\ InitProc \in Listed
    /\ state[InitProc] \notin Terminated
    /\ info[InitProc].mode = "KERNEL"
    /\ ~info[InitProc].isThread

LoaderKnown == loader # InitProc

PidsIssued == \A p \in Proc : state[p] # "FREE" => info[p].pid < nextPid

ThreadsAreUser ==
    \A p \in Proc : state[p] # "FREE" /\ info[p].isThread =>
        info[p].mode = "USER"

IInv ==
    /\ TypeOK
    /\ AlwaysCurrent
    /\ RunListSound
    /\ PidsUnique
    /\ OwnersExist
    /\ InitSurvives
    /\ LoaderKnown
    /\ PidsIssued
    /\ ThreadsAreUser

----------------------------------------------------------------------------
(* Refinement of Lifecycle *)

(***************************************************************************)
(* What has become of a pid.  A pid that no listed process bears is dead:  *)
(* its process has exited or was killed, its thread was reclaimed, or its  *)
(* creation failed.                                                        *)
(***************************************************************************)
Bears(p, n) == p \in Listed /\ info[p].pid = n /\ state[p] \notin Terminated

PidStatus(n) ==
    IF n >= nextPid THEN "unborn"
    ELSE IF \E p \in Proc : Bears(p, n) /\ state[p] = "RUNNING" THEN "running"
    ELSE IF \E p \in Proc : Bears(p, n) THEN "ready"
    ELSE "dead"

L == INSTANCE Lifecycle
        WITH LastPid <- MaxPid - 1,
             status <- [n \in 0..(MaxPid - 1) |-> PidStatus(n)]

(***************************************************************************)
(* The process code implements Lifecycle: whatever it does to the run list *)
(* and to t_process objects, each step hands the core from one pid to the  *)
(* next, ends one pid that is not running, or starts the next pid.         *)
(***************************************************************************)
ImplementsLifecycle == L!Spec
=============================================================================
