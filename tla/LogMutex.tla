------------------------------ MODULE LogMutex ------------------------------
(***************************************************************************)
(* The mutex of src/src/proc/mutex.c and its one user, log() (log.c): a    *)
(* flag that is spun on with interrupts masked, and one irq_state field,   *)
(* shared by all holders, that remembers whether to unmask them again.     *)
(*                                                                         *)
(* Kernel processes (init, the icon loader) call log() with interrupts     *)
(* enabled; user processes reach it inside system calls, with interrupts   *)
(* masked.  An action is one access to the mutex or to the CPSR, and a     *)
(* timer tick may fall between any two while interrupts are enabled.       *)
(***************************************************************************)
EXTENDS FiniteSets

CONSTANTS
    Kernel,     \* kernel processes
    User        \* user processes

ASSUME ThreadAssumption == Kernel \cap User = {} /\ Kernel # {}

VARIABLES
    current,    \* the process that has the core
    pc,         \* where each process is
    masked,     \* the I bit of its CPSR
    wasMasked,  \* mutex_lock's local `state`
    locked,     \* mutex->locked
    irqState    \* mutex->irq_state

lockVars == <<current, pc, masked, wasMasked, locked, irqState>>

Thread == Kernel \cup User

LockInit ==
    /\ current \in Thread
    /\ pc = [t \in Thread |-> IF t \in Kernel THEN "kernel" ELSE "user"]
    /\ masked = [t \in Thread |-> FALSE]
    /\ wasMasked = [t \in Thread |-> FALSE]
    /\ locked = FALSE
    /\ irqState = FALSE

Goes(t, from, to) ==
    /\ current = t
    /\ pc[t] = from
    /\ pc' = [pc EXCEPT ![t] = to]
    /\ UNCHANGED current

----------------------------------------------------------------------------
(* System calls: swi_handler masks interrupts, the return restores them *)

SysEnter(t) ==
    /\ t \in User
    /\ Goes(t, "user", "kernel")
    /\ masked' = [masked EXCEPT ![t] = TRUE]
    /\ UNCHANGED <<wasMasked, locked, irqState>>

SysReturn(t) ==
    /\ t \in User
    /\ Goes(t, "kernel", "user")
    /\ masked' = [masked EXCEPT ![t] = FALSE]
    /\ UNCHANGED <<wasMasked, locked, irqState>>

----------------------------------------------------------------------------
(* mutex_lock *)

ReadCpsr(t) ==
    /\ Goes(t, "kernel", "save")
    /\ wasMasked' = [wasMasked EXCEPT ![t] = masked[t]]
    /\ UNCHANGED <<masked, locked, irqState>>

SaveIrqState(t) ==
    /\ Goes(t, "save", "mask")
    /\ irqState' = ~wasMasked[t]
    /\ UNCHANGED <<masked, wasMasked, locked>>

DisableIrqForgotten(t) ==
    /\ Goes(t, "mask", "spin")
    /\ UNCHANGED <<masked, wasMasked, locked, irqState>>

DisableIrq(t) ==
    /\ Goes(t, "mask", "spin")
    /\ masked' = [masked EXCEPT ![t] = TRUE]
    /\ UNCHANGED <<wasMasked, locked, irqState>>

Spin(t) ==
    /\ ~locked
    /\ Goes(t, "spin", "take")
    /\ UNCHANGED <<masked, wasMasked, locked, irqState>>

Take(t) ==
    /\ Goes(t, "take", "held")
    /\ locked' = TRUE
    /\ UNCHANGED <<masked, wasMasked, irqState>>

----------------------------------------------------------------------------
(* mutex_unlock, once the line is written *)

Release(t) ==
    /\ Goes(t, "held", "restore")
    /\ locked' = FALSE
    /\ UNCHANGED <<masked, wasMasked, irqState>>

EnableIrq(t) ==
    /\ Goes(t, "restore", "kernel")
    /\ masked' = [masked EXCEPT ![t] = @ /\ ~irqState]
    /\ UNCHANGED <<wasMasked, locked, irqState>>

----------------------------------------------------------------------------
(***************************************************************************)
(* A timer interrupt, which may hand the core to any other process.        *)
(***************************************************************************)
Tick ==
    /\ ~masked[current]
    /\ current' \in Thread \ {current}
    /\ UNCHANGED <<pc, masked, wasMasked, locked, irqState>>

Step(t) ==
    \/ SysEnter(t)
    \/ SysReturn(t)
    \/ ReadCpsr(t)
    \/ SaveIrqState(t)
    \/ DisableIrq(t)
    \/ Spin(t)
    \/ Take(t)
    \/ Release(t)
    \/ EnableIrq(t)

LockNext == Tick \/ \E t \in Thread : Step(t)

LockSpec == LockInit /\ [][LockNext]_lockVars

(***************************************************************************)
(* The process that has the core executes, ticks that can be taken are,    *)
(* and a system call logs finitely often before it returns.                *)
(***************************************************************************)
FairLockSpec ==
    /\ LockSpec
    /\ SF_lockVars(Tick)
    /\ \A t \in Thread : WF_lockVars(Step(t))
    /\ \A t \in User : SF_lockVars(SysReturn(t))
----------------------------------------------------------------------------
(* Properties *)

Place == {"user", "kernel", "save", "mask", "spin", "take", "held", "restore"}

LockTypeOK ==
    /\ current \in Thread
    /\ pc \in [Thread -> Place]
    /\ masked \in [Thread -> BOOLEAN]
    /\ wasMasked \in [Thread -> BOOLEAN]
    /\ locked \in BOOLEAN
    /\ irqState \in BOOLEAN

(***************************************************************************)
(* log() lines never mix: the flag is held by at most one process, although *)
(* testing and setting it are two steps.                                   *)
(***************************************************************************)
MutualExclusion ==
    \A t, u \in Thread :
        t # u /\ pc[t] \in {"take", "held"} => pc[u] \notin {"take", "held"}

(***************************************************************************)
(* The spin loop runs with interrupts masked on the only core: if it ever  *)
(* found the flag set, the machine would hang.  It never does.             *)
(***************************************************************************)
NeverSpins == pc[current] = "spin" => ~locked

(***************************************************************************)
(* A system call is never preempted: whatever other processes leave in the *)
(* shared irq_state, unlocking inside a system call does not unmask        *)
(* interrupts.  All of the kernel's state relies on it.                    *)
(***************************************************************************)
SysCallsStayMasked == \A t \in User : pc[t] # "user" => masked[t]

\* One process at a time writes to the log, nobody waits for it with the core,
\* and interrupts stay masked inside system calls (mutex.c).
LockIsSound == MutualExclusion /\ NeverSpins /\ SysCallsStayMasked

(***************************************************************************)
(* "delta t before each scheduler call" (proc.h:26): the timer keeps       *)
(* interrupting whatever runs.                                             *)
(***************************************************************************)
SchedulerKeepsBeingCalled == []<>~masked[current]

(***************************************************************************)
(* The inductive invariant: from DisableIrq to EnableIrq a process has     *)
(* interrupts masked and therefore the core; a system call read its own    *)
(* masked state and is about to store, or has stored, that.                *)
(***************************************************************************)
Critical == {"spin", "take", "held", "restore"}

MutexInv ==
    /\ LockTypeOK
    /\ SysCallsStayMasked
    /\ \A t \in Thread : pc[t] \in Critical => masked[t] /\ current = t
    /\ \A t \in User : pc[t] # "user" => current = t
    /\ \A t \in User : pc[t] = "save" => wasMasked[t]
    /\ \A t \in User : pc[t] \in {"mask"} \cup Critical => ~irqState
    /\ locked <=> pc[current] = "held"
=============================================================================
