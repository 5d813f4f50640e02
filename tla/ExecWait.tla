----------------------------- MODULE ExecWait -----------------------------
(***************************************************************************)
(* A program that waits for another one: the launcher runs an application  *)
(* with exec and polls pstate until it is over (folder_view_popup.hpp,     *)
(* main_window.hpp), or a program polls a thread with the SDK's            *)
(* thread_join (sys.h).  The kernel has no blocking wait: sys_pstate       *)
(* (syscalls.c:621-634) and sys_thread_join (686-696) only look, so        *)
(* whether a wait ends depends on what everything else does meanwhile.     *)
(***************************************************************************)
EXTENDS Process

VARIABLES
    launcher,   \* the t_process that init_proc loads
    wait        \* what the launcher's main thread polls for

waitVars == <<vars, launcher, wait>>

How == {"pstate", "join"}
Wait == [how : How, pid : 0..MaxPid]
NoWait == [how |-> "none", pid |-> 0]

WaitInit ==
    /\ Init
    /\ launcher = None
    /\ wait = NoWait

----------------------------------------------------------------------------
(***************************************************************************)
(* sys_pstate: the state of the listed process with that pid; a process    *)
(* that is not listed any more counts as a zombie.                         *)
(***************************************************************************)
SysPstateUnknownIsReady(n) ==
    IF \E p \in Listed : info[p].pid = n
    THEN state[CHOOSE p \in Listed : info[p].pid = n]
    ELSE "READY"

SysPstate(n) ==
    IF \E p \in Listed : info[p].pid = n
    THEN state[CHOOSE p \in Listed : info[p].pid = n]
    ELSE "ZOMBIE"

(***************************************************************************)
(* sys_thread_join: the caller's thread is still running.                  *)
(***************************************************************************)

JoinGoesOn(n) ==
    \E p \in Proc : /\ OwnedByCurrent(p)
                    /\ info[p].pid = n
                    /\ state[p] \notin Terminated

LauncherRuns == current = launcher /\ InUser

(***************************************************************************)
(* A click on an application: exec, then wait for the pid it returned,     *)
(* which is 0 when the program could not be started.                       *)
(***************************************************************************)
ExecAndWait ==
    /\ LauncherRuns
    /\ wait = NoWait
    /\ \/ \E p \in Proc : /\ ProcessCreate(p, "USER")
                          /\ wait' = [how |-> "pstate", pid |-> nextPid]
       \/ ElfToProcFails /\ wait' = [how |-> "pstate", pid |-> 0]
    /\ UNCHANGED <<initVars, masked, launcher>>

PstateReturns ==
    /\ LauncherRuns
    /\ wait.how = "pstate"
    /\ SysPstate(wait.pid) = "ZOMBIE"
    /\ wait' = NoWait
    /\ UNCHANGED <<vars, launcher>>

(***************************************************************************)
(* thread_join, for a pid that was once issued                             *)
(***************************************************************************)
BeginJoin ==
    /\ LauncherRuns
    /\ wait = NoWait
    /\ \E n \in 1..(nextPid - 1) : wait' = [how |-> "join", pid |-> n]
    /\ UNCHANGED <<vars, launcher>>

JoinReturns ==
    /\ LauncherRuns
    /\ wait.how = "join"
    /\ ~JoinGoesOn(wait.pid)
    /\ wait' = NoWait
    /\ UNCHANGED <<vars, launcher>>

(***************************************************************************)
(* Everything else goes on meanwhile; the launcher's own main thread does  *)
(* nothing but poll.                                                       *)
(***************************************************************************)
Others ==
    /\ IF LauncherRuns /\ wait # NoWait THEN TimerHandler ELSE Next
    /\ launcher' = IF initPc = "launch" /\ initPc' = "poll"
                   THEN Last(runq') ELSE launcher
    /\ UNCHANGED wait

WaitNext ==
    \/ ExecAndWait
    \/ PstateReturns
    \/ BeginJoin
    \/ JoinReturns
    \/ Others

WaitSpec == WaitInit /\ [][WaitNext]_waitVars

(***************************************************************************)
(* Every timer tick is taken, the kernel processes make progress, and the  *)
(* launcher gets a look in whenever it has the core again and again.       *)
(***************************************************************************)
FairWaitSpec ==
    /\ WaitSpec
    /\ SF_waitVars(TimerHandler /\ Others)
    /\ SF_waitVars(InitStep /\ Others)
    /\ SF_waitVars(LoaderExit /\ Others)
    /\ SF_waitVars(PstateReturns)
    /\ SF_waitVars(JoinReturns)
----------------------------------------------------------------------------
(* Properties *)

Over(n) == PidStatus(n) = "dead"

WaitsFor(how, n) == wait = [how |-> how, pid |-> n]

LauncherLives == launcher \in Listed

(***************************************************************************)
(* A process or a thread is waited for no longer than it lives: once it    *)
(* has exited, crashed or been killed, however that happened and whether   *)
(* or not it has been destroyed in the meantime, pstate and thread_join    *)
(* let the launcher go, as long as nobody ends the launcher and no program *)
(* sits in sys_read(0) for good.                                           *)
(***************************************************************************)
WaitsEnd ==
    []<>(masked = "no") => \A how \in How : \A n \in 1..MaxPid :
        WaitsFor(how, n) /\ Over(n)
            ~> (~WaitsFor(how, n) \/ ~LauncherLives)

(***************************************************************************)
(* "wait for proc exit" (folder_view_popup.hpp:95): a wait after exec is   *)
(* over once there is no process to wait for, exec having failed included. *)
(***************************************************************************)
WaitForProcExit ==
    []<>(masked = "no") => \A n \in 0..MaxPid :
        WaitsFor("pstate", n) /\ (n = 0 \/ Over(n))
            ~> (~WaitsFor("pstate", n) \/ ~LauncherLives)
=============================================================================
