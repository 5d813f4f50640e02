----------------------------- MODULE Lifecycle -----------------------------
(***************************************************************************)
(* What the kernel promises about pids, without the run list, the time     *)
(* slices or the t_process objects: pids are given out in increasing order *)
(* and once; a pid is unborn, then alternates between ready and running,   *)
(* then is dead for good; and there is exactly one running pid at every    *)
(* moment, the core passing directly from one to the next.                 *)
(***************************************************************************)
EXTENDS Naturals

CONSTANT LastPid    \* the last pid that is ever given out

VARIABLE status

Pid == 0..LastPid
Status == {"unborn", "ready", "running", "dead"}

Init == status = [n \in Pid |-> IF n = 0 THEN "running" ELSE "unborn"]

(***************************************************************************)
(* The next pid is used, for a process or for a creation that fails.       *)
(***************************************************************************)
Spawn(n, s) ==
    /\ status[n] = "unborn"
    /\ \A m \in 0..(n - 1) : status[m] # "unborn"
    /\ status' = [status EXCEPT ![n] = s]

(***************************************************************************)
(* The core passes from a to b; a is ready again, or dead.                 *)
(***************************************************************************)
Switch(a, b, s) ==
    /\ status[a] = "running"
    /\ status[b] = "ready"
    /\ status' = [status EXCEPT ![a] = s, ![b] = "running"]

Kill(n) ==
    /\ status[n] = "ready"
    /\ status' = [status EXCEPT ![n] = "dead"]

Next ==
    \/ \E n \in Pid, s \in {"ready", "dead"} : Spawn(n, s)
    \/ \E a, b \in Pid, s \in {"ready", "dead"} : Switch(a, b, s)
    \/ \E n \in Pid : Kill(n)

Spec == Init /\ [][Next]_status
=============================================================================
