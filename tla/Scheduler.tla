----------------------------- MODULE Scheduler -----------------------------
(***************************************************************************)
(* The run list of src/src/proc/scheduler.c.  The code keeps a singly      *)
(* linked list (scheduled_processes, scheduled_processes_tail, the `next`  *)
(* field of t_process); here it is the sequence of the t_process objects   *)
(* from head to tail.  The operators are pure: the state machine that owns *)
(* the list is module Process.                                             *)
(***************************************************************************)
EXTENDS Integers, SequencesExt

CONSTANTS
    Proc,       \* t_process objects, named by their address in the heap
    None        \* the null pointer

ASSUME NoneAssumption == None \notin Proc

(***************************************************************************)
(* e_process_state.  PROC_BLOCKED and PROC_SLEEPING are declared in proc.h *)
(* but no code assigns them.  "FREE" is a t_process that is not allocated. *)
(***************************************************************************)
ProcState == {"FREE", "READY", "RUNNING", "ZOMBIE", "CRASHED"}
Terminated == {"ZOMBIE", "CRASHED"}

(***************************************************************************)
(* scheduler_add: append at the tail.                                      *)
(***************************************************************************)
SchedulerAdd(q, p) == Append(q, p)

(***************************************************************************)
(* scheduler_remove: unlink p; a p that is not on the list is ignored.     *)
(***************************************************************************)
SchedulerRemove(q, p) ==
    IF \E i \in 1..Len(q) : q[i] = p
    THEN RemoveAt(q, CHOOSE i \in 1..Len(q) : q[i] = p)
    ELSE q

(***************************************************************************)
(* scheduler_next: walk the list in a circle, from the successor of the    *)
(* current process (the head when there is none), and return the first     *)
(* PROC_READY process, or null after one full turn.                        *)
(***************************************************************************)
StartIndex(q, cur) ==
    IF \E i \in 1..(Len(q) - 1) : q[i] = cur
    THEN 1 + CHOOSE i \in 1..(Len(q) - 1) : q[i] = cur
    ELSE 1

Circular(q, start, k) ==
    IF start + k <= Len(q) THEN q[start + k] ELSE q[start + k - Len(q)]

SchedulerNextAlwaysHead(q, cur, state) ==
    LET ready == {i \in 1..Len(q) : state[q[i]] = "READY"}
    IN  IF ready = {} THEN None ELSE q[Min(ready)]

SchedulerNext(q, cur, state) ==
    LET start == StartIndex(q, cur)
        ready == {k \in 0..(Len(q) - 1) :
                    state[Circular(q, start, k)] = "READY"}
    IN  IF ready = {} THEN None ELSE Circular(q, start, Min(ready))
=============================================================================
