------------------------------ MODULE RunList -------------------------------
(***************************************************************************)
(* The run list as the linked list it is in src/src/proc/scheduler.c: the  *)
(* `next` field of t_process and the pointers scheduled_processes and      *)
(* scheduled_processes_tail.  Module Scheduler takes it for a sequence;    *)
(* here a walk along the pointers is shown to be that sequence.            *)
(*                                                                         *)
(* System calls and elf_to_proc change the list with interrupts masked, in *)
(* one step.  main (main.c) creates init, and init the icon loader         *)
(* (init_proc.c), with interrupts enabled: a tick may fall between two     *)
(* stores of their scheduler_add, and others may run before it goes on.    *)
(***************************************************************************)
EXTENDS Scheduler, FiniteSets

CONSTANT InitProc    \* the t_process of init

ASSUME InitAssumption == InitProc \in Proc /\ IsFiniteSet(Proc)

VARIABLES next, head, tail,   \* the list
          running, state,
          kernel,   \* what main or init is doing: the step of a scheduler_add
                    \* and the process it adds
          torn      \* another process changed the list between two stores

rvars == <<next, head, tail, running, state, kernel, torn>>

Booting == <<"boot", None>>   \* interrupts are on, no process is there yet
Starting == <<"init", None>>  \* init has not created the icon loader yet
Nothing == <<"nothing", None>>
Panic   == <<"panic", None>>

RunListInit ==
  /\ next = [p \in Proc |-> None] /\ head = None /\ tail = None
  /\ running = None /\ state = [p \in Proc |-> "FREE"]
  /\ kernel = Booting /\ torn = FALSE

Unallocated == {p \in Proc : state[p] = "FREE"}

-----------------------------------------------------------------------------
(* scheduler_next *)

Following(n, p) == IF n[p] # None THEN n[p] ELSE head

StartOfTurn(n, cur) == IF cur # None /\ n[cur] # None THEN n[cur] ELSE head

\* The first ready process in one turn of the list n.
NextToRun(n, cur, states) ==
  LET at[i \in 0..Cardinality(Proc)] ==
        IF i = 0 THEN StartOfTurn(n, cur) ELSE Following(n, at[i - 1])
      ready == {i \in DOMAIN at : states[at[i]] = "READY"}
  IN IF head = None \/ ready = {} THEN None ELSE at[Min(ready)]

\* schedule() and process_exit_current give the core to a process.
Dispatch(p, states) ==
  /\ running' = p
  /\ state' = [states EXCEPT ![p] = "RUNNING"]

-----------------------------------------------------------------------------
(* scheduler_add as main and init make it: the process is made ready, then *)
(* it is linked, then it becomes the tail.                                 *)

Prepare(p) ==
  /\ \/ kernel = Booting /\ p = InitProc
     \/ ~torn /\ kernel = Starting /\ running = InitProc /\ state[p] = "FREE"
  /\ next' = [next EXCEPT ![p] = None] /\ state' = [state EXCEPT ![p] = "READY"]
  /\ kernel' = <<"prepared", p>>
  /\ UNCHANGED <<head, tail, running, torn>>

Mine == ~torn /\ running \in {None, InitProc}

Link ==
  /\ kernel[1] = "prepared" /\ Mine
  /\ IF head = None
     THEN head' = kernel[2] /\ UNCHANGED next
     ELSE next' = [next EXCEPT ![tail] = kernel[2]] /\ UNCHANGED head
  /\ kernel' = <<"linked", kernel[2]>>
  /\ UNCHANGED <<tail, running, state, torn>>

EndOfList ==
  /\ kernel[1] = "linked" /\ Mine
  /\ tail' = kernel[2]
  /\ kernel' = IF running = None THEN <<"start", None>> ELSE Nothing
  /\ UNCHANGED <<next, head, running, state, torn>>

\* scheduler_start
Start ==
  /\ kernel[1] = "start" /\ kernel' = Starting /\ Dispatch(NextToRun(next, running, state), state)
  /\ UNCHANGED <<next, head, tail, torn>>

\* The timer interrupt: irq_handler (boot.s) panics when no process is
\* current; schedule() passes the core on when the time slice is over.
Timer ==
  ~torn /\ kernel # Panic /\
  IF running = None
    THEN kernel' = Panic /\ UNCHANGED <<next, head, tail, running, state, torn>>
    ELSE \E p \in {NextToRun(next, running, state)} \ {None} :
         /\ Dispatch(p, [state EXCEPT ![running] = "READY"])
         /\ UNCHANGED <<next, head, tail, kernel, torn>>

-----------------------------------------------------------------------------
(* Programs, in system calls *)

\* Once torn, the list is followed no further.
Program == ~torn /\ running \in Proc \ {InitProc}
Torn    == torn' = (torn \/ kernel[1] = "linked")

\* scheduler_add in one step.
Add(p) ==
  /\ next' = [next EXCEPT ![p] = None, ![tail] = p] /\ tail' = p
  /\ state' = [state EXCEPT ![p] = "READY"]

\* elf_to_proc, called by a program or, once the icon loader has ended, by
\* init for the launcher.
Launch(p) ==
  /\ Program \/ (~torn /\ running = InitProc /\ \E q \in Proc : state[q] = "ZOMBIE")
  /\ kernel = Nothing \/ Program
  /\ state[p] = "FREE" /\ Add(p) /\ Torn
  /\ UNCHANGED <<head, running, kernel>>

\* scheduler_remove, init being at the head: the new pointers.
UnlinkKeepingTail(p) ==
  [next |-> [q \in Proc |-> IF q = p THEN None ELSE IF next[q] = p THEN next[p] ELSE next[q]],
   tail |-> tail]

Unlink(p) ==
  [next |-> [q \in Proc |-> IF q = p THEN None ELSE IF next[q] = p THEN next[p] ELSE next[q]],
   tail |-> IF tail = p THEN CHOOSE q \in Proc : next[q] = p ELSE tail]

\* process_exit_current: the process leaves the list before the next one is
\* looked for, from the head; its t_process is never freed.
ProcessExit ==
  /\ Program
  /\ next' = Unlink(running).next /\ tail' = Unlink(running).tail
  /\ LET ended == [state EXCEPT ![running] = "ZOMBIE"]
     IN Dispatch(NextToRun(next', None, ended), ended)
  /\ Torn /\ UNCHANGED <<head, kernel>>

\* thread_exit_current: a thread stays on the list until it is joined.
ThreadExit ==
  /\ Program
  /\ LET ended == [state EXCEPT ![running] = "CRASHED"]
     IN Dispatch(NextToRun(next, running, ended), ended)
  /\ UNCHANGED <<next, head, tail, kernel, torn>>

\* thread_destroy_current: the thread is unlinked and its t_process freed.
Join(p) ==
  /\ Program /\ state[p] = "CRASHED"
  /\ next' = Unlink(p).next /\ tail' = Unlink(p).tail
  /\ state' = [state EXCEPT ![p] = "FREE"]
  /\ Torn /\ UNCHANGED <<head, running, kernel>>

RunListNext ==
  \/ \E p \in Proc : Prepare(p) \/ Launch(p) \/ Join(p)
  \/ Link \/ EndOfList \/ Start \/ Timer \/ ProcessExit \/ ThreadExit

RunListSpec == RunListInit /\ [][RunListNext]_rvars

-----------------------------------------------------------------------------
\* The processes from the head on, at most as many as there are.
Walk ==
  LET at[i \in 0..Cardinality(Proc)] ==
        IF i = 0 THEN head ELSE IF at[i - 1] = None THEN None ELSE next[at[i - 1]]
  IN [i \in 1..Cardinality({k \in DOMAIN at : at[k] # None}) |-> at[i - 1]]

Linking == kernel[1] \in {"prepared", "linked"}

\* Every process that may run, or waits to be joined, can be reached from
\* the head, once, and the tail is the last one, so that none is ever lost;
\* as long as no program changed the list between two stores of an insertion
\* of init (scheduler.c:27), where one may be lost for good.
NoneIsLost ==
  ~torn /\ kernel \notin {Booting, Panic} =>
    /\ {p \in Proc : state[p] \in {"READY", "RUNNING", "CRASHED"}}
         = {Walk[i] : i \in DOMAIN Walk}
             \cup (IF kernel[1] = "prepared" THEN {kernel[2]} ELSE {})
    /\ \A i, j \in DOMAIN Walk : Walk[i] = Walk[j] => i = j
    /\ Walk # <<>> /\ kernel[1] # "linked" => tail = Walk[Len(Walk)]

\* The pointers behave as the sequence of module Scheduler does: the process
\* that scheduler_next finds along them is the one found there.
PicksAsSequence ==
  ~torn /\ ~Linking /\ kernel # Panic /\ Walk # <<>> =>
    NextToRun(next, running, state) = SchedulerNext(Walk, running, state)

\* The linked list is the sequence of module Scheduler: it has every process
\* that may run, and is walked in the same order (scheduler.c).
ListIsSound == NoneIsLost /\ PicksAsSequence
=============================================================================
