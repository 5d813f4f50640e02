----------------------------- MODULE EventPath -----------------------------
(***************************************************************************)
(* The way of a mouse or keyboard event from the input devices to the      *)
(* program on the screen: init_proc polls the devices and its dispatchers  *)
(* queue the event for the process that drew last (init_proc.c:63-101);    *)
(* sys_evtpop hands it out (syscalls.c:636-651); in each application an    *)
(* event thread passes it to the main thread through the one-slot mailbox  *)
(* event_pending / pending_event (SDK, app.hpp:125-174).                   *)
(*                                                                         *)
(* A system call is one action (interrupts are masked); the threads are    *)
(* preempted between any two accesses to shared variables.                 *)
(***************************************************************************)
EXTENDS Integers, SequencesExt

CONSTANTS
    MaxEvents,  \* PROC_MAX_EVENTS, the slots of a queue
    Event,      \* event_t values
    NoEvent,    \* the zeroed event_t of an empty slot or variable
    App,        \* applications: a main thread and an event thread each
    Nobody,     \* the null last_updated_proc
    LastEvent   \* bound on the input events a behaviour makes

ASSUME MaxEventsAssumption == MaxEvents \in Nat \ {0}
ASSUME NoEventAssumption == NoEvent \notin Event
ASSUME AppAssumption == Nobody \notin App
ASSUME LastEventAssumption == LastEvent \in Nat
ASSUME EventAssumption == Event = 1..LastEvent /\ NoEvent = 0

----------------------------------------------------------------------------
(* The queue of a process, event_fifo_t (src/src/proc/fifo.c): a ring of    *)
(* slots with a head, a tail and a count                                    *)

Index == 0..(MaxEvents - 1)

Fifo == [buffer : [Index -> Event \cup {NoEvent}],
         head : Index, tail : Index, count : 0..MaxEvents]

FifoInit ==
    [buffer |-> [i \in Index |-> NoEvent], head |-> 0, tail |-> 0, count |-> 0]

FifoIsEmpty(q) == q.count = 0

FifoIsFullOneLate(q) == q.count > MaxEvents

FifoIsFull(q) == q.count = MaxEvents

After(i) == (i + 1) % MaxEvents

(***************************************************************************)
(* fifo_push on a queue that is not full, and fifo_pop on one that is not  *)
(* empty; in the other cases they return false and change nothing.         *)
(***************************************************************************)
FifoPush(q, e) ==
    [q EXCEPT !.buffer[q.tail] = e, !.tail = After(q.tail), !.count = @ + 1]

FifoFront(q) == q.buffer[q.head]

FifoPop(q) == [q EXCEPT !.head = After(q.head), !.count = @ - 1]

----------------------------------------------------------------------------
(***************************************************************************)
(* The queue a well-formed ring stands for.                                *)
(***************************************************************************)
Slot(q, k) == (q.head + k - 1) % MaxEvents

FifoOK(q) == q \in Fifo /\ q.tail = (q.head + q.count) % MaxEvents

Contents(q) == [k \in 1..q.count |-> q.buffer[Slot(q, k)]]

----------------------------------------------------------------------------
VARIABLES
    fifo,       \* t_process.events
    alive,      \* the state is neither PROC_CRASHED nor PROC_ZOMBIE
    last,       \* last_updated_proc
    made,       \* input events made so far, numbered in order
    target,     \* the dispatcher's `proc`, once it has decided to queue
    thread,     \* where event_thread() is
    popped,     \* its local `event`
    pending,    \* event_pending
    slot,       \* pending_event
    main,       \* where Application::run() is
    taken       \* its local `event`

kernelVars == <<fifo, alive, last, made, target>>
threadVars == <<thread, popped>>
mainVars == <<main, taken>>
mailbox == <<pending, slot>>
vars == <<kernelVars, threadVars, mainVars, mailbox>>

Init ==
    /\ fifo = [a \in App |-> FifoInit]
    /\ alive = [a \in App |-> TRUE]
    /\ last = Nobody
    /\ made = 0
    /\ target = Nobody
    /\ thread = [a \in App |-> "none"]
    /\ popped = [a \in App |-> NoEvent]
    /\ pending = [a \in App |-> FALSE]
    /\ slot = [a \in App |-> NoEvent]
    /\ main = [a \in App |-> "open"]
    /\ taken = [a \in App |-> NoEvent]

----------------------------------------------------------------------------
(* The dispatchers, in init's context *)

(***************************************************************************)
(* click_dispatcher and key_dispatcher: the event is dropped unless the    *)
(* process that drew last is alive.  Interrupts are enabled here, ...      *)
(***************************************************************************)
DispatchEvent ==
    /\ target = Nobody
    /\ made < LastEvent
    /\ made' = made + 1
    /\ target' = IF last # Nobody /\ alive[last] THEN last ELSE Nobody
    /\ UNCHANGED <<fifo, alive, last, threadVars, mainVars, mailbox>>

(***************************************************************************)
(* ... so by the time the event is queued that process may have ended, or  *)
(* another one may have drawn.  A full queue drops the event.              *)
(***************************************************************************)
QueueEvent ==
    /\ target # Nobody
    /\ target' = Nobody
    /\ fifo' = IF FifoIsFull(fifo[target]) THEN fifo
               ELSE [fifo EXCEPT ![target] = FifoPush(@, made)]
    /\ UNCHANGED <<alive, last, made, threadVars, mainVars, mailbox>>

----------------------------------------------------------------------------
(* System calls of an application *)

(***************************************************************************)
(* sys_evtpop takes from the queue of the thread's owner.  Once the owner  *)
(* has ended, thread_memory_owner falls back to the thread itself, which   *)
(* no dispatcher ever queues for.                                          *)
(***************************************************************************)
SysEvtpop(a) ==
    /\ alive[a]
    /\ ~FifoIsEmpty(fifo[a])
    /\ fifo' = [fifo EXCEPT ![a] = FifoPop(@)]
    /\ UNCHANGED <<alive, last, made, target>>

(***************************************************************************)
(* sys_surface_update, in Window::draw; it fails when the surface could    *)
(* not be created.                                                         *)
(***************************************************************************)
Draw(a) ==
    /\ alive[a]
    /\ main[a] \in {"open", "draw"}
    /\ main' = [main EXCEPT ![a] = IF @ = "open" THEN "create" ELSE "wait"]
    /\ last' \in {last, a}
    /\ UNCHANGED <<fifo, alive, made, target, taken, threadVars, mailbox>>

(***************************************************************************)
(* The process exits, crashes or is killed.                                *)
(***************************************************************************)
Exit(a) ==
    /\ alive[a]
    /\ alive' = [alive EXCEPT ![a] = FALSE]
    /\ UNCHANGED <<fifo, last, made, target, threadVars, mainVars, mailbox>>

----------------------------------------------------------------------------
(* event_thread(), which keeps running when its owner has ended *)

ThreadTestAlways(a) ==
    /\ thread[a] = "test"
    /\ thread' = [thread EXCEPT ![a] = "pop"]
    /\ UNCHANGED <<kernelVars, popped, mainVars, mailbox>>

ThreadTest(a) ==
    /\ thread[a] = "test"
    /\ ~pending[a]
    /\ thread' = [thread EXCEPT ![a] = "pop"]
    /\ UNCHANGED <<kernelVars, popped, mainVars, mailbox>>

ThreadPop(a) ==
    /\ thread[a] = "pop"
    /\ \/ /\ SysEvtpop(a)
          /\ popped' = [popped EXCEPT ![a] = FifoFront(fifo[a])]
          /\ thread' = [thread EXCEPT ![a] = "store"]
       \/ /\ alive[a] => FifoIsEmpty(fifo[a])
          /\ thread' = [thread EXCEPT ![a] = "test"]
          /\ UNCHANGED <<kernelVars, popped>>
    /\ UNCHANGED <<mainVars, mailbox>>

ThreadStore(a) ==
    /\ thread[a] = "store"
    /\ slot' = [slot EXCEPT ![a] = popped[a]]
    /\ thread' = [thread EXCEPT ![a] = "publish"]
    /\ UNCHANGED <<kernelVars, popped, pending, mainVars>>

ThreadPublish(a) ==
    /\ thread[a] = "publish"
    /\ pending' = [pending EXCEPT ![a] = TRUE]
    /\ popped' = [popped EXCEPT ![a] = NoEvent]
    /\ thread' = [thread EXCEPT ![a] = "test"]
    /\ UNCHANGED <<kernelVars, slot, mainVars>>

----------------------------------------------------------------------------
(* Application::run() *)

(***************************************************************************)
(* Start the event thread; without one the main thread polls by itself.    *)
(***************************************************************************)
CreateThread(a) ==
    /\ alive[a]
    /\ main[a] = "create"
    /\ main' = [main EXCEPT ![a] = "wait"]
    /\ \/ thread' = [thread EXCEPT ![a] = "test"]
       \/ UNCHANGED thread
    /\ UNCHANGED <<kernelVars, popped, taken, mailbox>>

CopyEvent(a) ==
    /\ alive[a]
    /\ main[a] = "wait"
    /\ pending[a]
    /\ taken' = [taken EXCEPT ![a] = slot[a]]
    /\ main' = [main EXCEPT ![a] = "clear"]
    /\ UNCHANGED <<kernelVars, threadVars, mailbox>>

ClearPendingForgotten(a) ==
    /\ alive[a]
    /\ main[a] = "clear"
    /\ main' = [main EXCEPT ![a] = "dispatch"]
    /\ UNCHANGED <<kernelVars, taken, threadVars, mailbox>>

ClearPending(a) ==
    /\ alive[a]
    /\ main[a] = "clear"
    /\ pending' = [pending EXCEPT ![a] = FALSE]
    /\ main' = [main EXCEPT ![a] = "dispatch"]
    /\ UNCHANGED <<kernelVars, taken, threadVars, slot>>

PollEvent(a) ==
    /\ thread[a] = "none"
    /\ main[a] = "wait"
    /\ SysEvtpop(a)
    /\ taken' = [taken EXCEPT ![a] = FifoFront(fifo[a])]
    /\ main' = [main EXCEPT ![a] = "dispatch"]
    /\ UNCHANGED <<threadVars, mailbox>>

(***************************************************************************)
(* Window::dispatch_event runs the handler; if there was one, the window   *)
(* is drawn again.                                                         *)
(***************************************************************************)
Dispatch(a) ==
    /\ alive[a]
    /\ main[a] = "dispatch"
    /\ taken' = [taken EXCEPT ![a] = NoEvent]
    /\ \E next \in {"draw", "wait"} : main' = [main EXCEPT ![a] = next]
    /\ UNCHANGED <<kernelVars, threadVars, mailbox>>

ThreadStep(a) ==
    ThreadTest(a) \/ ThreadPop(a) \/ ThreadStore(a) \/ ThreadPublish(a)

MainStep(a) ==
    \/ Draw(a)
    \/ CreateThread(a)
    \/ CopyEvent(a)
    \/ ClearPending(a)
    \/ PollEvent(a)
    \/ Dispatch(a)

Next ==
    \/ DispatchEvent
    \/ QueueEvent
    \/ \E a \in App : ThreadStep(a) \/ MainStep(a) \/ Exit(a)

Spec == Init /\ [][Next]_vars

(***************************************************************************)
(* The scheduler gives every ready thread the core again and again, and    *)
(* handlers are taken to return.                                           *)
(***************************************************************************)
Fairness == \A a \in App : WF_vars(ThreadStep(a)) /\ WF_vars(MainStep(a))

FairSpec == Spec /\ Fairness
----------------------------------------------------------------------------
(* Properties *)

MainState == {"open", "create", "wait", "clear", "dispatch", "draw"}
ThreadState == {"none", "test", "pop", "store", "publish"}
AnyEvent == Event \cup {NoEvent}

TypeOK ==
    /\ fifo \in [App -> Fifo]
    /\ \A a \in App : FifoOK(fifo[a])
    /\ alive \in [App -> BOOLEAN]
    /\ last \in App \cup {Nobody}
    /\ made \in 0..LastEvent
    /\ target \in App \cup {Nobody}
    /\ thread \in [App -> ThreadState]
    /\ popped \in [App -> AnyEvent]
    /\ pending \in [App -> BOOLEAN]
    /\ slot \in [App -> AnyEvent]
    /\ main \in [App -> MainState]
    /\ taken \in [App -> AnyEvent]

(***************************************************************************)
(* The mailbox is handed over properly without any lock: while the main    *)
(* thread may still copy pending_event, the event thread is not writing    *)
(* it, nor holds an event for which it has already decided to.             *)
(***************************************************************************)
MailboxHandedOver ==
    \A a \in App : pending[a] \/ main[a] = "clear" =>
        /\ pending[a]
        /\ slot[a] # NoEvent
        /\ thread[a] = "test"

(***************************************************************************)
(* Rings are well formed, and no mailbox is written while it may be read.  *)
(***************************************************************************)
PathIsSound == TypeOK /\ MailboxHandedOver

(***************************************************************************)
(* Events of application a that are queued and not yet dispatched, oldest  *)
(* first: in the main thread, in the mailbox, in the event thread, in the  *)
(* kernel.                                                                 *)
(***************************************************************************)
One(cond, e) == IF cond THEN <<e>> ELSE <<>>

InFlight(a) ==
    One(main[a] \in {"clear", "dispatch"}, taken[a])
    \o One(pending[a] /\ main[a] # "clear", slot[a])
    \o One(thread[a] \in {"store", "publish"}, popped[a])
    \o Contents(fifo[a])

(***************************************************************************)
(* The kernel queue, the event thread, the mailbox and the main thread     *)
(* together are a queue: no event that was queued is lost, doubled or      *)
(* overtaken on its way to the handlers of a running application.          *)
(***************************************************************************)
Q == INSTANCE EventQueue
        WITH queue <- [a \in App |-> IF alive[a] THEN InFlight(a) ELSE <<>>],
             running <- {a \in App : alive[a]},
             fresh <- target # Nobody

ImplementsQueue == Q!Spec

(***************************************************************************)
(* Every event that was queued reaches a handler, unless the application   *)
(* ends first.                                                             *)
(***************************************************************************)
EventsArrive ==
    \A a \in App, e \in Event :
        (alive[a] /\ e \in Range(InFlight(a)))
            ~> (~alive[a] \/ e \notin Range(InFlight(a)))

(***************************************************************************)
(* The inductive invariant behind the refinement.  For application a: the  *)
(* mailbox is handed over properly; an event the thread holds is a real    *)
(* one, and while it is being published it is already in the mailbox; the  *)
(* thread exists only once the window is open; the ring holds real events. *)
(***************************************************************************)
AppInv(a) ==
    /\ pending[a] \/ main[a] = "clear" =>
          pending[a] /\ slot[a] # NoEvent /\ thread[a] = "test"
    /\ thread[a] \in {"store", "publish"} => popped[a] \in Event
    /\ thread[a] = "publish" => slot[a] = popped[a]
    /\ main[a] \in {"open", "create"} => thread[a] = "none"
    /\ \A k \in 1..fifo[a].count : Contents(fifo[a])[k] \in Event

PathInv ==
    /\ TypeOK
    /\ \A a \in App : AppInv(a)
    /\ target # Nobody => made # 0
=============================================================================
