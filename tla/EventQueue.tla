----------------------------- MODULE EventQueue -----------------------------
(***************************************************************************)
(* What an application is promised about its input events, without rings,  *)
(* threads or mailboxes: each input event goes, once, into the queue of at *)
(* most one running application, or is lost; an application takes its      *)
(* events out one at a time, oldest first; its queue ends with it.         *)
(***************************************************************************)
EXTENDS Naturals, Sequences

CONSTANTS App, LastEvent   \* the applications; the number of the last input event

VARIABLES
    queue,      \* the events on their way to each application
    running,    \* the applications that have not ended
    made,       \* the number of the last input event
    fresh       \* that event may still be queued

vars == <<queue, running, made, fresh>>

Init ==
    /\ queue = [a \in App |-> <<>>]
    /\ running = App
    /\ made = 0
    /\ fresh = FALSE

MakeEvent ==
    /\ made < LastEvent
    /\ ~fresh
    /\ made' = made + 1
    /\ fresh' \in BOOLEAN
    /\ UNCHANGED <<queue, running>>

Push(a) ==
    /\ a \in running
    /\ fresh
    /\ fresh' = FALSE
    /\ queue' = [queue EXCEPT ![a] = Append(@, made)]
    /\ UNCHANGED <<running, made>>

Lose ==
    /\ fresh
    /\ fresh' = FALSE
    /\ UNCHANGED <<queue, running, made>>

Take(a) ==
    /\ a \in running
    /\ queue[a] # <<>>
    /\ queue' = [queue EXCEPT ![a] = Tail(@)]
    /\ UNCHANGED <<running, made, fresh>>

End(a) ==
    /\ a \in running
    /\ running' = running \ {a}
    /\ queue' = [queue EXCEPT ![a] = <<>>]
    /\ UNCHANGED <<made, fresh>>

Next ==
    \/ MakeEvent
    \/ Lose
    \/ \E a \in App : Push(a) \/ Take(a) \/ End(a)

Spec == Init /\ [][Next]_vars
=============================================================================
