------------------------------- MODULE Monitor -------------------------------
(***************************************************************************)
(* What sthread.h promises of monitors: at most one thread is inside; a    *)
(* thread that waits is outside until the owner signals it, and then it    *)
(* queues for the monitor again.  The thread that leaves hands the monitor *)
(* over to one that queues, if there is any: it is never free while        *)
(* somebody wants it.  One step concerns one monitor.                      *)
(***************************************************************************)
CONSTANTS Threads, NoThread, Monitors

VARIABLES owner,      \* the thread inside each monitor, or NoThread
          entering,   \* threads that want to be inside
          waiting     \* threads that wait for a signal

vars == <<owner, entering, waiting>>

Init ==
    /\ owner = [m \in Monitors |-> NoThread]
    /\ entering = [m \in Monitors |-> {}]
    /\ waiting = [m \in Monitors |-> {}]

Enter(m, t) ==
    /\ t \notin entering[m] \cup waiting[m]
    /\ \/ /\ owner[m] = NoThread
          /\ owner' = [owner EXCEPT ![m] = t]
          /\ UNCHANGED entering
       \/ /\ owner[m] # NoThread
          /\ entering' = [entering EXCEPT ![m] = @ \cup {t}]
          /\ UNCHANGED owner
    /\ UNCHANGED waiting

HandOver(m) ==
    \E next \in IF entering[m] = {} THEN {NoThread} ELSE entering[m] :
        /\ owner' = [owner EXCEPT ![m] = next]
        /\ entering' = [entering EXCEPT ![m] = @ \ {next}]

Exit(m, t) == owner[m] = t /\ HandOver(m) /\ UNCHANGED waiting

Wait(m, t) ==
    /\ owner[m] = t
    /\ t \notin entering[m] \cup waiting[m]
    /\ HandOver(m)
    /\ waiting' = [waiting EXCEPT ![m] = @ \cup {t}]

Signal(m, t) ==
    /\ owner[m] = t
    /\ \E u \in waiting[m] :
           /\ waiting' = [waiting EXCEPT ![m] = @ \ {u}]
           /\ entering' = [entering EXCEPT ![m] = @ \cup {u}]
    /\ UNCHANGED owner

Next == \E m \in Monitors, t \in Threads :
            Enter(m, t) \/ Exit(m, t) \/ Wait(m, t) \/ Signal(m, t)

Spec == Init /\ [][Next]_vars
=============================================================================
