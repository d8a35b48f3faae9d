----------------------------- MODULE UserThreads -----------------------------
(***************************************************************************)
(* The user-level threads of sthread_lib/sthread_user.c with the queues of *)
(* sthread_lib/queue.c: one process, one thread active at a time, the      *)
(* others in the lists of the library.  The active thread calls the        *)
(* library in any order; the timer of sthread_time_slice.c calls the       *)
(* dispatcher between two calls.  No two threads run at once, so a call    *)
(* up to the switch is one step: a tick in its middle does what a tick     *)
(* before or after it does, it ends the process.                           *)
(*                                                                         *)
(* Where a thread goes next is decided in two ways.  A call that blocks in *)
(* sleep, lock or wait takes the first executable thread.  Every other     *)
(* change of thread goes through sthread_schedule, which looks into run    *)
(* queues that only sthread_create fills.  A plain mutex is a monitor      *)
(* nobody waits on.                                                        *)
(***************************************************************************)
EXTENDS Integers, Sequences, FiniteSets, SequencesExt

CONSTANTS Threads,      \* threads there can be
          Main,         \* the thread sthread_init is called by
          NoThread,     \* a NULL thread pointer
          Monitors,     \* monitors of the program
          SleepTicks    \* numbers of ticks a program sleeps

ASSUME UserThreadsAssumption ==
    /\ Main \in Threads
    /\ NoThread \notin Threads
    /\ SleepTicks \subseteq Int \ {0}

VARIABLES
    created,    \* threads that exist or existed
    active,     \* active_thr
    runnable,   \* threads in the run queues active_rq and expired_rq
    exe,        \* exe_thr_list
    sleeping,   \* sleep_thr_list
    joining,    \* join_thr_list
    zombies,    \* zombie_thr_list
    dead,       \* dead_thr_list
    wakeTime,   \* wake_time of each thread
    joinOf,     \* the thread whose join_tid each thread waits for
    clock,      \* Clock
    owner,      \* thr of each monitor's mutex
    lockQ,      \* queue of each monitor's mutex
    monQ,       \* queue of each monitor
    process     \* "up", or how the process ended

lists == <<sleeping, joining, zombies, dead>>
monitors == <<owner, lockQ, monQ>>
fields == <<wakeTime, joinOf, clock>>
vars == <<created, active, runnable, exe, lists, fields, monitors, process>>

Init ==
    /\ created = {Main}
    /\ active = Main
    /\ runnable = {}
    /\ exe = << >>
    /\ sleeping = << >>
    /\ joining = << >>
    /\ zombies = << >>
    /\ dead = << >>
    /\ wakeTime = [t \in Threads |-> 0]
    /\ joinOf = [t \in Threads |-> NoThread]
    /\ clock = 1
    /\ owner = [m \in Monitors |-> NoThread]
    /\ lockQ = [m \in Monitors |-> << >>]
    /\ monQ = [m \in Monitors |-> << >>]
    /\ process = "up"

Up == process = "up"

-----------------------------------------------------------------------------
(* The two ways to the next thread; ready is exe_thr_list at that point.   *)

\* queue_remove(exe_thr_list): an empty list is a NULL pointer it follows.
SwitchToReady(ready) ==
    \/ /\ ready # << >>
       /\ active' = Head(ready)
       /\ exe' = Tail(ready)
       /\ UNCHANGED process
    \/ /\ ready = << >>
       /\ process' = "crashed"
       /\ exe' = ready
       /\ UNCHANGED active

\* Mutant: the scheduler returns an executable thread.
ScheduleReady(ready) == SwitchToReady(ready)

\* sthread_schedule: a thread in a run queue makes it call exit(1), and
\* without one it returns no thread, whose context is then switched to.
Schedule(ready) ==
    /\ process' = IF runnable # {} THEN "exit(1)" ELSE "crashed"
    /\ exe' = ready
    /\ UNCHANGED active

Yield(ready) == Schedule(Append(ready, active))

-----------------------------------------------------------------------------
(* Threads *)

\* A valid priority only chooses the run queue.
Create(t) ==
    /\ Up
    /\ t \notin created
    /\ created' = created \cup {t}
    /\ runnable' = runnable \cup {t}
    /\ exe' = Append(exe, t)
    /\ UNCHANGED <<active, lists, fields, monitors, process>>

YieldCall ==
    /\ Up
    /\ Yield(exe)
    /\ UNCHANGED <<created, runnable, lists, fields, monitors>>

\* The dispatcher: who has slept enough becomes executable, then a yield.
Tick ==
    LET woken(t) == wakeTime[t] = clock'
        asleep(t) == ~woken(t) IN
    /\ Up
    /\ clock' = clock + 1
    /\ sleeping' = SelectSeq(sleeping, asleep)
    /\ wakeTime' = [t \in Threads |-> IF t \in ToSet(sleeping) /\ woken(t)
                                      THEN 0 ELSE wakeTime[t]]
    /\ Yield(exe \o SelectSeq(sleeping, woken))
    /\ UNCHANGED <<created, runnable, joining, zombies, dead, joinOf, monitors>>

Exit ==
    LET joins(t) == joinOf[t] = active
        others(t) == ~joins(t)
        joiners == SelectSeq(joining, joins)
        ready == exe \o joiners IN
    /\ Up
    /\ joining' = SelectSeq(joining, others)
    /\ IF joiners = << >> THEN zombies' = Append(zombies, active) /\ UNCHANGED dead
                          ELSE dead' = Append(dead, active) /\ UNCHANGED zombies
    /\ IF ready = << >> THEN process' = "exit(0)" /\ UNCHANGED <<active, exe>>
                        ELSE Schedule(ready)
    /\ UNCHANGED <<created, runnable, sleeping, fields, monitors>>

\* A thread that ended is taken from the zombies, one that lives is waited
\* for; a thread in none of the lists that are searched makes the call fail.
Join(t) ==
    /\ Up
    /\ t \in created \ {Main}
    /\ IF t \in ToSet(zombies)
       THEN /\ zombies' = SelectSeq(zombies, LAMBDA z : z # t)
            /\ dead' = Append(dead, t)
            /\ UNCHANGED <<active, exe, joining, joinOf, process>>
       ELSE /\ t \in {active} \cup ToSet(exe) \cup ToSet(sleeping) \cup ToSet(joining)
            /\ joinOf' = [joinOf EXCEPT ![active] = t]
            /\ joining' = Append(joining, active)
            /\ Schedule(exe)
            /\ UNCHANGED <<zombies, dead>>
    /\ UNCHANGED <<created, runnable, sleeping, wakeTime, clock, monitors>>

\* Mutant: a sleeping thread stays executable.
SleepExecutable(n) ==
    /\ Up
    /\ wakeTime' = [wakeTime EXCEPT ![active] = clock + n]
    /\ sleeping' = Append(sleeping, active)
    /\ SwitchToReady(Append(exe, active))
    /\ UNCHANGED <<created, runnable, joining, zombies, dead, joinOf, clock, monitors>>

Sleep(n) ==
    /\ Up
    /\ wakeTime' = [wakeTime EXCEPT ![active] = clock + n]
    /\ sleeping' = Append(sleeping, active)
    /\ SwitchToReady(exe)
    /\ UNCHANGED <<created, runnable, joining, zombies, dead, joinOf, clock, monitors>>

-----------------------------------------------------------------------------
(* Monitors: enter and exit are lock and unlock of the mutex.              *)

Lock(m) ==
    /\ Up
    /\ \/ /\ owner[m] = NoThread
          /\ owner' = [owner EXCEPT ![m] = active]
          /\ UNCHANGED <<lockQ, active, exe, process>>
       \/ /\ owner[m] # NoThread
          /\ lockQ' = [lockQ EXCEPT ![m] = Append(@, active)]
          /\ SwitchToReady(exe)
          /\ UNCHANGED owner
    /\ UNCHANGED <<created, runnable, lists, fields, monQ>>

\* The owner, the queue and the executable threads after an unlock.
NextOwner(m) == IF lockQ[m] = << >> THEN NoThread ELSE Head(lockQ[m])
RestOf(queue) == IF queue = << >> THEN queue ELSE Tail(queue)
ReadyAfterUnlock(m) == IF lockQ[m] = << >> THEN exe ELSE Append(exe, Head(lockQ[m]))

\* Mutant: the mutex is free although its first waiter was made executable.
PassOnFree(m) ==
    /\ owner' = [owner EXCEPT ![m] = NoThread]
    /\ lockQ' = [lockQ EXCEPT ![m] = RestOf(@)]

PassOn(m) ==
    /\ owner' = [owner EXCEPT ![m] = NextOwner(m)]
    /\ lockQ' = [lockQ EXCEPT ![m] = RestOf(@)]

Unlock(m) ==
    /\ Up
    /\ owner[m] = active
    /\ PassOn(m)
    /\ exe' = ReadyAfterUnlock(m)
    /\ UNCHANGED <<created, active, runnable, lists, fields, monQ, process>>

Wait(m) ==
    /\ Up
    /\ owner[m] = active
    /\ monQ' = [monQ EXCEPT ![m] = Append(@, active)]
    /\ PassOn(m)
    /\ SwitchToReady(ReadyAfterUnlock(m))
    /\ UNCHANGED <<created, runnable, lists, fields>>

Signal(m) ==
    /\ Up
    /\ owner[m] = active
    /\ monQ[m] # << >>
    /\ monQ' = [monQ EXCEPT ![m] = Tail(@)]
    /\ lockQ' = [lockQ EXCEPT ![m] = Append(@, Head(monQ[m]))]
    /\ UNCHANGED <<created, active, runnable, exe, lists, fields, owner, process>>

-----------------------------------------------------------------------------
Next ==
    \/ \E t \in Threads : Create(t) \/ Join(t)
    \/ \E n \in SleepTicks : Sleep(n)
    \/ \E m \in Monitors : Lock(m) \/ Unlock(m) \/ Wait(m) \/ Signal(m)
    \/ YieldCall
    \/ Exit
    \/ Tick

Spec == Init /\ [][Next]_vars

-----------------------------------------------------------------------------
(* Properties *)

\* The places a thread can be in while the process runs, as queues.
Places ==
    {<<"active", NoThread, <<active>>>>, <<"exe", NoThread, exe>>,
     <<"sleep", NoThread, sleeping>>} \cup
    {<<"lock", m, lockQ[m]>> : m \in Monitors} \cup
    {<<"wait", m, monQ[m]>> : m \in Monitors}

PlacesOf(t) ==
    UNION {{<<p[1], p[2], i>> : i \in {j \in DOMAIN p[3] : p[3][j] = t}} : p \in Places}

\* While the process runs every thread is active or once in one list: no call
\* loses a thread, makes it executable twice or leaves a thread that runs in
\* a list.  No thread is in the lists of exit and join: nobody outlives a
\* call of these (sthread_user.c:301-346, 397-515, 555-577, 637-660).
ThreadInOnePlace ==
    Up => \A t \in created : Cardinality(PlacesOf(t)) = 1

\* Whoever sleeps does so until the process ends: the tick that makes it
\* executable goes on to sthread_schedule, and that is its last call
\* (sthread_user.c:263-295, 349-369, 495-515).
SleepersSleepOn ==
    [][process' = "up" => ToSet(sleeping) \subseteq ToSet(sleeping')]_vars

\* Each monitor does what a monitor promises: one owner, handed over to a
\* thread that queues, and no waiter comes back unless it is signalled
\* (sthread_user.c:555-596, 637-678).
Promised == INSTANCE Monitor
    WITH entering <- [m \in Monitors |-> ToSet(lockQ[m])],
         waiting <- [m \in Monitors |-> ToSet(monQ[m])]
ImplementsMonitor == Promised!Spec
=============================================================================
