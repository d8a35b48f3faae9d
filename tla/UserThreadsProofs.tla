-------------------------- MODULE UserThreadsProofs --------------------------
(***************************************************************************)
(* The user-level threads, for any number of threads and monitors.  All    *)
(* that the library does with a thread is to take it from the head of one  *)
(* queue and to append it to another; with the active thread as a queue of *)
(* one, one lemma about such a move (MoveLinesUp) shows that every thread  *)
(* stays in exactly one queue and there once.  The promise of the monitors *)
(* rests on it: a thread that enters or waits must not queue already, and  *)
(* one that is handed the monitor must be gone from the queue.             *)
(***************************************************************************)
EXTENDS UserThreads, FiniteSetTheorems, TLAPS

ActiveKey == <<"active", NoThread>>
ExeKey == <<"exe", NoThread>>
SleepKey == <<"sleep", NoThread>>
LockKey(m) == <<"lock", m>>
WaitKey(m) == <<"wait", m>>

Keys == {ActiveKey, ExeKey, SleepKey}
        \cup {LockKey(m) : m \in Monitors} \cup {WaitKey(m) : m \in Monitors}

\* The queues of the library, the active thread as a queue of its own.
QueueAt(k) ==
  CASE k[1] = "active" -> <<active>>
    [] k[1] = "exe"    -> exe
    [] k[1] = "sleep"  -> sleeping
    [] k[1] = "lock"   -> lockQ[k[2]]
    [] k[1] = "wait"   -> monQ[k[2]]

Queues == [k \in Keys |-> QueueAt(k)]

OnKeys(queues) == queues = [k \in Keys |-> queues[k]]

Once(q) == \A i, j \in DOMAIN q : q[i] = q[j] => i = j

\* Everybody in all is once in one of the queues, and nobody else is.
LinedUp(queues, all) ==
  /\ queues \in [Keys -> Seq(all)]
  /\ \A k \in Keys : Once(queues[k])
  /\ \A j, k \in Keys : \A t \in all :
         t \in ToSet(queues[j]) /\ t \in ToSet(queues[k]) => j = k
  /\ \A t \in all : \E k \in Keys : t \in ToSet(queues[k])

\* The inductive invariant; nothing happens once the process has ended.
IInv ==
  Up => /\ created \subseteq Threads
        /\ lockQ \in [Monitors -> Seq(Threads)]
        /\ monQ \in [Monitors -> Seq(Threads)]
        /\ LinedUp(Queues, created)

\* The head of queue j goes to the end of queue k.
Move(queues, j, k) ==
  [queues EXCEPT ![j] = Tail(@), ![k] = Append(@, Head(queues[j]))]

-----------------------------------------------------------------------------
(* Sequences *)

\* Appending adds one element.
LEMMA AppendSet ==
  ASSUME NEW S, NEW q \in Seq(S), NEW t \in S
  PROVE  ToSet(Append(q, t)) = ToSet(q) \cup {t}
<1>1. /\ DOMAIN q = 1 .. Len(q) /\ Len(q) \in Nat
      /\ DOMAIN Append(q, t) = 1 .. Len(q) + 1
      /\ Append(q, t)[Len(q) + 1] = t
      /\ \A i \in 1 .. Len(q) : Append(q, t)[i] = q[i]
  OBVIOUS
<1>2. \A i \in 1 .. Len(q) + 1 : i \in 1 .. Len(q) \/ i = Len(q) + 1
  BY <1>1
<1>3. ToSet(Append(q, t)) \subseteq ToSet(q) \cup {t}
  BY <1>1, <1>2 DEF ToSet
<1>4. Len(q) + 1 \in 1 .. Len(q) + 1 /\ 1 .. Len(q) \subseteq 1 .. Len(q) + 1
  BY <1>1
<1>5. ToSet(q) \cup {t} \subseteq ToSet(Append(q, t))
  BY <1>1, <1>4 DEF ToSet
<1> QED
  BY <1>3, <1>5

\* Without its head a queue that holds everybody once has lost exactly that head.
LEMMA TailSet ==
  ASSUME NEW S, NEW q \in Seq(S), q # << >>, Once(q)
  PROVE  /\ Head(q) \in S
         /\ Tail(q) \in Seq(S)
         /\ Once(Tail(q))
         /\ ToSet(Tail(q)) = ToSet(q) \ {Head(q)}
         /\ Head(q) \in ToSet(q)
<1>1. Len(q) \in Nat \ {0} /\ Head(q) = q[1] /\ 1 \in DOMAIN q
  OBVIOUS
<1>2. Tail(q) \in Seq(S) /\ Len(Tail(q)) = Len(q) - 1
  OBVIOUS
<1>3. \A i \in 1 .. Len(q) - 1 : Tail(q)[i] = q[i + 1]
  OBVIOUS
<1>4. Once(Tail(q))
  <2> SUFFICES ASSUME NEW i \in 1 .. Len(q) - 1, NEW j \in 1 .. Len(q) - 1,
                      Tail(q)[i] = Tail(q)[j]
               PROVE  i = j
    BY <1>2 DEF Once
  <2>1. q[i + 1] = q[j + 1] /\ i + 1 \in DOMAIN q /\ j + 1 \in DOMAIN q
    BY <1>1, <1>3
  <2> QED
    BY <2>1 DEF Once
<1>5. ToSet(Tail(q)) \subseteq ToSet(q) \ {Head(q)}
  <2> SUFFICES ASSUME NEW i \in 1 .. Len(q) - 1
               PROVE  Tail(q)[i] \in ToSet(q) /\ Tail(q)[i] # Head(q)
    BY <1>2 DEF ToSet
  <2>1. i + 1 \in DOMAIN q /\ i + 1 # 1
    BY <1>1
  <2> QED
    BY <1>1, <1>3, <2>1 DEF ToSet, Once
<1>6. ToSet(q) \ {Head(q)} \subseteq ToSet(Tail(q))
  <2> SUFFICES ASSUME NEW i \in DOMAIN q, q[i] # Head(q)
               PROVE  q[i] \in ToSet(Tail(q))
    BY DEF ToSet
  <2>1. i - 1 \in 1 .. Len(q) - 1
    BY <1>1
  <2>2. Tail(q)[i - 1] = q[i]
    BY <1>3, <2>1
  <2> QED
    BY <1>2, <2>1, <2>2 DEF ToSet
<1> QED
  <2>1. Head(q) \in S /\ Head(q) \in ToSet(q)
    BY <1>1 DEF ToSet
  <2>2. ToSet(Tail(q)) = ToSet(q) \ {Head(q)}
    BY <1>5, <1>6
  <2> QED
    BY <1>2, <1>4, <2>1, <2>2

\* Appending a newcomer leaves everybody in the queue once.
LEMMA AppendOnce ==
  ASSUME NEW S, NEW q \in Seq(S), NEW t \in S, Once(q), t \notin ToSet(q)
  PROVE  Append(q, t) \in Seq(S) /\ Once(Append(q, t))
<1>1. \A i \in DOMAIN q : q[i] # t /\ Append(q, t)[i] = q[i]
  BY DEF ToSet
<1>2. Append(q, t) \in Seq(S) /\ Len(Append(q, t)) = Len(q) + 1
      /\ Append(q, t)[Len(q) + 1] = t
  OBVIOUS
<1> QED
  BY <1>1, <1>2 DEF Once

-----------------------------------------------------------------------------
(* Moving a thread *)

\* The one kind of move there is keeps every thread in one queue and there once
\* (queue_remove and queue_insert of sthread_user.c).
LEMMA MoveLinesUp ==
  ASSUME NEW queues, NEW all, LinedUp(queues, all),
         NEW j \in Keys, NEW k \in Keys, j # k, queues[j] # << >>
  PROVE  LinedUp(Move(queues, j, k), all)
<1> DEFINE t == Head(queues[j])
           after == Move(queues, j, k)
<1>1. queues \in [Keys -> Seq(all)] /\ Once(queues[j]) /\ Once(queues[k])
  BY DEF LinedUp
<1>2. /\ t \in all /\ t \in ToSet(queues[j])
      /\ Tail(queues[j]) \in Seq(all) /\ Once(Tail(queues[j]))
      /\ ToSet(Tail(queues[j])) = ToSet(queues[j]) \ {t}
  BY <1>1, TailSet
<1>3. t \notin ToSet(queues[k])
  BY <1>2 DEF LinedUp
<1>4. /\ Append(queues[k], t) \in Seq(all) /\ Once(Append(queues[k], t))
      /\ ToSet(Append(queues[k], t)) = ToSet(queues[k]) \cup {t}
  BY <1>1, <1>2, <1>3, AppendOnce, AppendSet
<1>5. /\ after \in [Keys -> Seq(all)]
      /\ after[j] = Tail(queues[j]) /\ after[k] = Append(queues[k], t)
      /\ \A i \in Keys : i # j /\ i # k => after[i] = queues[i]
  BY <1>1, <1>2, <1>4 DEF Move
<1>6. \A i \in Keys : Once(after[i])
  BY <1>2, <1>4, <1>5 DEF LinedUp
<1>7. \A i \in Keys : \A u \in all :
          u \in ToSet(after[i]) <=> IF u = t THEN i = k ELSE u \in ToSet(queues[i])
  BY ZenonT(60), <1>2, <1>3, <1>4, <1>5 DEF LinedUp
<1> HIDE DEF t, after
<1>8. \A h, i \in Keys : \A u \in all :
          u \in ToSet(after[h]) /\ u \in ToSet(after[i]) => h = i
  BY <1>7 DEF LinedUp
<1>9. \A u \in all : \E i \in Keys : u \in ToSet(after[i])
  BY <1>7 DEF LinedUp
<1> QED
  BY <1>5, <1>6, <1>8, <1>9 DEF LinedUp, after

-----------------------------------------------------------------------------
(* The queues by name *)

\* The queues have different names.
LEMMA KeysDiffer ==
  /\ {ActiveKey, ExeKey, SleepKey} \subseteq Keys
  /\ \A m \in Monitors : LockKey(m) \in Keys /\ WaitKey(m) \in Keys
  /\ ActiveKey # ExeKey /\ ActiveKey # SleepKey /\ ExeKey # SleepKey
  /\ \A m : LockKey(m) \notin {ActiveKey, ExeKey, SleepKey}
  /\ \A m : WaitKey(m) \notin {ActiveKey, ExeKey, SleepKey}
  /\ \A m, n : LockKey(m) # WaitKey(n)
  /\ \A m, n : m # n => LockKey(m) # LockKey(n) /\ WaitKey(m) # WaitKey(n)
BY DEF Keys, ActiveKey, ExeKey, SleepKey, LockKey, WaitKey

\* What the queue of each name is.
LEMMA QueuesAt ==
  /\ OnKeys(Queues)
  /\ Queues[ActiveKey] = <<active>>
  /\ Queues[ExeKey] = exe
  /\ Queues[SleepKey] = sleeping
  /\ \A m \in Monitors : Queues[LockKey(m)] = lockQ[m] /\ Queues[WaitKey(m)] = monQ[m]
<1>1. /\ ActiveKey[1] = "active" /\ ExeKey[1] = "exe" /\ SleepKey[1] = "sleep"
      /\ \A m : LockKey(m)[1] = "lock" /\ LockKey(m)[2] = m
      /\ \A m : WaitKey(m)[1] = "wait" /\ WaitKey(m)[2] = m
  BY DEF ActiveKey, ExeKey, SleepKey, LockKey, WaitKey
<1>2. OnKeys(Queues)
  BY DEF Queues, OnKeys
<1>3. Queues[ActiveKey] = <<active>> /\ Queues[ExeKey] = exe /\ Queues[SleepKey] = sleeping
  BY <1>1, KeysDiffer DEF Queues, QueueAt
<1>4. ASSUME NEW m \in Monitors
      PROVE  Queues[LockKey(m)] = lockQ[m] /\ Queues[WaitKey(m)] = monQ[m]
  BY <1>1, KeysDiffer DEF Queues, QueueAt
<1> QED
  BY <1>2, <1>3, <1>4

\* The active thread goes to queue k and the first executable one follows it.
Block(queues, k) == Move(Move(queues, ActiveKey, k), ExeKey, ActiveKey)

\* A thread that blocks leaves the processor to the first executable one; nobody is lost.
LEMMA BlockLinesUp ==
  ASSUME NEW queues, NEW all, LinedUp(queues, all),
         queues[ActiveKey] = <<active>>, queues[ExeKey] # << >>,
         NEW k \in Keys \ {ActiveKey, ExeKey}
  PROVE  /\ LinedUp(Block(queues, k), all)
         /\ OnKeys(Block(queues, k))
         /\ Block(queues, k)[ActiveKey] = <<Head(queues[ExeKey])>>
         /\ Block(queues, k)[ExeKey] = Tail(queues[ExeKey])
         /\ Block(queues, k)[k] = Append(queues[k], active)
         /\ \A i \in Keys \ {ActiveKey, ExeKey, k} : Block(queues, k)[i] = queues[i]
<1> DEFINE left == Move(queues, ActiveKey, k)
<1>1. ActiveKey \in Keys /\ ExeKey \in Keys /\ ActiveKey # ExeKey
  BY KeysDiffer
<1>2. queues \in [Keys -> Seq(all)]
  BY DEF LinedUp
<1>3. LinedUp(left, all)
  BY <1>1, MoveLinesUp
<1>4. /\ left[ActiveKey] = << >> /\ left[k] = Append(queues[k], active)
      /\ \A i \in Keys \ {ActiveKey, k} : left[i] = queues[i]
  <2>1. /\ left[ActiveKey] = Tail(queues[ActiveKey])
        /\ left[k] = Append(queues[k], Head(queues[ActiveKey]))
        /\ \A i \in Keys \ {ActiveKey, k} : left[i] = queues[i]
    BY <1>1, <1>2 DEF Move
  <2>2. Tail(<<active>>) = << >> /\ Head(<<active>>) = active
    OBVIOUS
  <2> QED
    BY <2>1, <2>2
<1> HIDE DEF left
<1>5. left \in [Keys -> Seq(all)] /\ left[ExeKey] = queues[ExeKey] /\ left[ExeKey] # << >>
  BY <1>1, <1>3, <1>4 DEF LinedUp
<1>6. LinedUp(Move(left, ExeKey, ActiveKey), all)
  BY <1>1, <1>3, <1>5, MoveLinesUp
<1>7. /\ OnKeys(Move(left, ExeKey, ActiveKey))
      /\ Move(left, ExeKey, ActiveKey)[ExeKey] = Tail(left[ExeKey])
      /\ Move(left, ExeKey, ActiveKey)[ActiveKey] = Append(left[ActiveKey], Head(left[ExeKey]))
      /\ \A i \in Keys \ {ActiveKey, ExeKey} :
             Move(left, ExeKey, ActiveKey)[i] = left[i]
  BY <1>1, <1>5 DEF Move, OnKeys
<1>8. Append(<< >>, Head(queues[ExeKey])) = <<Head(queues[ExeKey])>>
  OBVIOUS
<1> QED
  BY <1>4, <1>5, <1>6, <1>7, <1>8 DEF Block, left

\* The queues after the head of m's mutex queue was made executable.
Passed(m) ==
  IF lockQ[m] = << >> THEN Queues ELSE Move(Queues, LockKey(m), ExeKey)

\* Passing a monitor on moves at most the first that waits for its lock.
LEMMA PassedLinesUp ==
  ASSUME NEW m \in Monitors, NEW all, LinedUp(Queues, all)
  PROVE  /\ LinedUp(Passed(m), all)
         /\ OnKeys(Passed(m))
         /\ Passed(m)[ExeKey] = ReadyAfterUnlock(m)
         /\ Passed(m)[LockKey(m)] = RestOf(lockQ[m])
         /\ \A i \in Keys \ {ExeKey, LockKey(m)} : Passed(m)[i] = Queues[i]
<1>1. CASE lockQ[m] = << >>
  BY <1>1, QueuesAt, KeysDiffer DEF Passed, ReadyAfterUnlock, RestOf
<1>2. CASE lockQ[m] # << >>
  <2>1. Passed(m) = Move(Queues, LockKey(m), ExeKey)
    BY <1>2 DEF Passed
  <2>2. /\ LockKey(m) \in Keys /\ ExeKey \in Keys /\ LockKey(m) # ExeKey
        /\ Queues[LockKey(m)] = lockQ[m] /\ Queues[ExeKey] = exe
    BY KeysDiffer, QueuesAt
  <2>3. Queues \in [Keys -> Seq(all)]
    BY DEF LinedUp
  <2>4. ReadyAfterUnlock(m) = Append(exe, Head(lockQ[m])) /\ RestOf(lockQ[m]) = Tail(lockQ[m])
    BY <1>2 DEF ReadyAfterUnlock, RestOf
  <2>5. LinedUp(Passed(m), all)
    BY <1>2, <2>1, <2>2, MoveLinesUp
  <2> QED
    BY <2>1, <2>2, <2>3, <2>4, <2>5 DEF Move, OnKeys
<1> QED
  BY <1>1, <1>2

-----------------------------------------------------------------------------
(* The calls that leave the process running *)

\* Queues after a step, named one by one.
LEMMA QueuesAfter ==
  ASSUME NEW queues, OnKeys(queues),
         queues[ActiveKey] = <<active'>>,
         queues[ExeKey] = exe',
         queues[SleepKey] = sleeping',
         \A m \in Monitors : queues[LockKey(m)] = lockQ'[m] /\ queues[WaitKey(m)] = monQ'[m]
  PROVE  Queues' = queues
<1>1. /\ ActiveKey[1] = "active" /\ ExeKey[1] = "exe" /\ SleepKey[1] = "sleep"
      /\ \A m : LockKey(m)[1] = "lock" /\ LockKey(m)[2] = m
      /\ \A m : WaitKey(m)[1] = "wait" /\ WaitKey(m)[2] = m
  BY DEF ActiveKey, ExeKey, SleepKey, LockKey, WaitKey
<1>2. ASSUME NEW k \in Keys
      PROVE  queues[k] = QueueAt(k)'
  <2>1. CASE k \in {ActiveKey, ExeKey, SleepKey}
    BY <1>1, <2>1 DEF QueueAt
  <2>2. CASE \E m \in Monitors : k = LockKey(m) \/ k = WaitKey(m)
    BY <1>1, <2>2 DEF QueueAt
  <2> QED
    BY <2>1, <2>2 DEF Keys
<1> QED
  BY <1>2 DEF Queues, OnKeys

\* sthread_user_sleep keeps everybody in one queue.
LEMMA SleepLinesUp ==
  ASSUME NEW n, Sleep(n), Up', LinedUp(Queues, created)
  PROVE  LinedUp(Queues, created)'
<1>1. /\ exe # << >> /\ active' = Head(exe) /\ exe' = Tail(exe)
      /\ sleeping' = Append(sleeping, active)
      /\ UNCHANGED <<created, lockQ, monQ>>
  BY DEF Sleep, SwitchToReady, Up, monitors
<1>2. SleepKey \in Keys \ {ActiveKey, ExeKey} /\ Queues[ExeKey] = exe /\ Queues[ActiveKey] = <<active>>
  BY KeysDiffer, QueuesAt
<1> DEFINE after == Block(Queues, SleepKey)
<1>3. /\ LinedUp(after, created)
      /\ OnKeys(after)
      /\ after[ActiveKey] = <<Head(exe)>>
      /\ after[ExeKey] = Tail(exe)
      /\ after[SleepKey] = Append(Queues[SleepKey], active)
      /\ \A i \in Keys \ {ActiveKey, ExeKey, SleepKey} : after[i] = Queues[i]
  BY <1>1, <1>2, BlockLinesUp
<1> HIDE DEF after
<1>4. Queues' = after
  BY <1>1, <1>3, QueuesAt, KeysDiffer, QueuesAfter
<1> QED
  BY <1>1, <1>3, <1>4 DEF LinedUp

\* sthread_user_monitor_enter keeps everybody in one queue, whether it blocks or not.
LEMMA LockLinesUp ==
  ASSUME NEW m \in Monitors, Lock(m), Up', LinedUp(Queues, created),
         lockQ \in [Monitors -> Seq(Threads)]
  PROVE  LinedUp(Queues, created)'
<1>1. CASE owner[m] = NoThread
  <2>1. UNCHANGED <<created, active, exe, sleeping, lockQ, monQ>>
    BY <1>1 DEF Lock, lists
  <2>2. OnKeys(Queues)
    BY QueuesAt
  <2>3. Queues' = Queues
    BY <2>1, <2>2, QueuesAt, QueuesAfter
  <2> QED
    BY <2>1, <2>3 DEF LinedUp
<1>2. CASE owner[m] # NoThread
  <2>1. /\ exe # << >> /\ active' = Head(exe) /\ exe' = Tail(exe)
        /\ lockQ' = [lockQ EXCEPT ![m] = Append(@, active)]
        /\ UNCHANGED <<created, sleeping, monQ>>
    BY <1>2 DEF Lock, SwitchToReady, Up, lists
  <2>2. /\ LockKey(m) \in Keys \ {ActiveKey, ExeKey}
        /\ Queues[ExeKey] = exe /\ Queues[ActiveKey] = <<active>>
        /\ Queues[LockKey(m)] = lockQ[m]
    BY KeysDiffer, QueuesAt
  <2> DEFINE after == Block(Queues, LockKey(m))
  <2>3. /\ LinedUp(after, created)
        /\ OnKeys(after)
        /\ after[ActiveKey] = <<Head(exe)>>
        /\ after[ExeKey] = Tail(exe)
        /\ after[LockKey(m)] = Append(lockQ[m], active)
        /\ \A i \in Keys \ {ActiveKey, ExeKey, LockKey(m)} : after[i] = Queues[i]
    BY ZenonT(60), <2>1, <2>2, BlockLinesUp
  <2> HIDE DEF after
  <2>4. \A k \in Monitors : after[LockKey(k)] = lockQ'[k] /\ after[WaitKey(k)] = monQ'[k]
    BY ZenonT(60), <2>1, <2>3, QueuesAt, KeysDiffer
  <2>5. Queues' = after
    BY <2>1, <2>3, <2>4, QueuesAt, KeysDiffer, QueuesAfter
  <2> QED
    BY <2>1, <2>3, <2>5 DEF LinedUp
<1> QED
  BY <1>1, <1>2

\* sthread_user_monitor_exit keeps everybody in one queue.
LEMMA UnlockLinesUp ==
  ASSUME NEW m \in Monitors, Unlock(m), LinedUp(Queues, created),
         lockQ \in [Monitors -> Seq(Threads)]
  PROVE  LinedUp(Queues, created)'
<1>1. /\ exe' = ReadyAfterUnlock(m) /\ lockQ' = [lockQ EXCEPT ![m] = RestOf(@)]
      /\ UNCHANGED <<created, active, sleeping, monQ>>
  BY DEF Unlock, PassOn, lists
<1>2. /\ LinedUp(Passed(m), created)
      /\ OnKeys(Passed(m))
      /\ Passed(m)[ExeKey] = ReadyAfterUnlock(m)
      /\ Passed(m)[LockKey(m)] = RestOf(lockQ[m])
      /\ \A i \in Keys \ {ExeKey, LockKey(m)} : Passed(m)[i] = Queues[i]
  BY PassedLinesUp
<1>3. \A k \in Monitors :
          Passed(m)[LockKey(k)] = lockQ'[k] /\ Passed(m)[WaitKey(k)] = monQ'[k]
  BY <1>1, <1>2, QueuesAt, KeysDiffer
<1>4. Queues' = Passed(m)
  BY <1>1, <1>2, <1>3, QueuesAt, KeysDiffer, QueuesAfter
<1> QED
  BY <1>1, <1>2, <1>4 DEF LinedUp

\* sthread_user_monitor_wait, which passes the monitor on and then blocks, keeps everybody
\* in one queue.
LEMMA WaitLinesUp ==
  ASSUME NEW m \in Monitors, Wait(m), Up', LinedUp(Queues, created),
         lockQ \in [Monitors -> Seq(Threads)], monQ \in [Monitors -> Seq(Threads)]
  PROVE  LinedUp(Queues, created)'
<1> DEFINE ready == ReadyAfterUnlock(m)
           passed == Passed(m)
           after == Block(passed, WaitKey(m))
<1>1. /\ ready # << >> /\ active' = Head(ready) /\ exe' = Tail(ready)
      /\ lockQ' = [lockQ EXCEPT ![m] = RestOf(@)]
      /\ monQ' = [monQ EXCEPT ![m] = Append(@, active)]
      /\ UNCHANGED <<created, sleeping>>
  BY DEF Wait, PassOn, SwitchToReady, Up, lists
<1>2. /\ LinedUp(passed, created)
      /\ passed[ExeKey] = ready
      /\ passed[LockKey(m)] = RestOf(lockQ[m])
      /\ \A i \in Keys \ {ExeKey, LockKey(m)} : passed[i] = Queues[i]
  BY PassedLinesUp
<1>3. /\ WaitKey(m) \in Keys \ {ActiveKey, ExeKey}
      /\ passed[ActiveKey] = <<active>>
      /\ passed[WaitKey(m)] = monQ[m]
  BY <1>2, KeysDiffer, QueuesAt
<1> HIDE DEF ready, passed
<1>4. /\ LinedUp(after, created)
      /\ OnKeys(after)
      /\ after[ActiveKey] = <<Head(ready)>>
      /\ after[ExeKey] = Tail(ready)
      /\ after[WaitKey(m)] = Append(monQ[m], active)
      /\ \A i \in Keys \ {ActiveKey, ExeKey, WaitKey(m)} : after[i] = passed[i]
  <2> DEFINE k == WaitKey(m)
  <2>1. /\ LinedUp(passed, created) /\ passed[ActiveKey] = <<active>>
        /\ passed[ExeKey] # << >> /\ k \in Keys \ {ActiveKey, ExeKey}
    BY <1>1, <1>2, <1>3
  <2> HIDE DEF k
  <2>2. /\ LinedUp(Block(passed, k), created)
        /\ OnKeys(Block(passed, k))
        /\ Block(passed, k)[ActiveKey] = <<Head(passed[ExeKey])>>
        /\ Block(passed, k)[ExeKey] = Tail(passed[ExeKey])
        /\ Block(passed, k)[k] = Append(passed[k], active)
        /\ \A i \in Keys \ {ActiveKey, ExeKey, k} : Block(passed, k)[i] = passed[i]
    BY <2>1, BlockLinesUp
  <2> QED
    BY <1>2, <1>3, <2>2 DEF k
<1> HIDE DEF after
<1>5. /\ after[LockKey(m)] = RestOf(lockQ[m]) /\ after[SleepKey] = sleeping
      /\ \A k \in Monitors \ {m} : after[LockKey(k)] = lockQ[k] /\ after[WaitKey(k)] = monQ[k]
  <2>1. \A i \in Keys \ {ActiveKey, ExeKey, WaitKey(m), LockKey(m)} : after[i] = Queues[i]
    BY <1>2, <1>4
  <2>2. after[LockKey(m)] = passed[LockKey(m)]
    BY <1>4, KeysDiffer
  <2>3. after[SleepKey] = Queues[SleepKey]
    BY <2>1, KeysDiffer
  <2>4. ASSUME NEW k \in Monitors \ {m}
        PROVE  after[LockKey(k)] = Queues[LockKey(k)] /\ after[WaitKey(k)] = Queues[WaitKey(k)]
    BY <2>1, KeysDiffer
  <2> QED
    BY <1>2, <2>2, <2>3, <2>4, QueuesAt
<1>6. \A k \in Monitors : after[LockKey(k)] = lockQ'[k] /\ after[WaitKey(k)] = monQ'[k]
  BY <1>1, <1>4, <1>5
<1>7. Queues' = after
  BY <1>1, <1>4, <1>5, <1>6, QueuesAfter
<1> QED
  BY <1>1, <1>4, <1>7 DEF LinedUp

\* sthread_user_monitor_signal, from the waiting ones to the lock, keeps everybody in one queue.
LEMMA SignalLinesUp ==
  ASSUME NEW m \in Monitors, Signal(m), LinedUp(Queues, created),
         lockQ \in [Monitors -> Seq(Threads)], monQ \in [Monitors -> Seq(Threads)]
  PROVE  LinedUp(Queues, created)'
<1> DEFINE after == Move(Queues, WaitKey(m), LockKey(m))
<1>1. /\ monQ[m] # << >> /\ monQ' = [monQ EXCEPT ![m] = Tail(@)]
      /\ lockQ' = [lockQ EXCEPT ![m] = Append(@, Head(monQ[m]))]
      /\ UNCHANGED <<created, active, exe, sleeping>>
  BY DEF Signal, lists
<1>2. /\ WaitKey(m) \in Keys /\ LockKey(m) \in Keys /\ WaitKey(m) # LockKey(m)
      /\ Queues[WaitKey(m)] = monQ[m] /\ Queues[LockKey(m)] = lockQ[m]
  BY KeysDiffer, QueuesAt
<1>3. LinedUp(after, created)
  BY <1>1, <1>2, MoveLinesUp
<1>4. /\ OnKeys(after)
      /\ after[WaitKey(m)] = Tail(monQ[m])
      /\ after[LockKey(m)] = Append(lockQ[m], Head(monQ[m]))
      /\ \A i \in Keys \ {WaitKey(m), LockKey(m)} : after[i] = Queues[i]
  BY <1>2 DEF Move, OnKeys, LinedUp
<1> HIDE DEF after
<1>5. /\ after[ActiveKey] = <<active>> /\ after[ExeKey] = exe /\ after[SleepKey] = sleeping
      /\ \A k \in Monitors \ {m} : after[LockKey(k)] = lockQ[k] /\ after[WaitKey(k)] = monQ[k]
  BY ZenonT(60), <1>4, QueuesAt, KeysDiffer
<1>6. \A k \in Monitors : after[LockKey(k)] = lockQ'[k] /\ after[WaitKey(k)] = monQ'[k]
  BY <1>1, <1>4, <1>5
<1>7. Queues' = after
  BY <1>1, <1>4, <1>5, <1>6, QueuesAfter
<1> QED
  BY <1>1, <1>3, <1>7 DEF LinedUp

\* sthread_user_create adds one thread, to the executable ones only.
LEMMA CreateLinesUp ==
  ASSUME NEW t \in Threads, Create(t), LinedUp(Queues, created)
  PROVE  LinedUp(Queues, created)'
<1> DEFINE after == [Queues EXCEPT ![ExeKey] = Append(@, t)]
           all == created \cup {t}
<1>1. /\ t \notin created /\ created' = all /\ exe' = Append(exe, t)
      /\ UNCHANGED <<active, sleeping, lockQ, monQ>>
  BY DEF Create, lists, monitors
<1>2. /\ ExeKey \in Keys /\ Queues[ExeKey] = exe
      /\ Queues \in [Keys -> Seq(created)] /\ exe \in Seq(created) /\ Once(exe)
  BY KeysDiffer, QueuesAt DEF LinedUp
<1>3. Seq(created) \subseteq Seq(all)
  OBVIOUS
<1>4. \A k \in Keys : ToSet(Queues[k]) \subseteq created
  BY <1>2 DEF ToSet
<1>5. /\ Append(exe, t) \in Seq(all) /\ Once(Append(exe, t))
      /\ ToSet(Append(exe, t)) = ToSet(exe) \cup {t}
  BY <1>1, <1>2, <1>3, <1>4, AppendOnce, AppendSet
<1>6. /\ after \in [Keys -> Seq(all)] /\ OnKeys(after) /\ after[ExeKey] = Append(exe, t)
      /\ \A k \in Keys \ {ExeKey} : after[k] = Queues[k]
  BY <1>2, <1>3, <1>5 DEF OnKeys
<1> HIDE DEF after
<1>7. \A k \in Keys : Once(after[k])
  BY <1>5, <1>6 DEF LinedUp
<1>8. \A k \in Keys : \A u \in all :
          u \in ToSet(after[k]) <=> IF u = t THEN k = ExeKey ELSE u \in ToSet(Queues[k])
  BY <1>1, <1>2, <1>4, <1>5, <1>6
<1>9. LinedUp(after, all)
  <2>1. \A j, k \in Keys : \A u \in all :
            u \in ToSet(after[j]) /\ u \in ToSet(after[k]) => j = k
    BY <1>8 DEF LinedUp
  <2>2. \A u \in all : \E k \in Keys : u \in ToSet(after[k])
    BY <1>2, <1>8 DEF LinedUp
  <2> QED
    BY <1>6, <1>7, <2>1, <2>2 DEF LinedUp
<1>10. \A k \in Monitors : after[LockKey(k)] = lockQ'[k] /\ after[WaitKey(k)] = monQ'[k]
  BY <1>1, <1>6, QueuesAt, KeysDiffer
<1>11. Queues' = after
  BY <1>1, <1>6, <1>10, QueuesAt, KeysDiffer, QueuesAfter
<1> QED
  BY <1>1, <1>9, <1>11 DEF LinedUp

-----------------------------------------------------------------------------
(* The invariant *)

\* At the start the main thread is the active one and all queues are empty.
LEMMA InitInv == Init => IInv
<1> SUFFICES ASSUME Init PROVE IInv
  OBVIOUS
<1>1. /\ created = {Main} /\ active = Main /\ exe = << >> /\ sleeping = << >>
      /\ lockQ = [m \in Monitors |-> << >>] /\ monQ = [m \in Monitors |-> << >>]
  BY DEF Init
<1>2. <<Main>> \in Seq({Main}) /\ << >> \in Seq({Main}) /\ << >> \in Seq(Threads)
  OBVIOUS
<1>3. ToSet(<<Main>>) = {Main} /\ ToSet(<< >>) = {} /\ Once(<<Main>>) /\ Once(<< >>)
  BY DEF ToSet, Once
<1>4. ASSUME NEW k \in Keys
      PROVE  Queues[k] = IF k = ActiveKey THEN <<Main>> ELSE << >>
  <2>1. CASE k \in {ActiveKey, ExeKey, SleepKey}
    BY <1>1, <2>1, QueuesAt, KeysDiffer
  <2>2. CASE \E m \in Monitors : k = LockKey(m) \/ k = WaitKey(m)
    BY <1>1, <2>2, QueuesAt, KeysDiffer
  <2> QED
    BY <2>1, <2>2 DEF Keys
<1>5. ActiveKey \in Keys /\ OnKeys(Queues)
  BY KeysDiffer, QueuesAt
<1>6. Queues \in [Keys -> Seq({Main})]
  BY <1>2, <1>4, <1>5 DEF OnKeys
<1>7. LinedUp(Queues, created)
  BY <1>1, <1>3, <1>4, <1>5, <1>6 DEF LinedUp
<1> QED
  BY <1>1, <1>2, <1>7, UserThreadsAssumption DEF IInv

\* What the queues hold are threads.
LEMMA QueuedAreThreads ==
  ASSUME Up, IInv
  PROVE  /\ active \in created /\ active \in Threads
         /\ sleeping \in Seq(created)
         /\ \A m \in Monitors : /\ lockQ[m] \in Seq(created) /\ Once(lockQ[m])
                               /\ monQ[m] \in Seq(created) /\ Once(monQ[m])
                               /\ active \notin ToSet(lockQ[m]) \cup ToSet(monQ[m])
<1>1. LinedUp(Queues, created) /\ created \subseteq Threads
  BY DEF IInv
<1>2. \A k \in Keys : Queues[k] \in Seq(created) /\ Once(Queues[k])
  BY <1>1 DEF LinedUp
<1>3. <<active>> \in Seq(created) /\ sleeping \in Seq(created)
  BY <1>2, QueuesAt, KeysDiffer
<1>4. active \in created /\ active \in ToSet(Queues[ActiveKey])
  <2>1. Len(<<active>>) = 1 /\ <<active>>[1] = active
    OBVIOUS
  <2> QED
    BY <1>3, <2>1, QueuesAt DEF ToSet
<1>5. \A k \in Keys \ {ActiveKey} : active \notin ToSet(Queues[k])
  BY <1>1, <1>4, KeysDiffer DEF LinedUp
<1>6. ASSUME NEW m \in Monitors
      PROVE  /\ lockQ[m] \in Seq(created) /\ Once(lockQ[m])
             /\ monQ[m] \in Seq(created) /\ Once(monQ[m])
             /\ active \notin ToSet(lockQ[m]) \cup ToSet(monQ[m])
  BY <1>2, <1>5, QueuesAt, KeysDiffer
<1> QED
  BY <1>1, <1>3, <1>4, <1>6

\* A call that goes to the scheduler ends the process.
LEMMA ScheduleEnds ==
  ASSUME NEW ready, Schedule(ready)
  PROVE  process' # "up"
BY DEF Schedule

\* Every call and every tick preserves the invariant.
LEMMA StepInv == IInv /\ [Next]_vars => IInv'
<1> SUFFICES ASSUME IInv, [Next]_vars, Up' PROVE IInv'
  BY DEF IInv
<1>1. CASE UNCHANGED vars
  BY <1>1 DEF IInv, vars, lists, fields, monitors, LinedUp, Queues, QueueAt, Up
<1>2. CASE Next
  <2>1. Up
    BY <1>2 DEF Next, Create, Join, Sleep, Lock, Unlock, Wait, Signal, YieldCall, Exit, Tick
  <2>2. /\ created \subseteq Threads /\ LinedUp(Queues, created)
        /\ lockQ \in [Monitors -> Seq(Threads)] /\ monQ \in [Monitors -> Seq(Threads)]
    BY <2>1 DEF IInv
  <2>3. active \in Threads
    BY <2>1, QueuedAreThreads
  <2>4. ASSUME NEW t \in Threads, Create(t)
        PROVE  IInv'
    <3>1. LinedUp(Queues, created)'
      BY <2>2, <2>4, CreateLinesUp
    <3> QED
      BY <2>2, <2>4, <3>1 DEF Create, IInv, monitors
  <2>5. ASSUME NEW t \in Threads, Join(t)
        PROVE  IInv'
    <3>1. UNCHANGED <<created, active, exe, sleeping, lockQ, monQ>>
      BY <2>5, ScheduleEnds DEF Join, Up, monitors
    <3>2. Queues' = Queues
      BY <3>1, QueuesAt, QueuesAfter
    <3> QED
      BY <2>2, <3>1, <3>2 DEF IInv, LinedUp
  <2>6. ASSUME NEW n \in SleepTicks, Sleep(n)
        PROVE  IInv'
    <3>1. LinedUp(Queues, created)'
      BY <2>2, <2>6, SleepLinesUp
    <3> QED
      BY <2>2, <2>6, <3>1 DEF Sleep, IInv, monitors
  <2>7. ASSUME NEW m \in Monitors, Lock(m)
        PROVE  IInv'
    <3>1. LinedUp(Queues, created)'
      BY <2>2, <2>7, LockLinesUp
    <3>2. Append(lockQ[m], active) \in Seq(Threads)
      BY <2>2, <2>3
    <3>3. lockQ' = lockQ \/ lockQ' = [lockQ EXCEPT ![m] = Append(@, active)]
      BY <2>7 DEF Lock
    <3>4. lockQ' \in [Monitors -> Seq(Threads)]
      BY <2>2, <3>2, <3>3
    <3> QED
      BY <2>2, <2>7, <3>1, <3>4 DEF Lock, IInv
  <2>8. ASSUME NEW m \in Monitors, PassOn(m)
        PROVE  lockQ' \in [Monitors -> Seq(Threads)]
    <3>1. lockQ[m] \in Seq(Threads)
      BY <2>2
    <3>2. RestOf(lockQ[m]) \in Seq(Threads)
      BY <3>1 DEF RestOf
    <3> QED
      BY <2>2, <2>8, <3>2 DEF PassOn
  <2>9. ASSUME NEW m \in Monitors, Unlock(m)
        PROVE  IInv'
    <3>1. LinedUp(Queues, created)'
      BY <2>2, <2>9, UnlockLinesUp
    <3> QED
      BY <2>2, <2>8, <2>9, <3>1 DEF Unlock, IInv
  <2>10. ASSUME NEW m \in Monitors, Wait(m)
         PROVE  IInv'
    <3>1. LinedUp(Queues, created)'
      BY <2>2, <2>10, WaitLinesUp
    <3>2. Append(monQ[m], active) \in Seq(Threads)
      BY <2>2, <2>3
    <3>3. monQ' \in [Monitors -> Seq(Threads)]
      BY <2>2, <2>10, <3>2 DEF Wait
    <3> QED
      BY <2>2, <2>8, <2>10, <3>1, <3>3 DEF Wait, IInv
  <2>11. ASSUME NEW m \in Monitors, Signal(m)
         PROVE  IInv'
    <3>1. LinedUp(Queues, created)'
      BY <2>2, <2>11, SignalLinesUp
    <3>2. lockQ[m] \in Seq(Threads) /\ monQ[m] \in Seq(Threads) /\ monQ[m] # << >>
      BY <2>2, <2>11 DEF Signal
    <3>3. Append(lockQ[m], Head(monQ[m])) \in Seq(Threads) /\ Tail(monQ[m]) \in Seq(Threads)
      BY <3>2
    <3> QED
      BY <2>2, <2>11, <3>1, <3>3 DEF Signal, IInv
  <2>12. ~YieldCall /\ ~Tick
    BY ScheduleEnds DEF YieldCall, Tick, Yield, Up
  <2>13. ~Exit
    BY ScheduleEnds DEF Exit, Up
  <2> QED
    BY <1>2, <2>4, <2>5, <2>6, <2>7, <2>9, <2>10, <2>11, <2>12, <2>13 DEF Next
<1> QED
  BY <1>1, <1>2

\* The invariant holds in every reachable state.
LEMMA Invariance == Spec => []IInv
BY InitInv, StepInv, PTL DEF Spec

-----------------------------------------------------------------------------
(* The theorems *)

\* While the process runs every thread is active or once in one list of the
\* library, whatever the calls (sthread_user.c:301-346, 397-515, 555-660).
THEOREM NobodyIsLost == Spec => []ThreadInOnePlace
<1>1. ASSUME IInv, Up, NEW t \in created
      PROVE  Cardinality(PlacesOf(t)) = 1
  <2>1. LinedUp(Queues, created)
    BY <1>1 DEF IInv
  <2>2. PICK k \in Keys : t \in ToSet(Queues[k])
    BY <1>1, <2>1 DEF LinedUp
  <2>3. PICK i \in DOMAIN Queues[k] : Queues[k][i] = t
    BY <2>2 DEF ToSet
  <2>4. Places = {<<j[1], j[2], Queues[j]>> : j \in Keys}
    <3>1. /\ Places = {<<"active", NoThread, <<active>>>>, <<"exe", NoThread, exe>>,
                       <<"sleep", NoThread, sleeping>>} \cup
                      {<<"lock", m, lockQ[m]>> : m \in Monitors} \cup
                      {<<"wait", m, monQ[m]>> : m \in Monitors}
      BY DEF Places
    <3> DEFINE named(j) == <<j[1], j[2], Queues[j]>>
    <3>2. /\ named(ActiveKey) = <<"active", NoThread, <<active>>>>
          /\ named(ExeKey) = <<"exe", NoThread, exe>>
          /\ named(SleepKey) = <<"sleep", NoThread, sleeping>>
          /\ \A m \in Monitors : /\ named(LockKey(m)) = <<"lock", m, lockQ[m]>>
                                /\ named(WaitKey(m)) = <<"wait", m, monQ[m]>>
      BY QueuesAt DEF ActiveKey, ExeKey, SleepKey, LockKey, WaitKey
    <3> HIDE DEF named
    <3>3. Places = {named(j) : j \in Keys}
      BY <3>1, <3>2 DEF Keys
    <3> QED
      BY <3>3 DEF named
  <2>5. ASSUME NEW e
        PROVE  e \in PlacesOf(t) <=>
                 \E j \in Keys : \E n \in DOMAIN Queues[j] :
                     Queues[j][n] = t /\ e = <<j[1], j[2], n>>
    <3> DEFINE place(j) == <<j[1], j[2], Queues[j]>>
               holds(p) == \E n \in DOMAIN p[3] : p[3][n] = t /\ e = <<p[1], p[2], n>>
    <3>1. e \in PlacesOf(t) <=> \E p \in Places : holds(p)
      BY DEF PlacesOf
    <3>2. Places = {place(j) : j \in Keys}
      BY <2>4
    <3>3. \A j \in Keys : /\ place(j)[1] = j[1] /\ place(j)[2] = j[2]
                         /\ place(j)[3] = Queues[j]
      OBVIOUS
    <3> HIDE DEF place
    <3>4. ASSUME NEW j \in Keys
          PROVE  holds(place(j)) <=> \E n \in DOMAIN Queues[j] :
                                         Queues[j][n] = t /\ e = <<j[1], j[2], n>>
      BY <3>3
    <3> HIDE DEF holds
    <3> QED
      BY <3>1, <3>2, <3>4
  <2>6. ASSUME NEW j \in Keys, NEW n \in DOMAIN Queues[j], Queues[j][n] = t
        PROVE  j = k /\ n = i
    <3>1. t \in ToSet(Queues[j])
      BY <2>6 DEF ToSet
    <3>2. j = k
      BY <1>1, <2>1, <2>2, <3>1 DEF LinedUp
    <3> QED
      BY <2>1, <2>3, <2>6, <3>2 DEF LinedUp, Once
  <2>7. PlacesOf(t) = {<<k[1], k[2], i>>}
    BY <2>3, <2>5, <2>6
  <2> QED
    BY <2>7, FS_Singleton
<1>2. IInv => ThreadInOnePlace
  BY <1>1 DEF ThreadInOnePlace
<1> QED
  BY Invariance, <1>2, PTL

\* A thread that sleeps never runs again before the process ends
\* (sthread_user.c:263-295, 349-369, 495-515).
THEOREM NobodyWakesUp == Spec => SleepersSleepOn
<1>1. ASSUME IInv, [Next]_vars
      PROVE  [process' = "up" => ToSet(sleeping) \subseteq ToSet(sleeping')]_vars
  <2> SUFFICES ASSUME Next, process' = "up"
               PROVE  ToSet(sleeping) \subseteq ToSet(sleeping')
    BY <1>1
  <2>1. Up
    BY DEF Next, Create, Join, Sleep, Lock, Unlock, Wait, Signal, YieldCall, Exit, Tick
  <2>2. ASSUME NEW n \in SleepTicks, Sleep(n)
        PROVE  ToSet(sleeping) \subseteq ToSet(sleeping')
    <3>1. sleeping \in Seq(created) /\ active \in created
      BY <1>1, <2>1, QueuedAreThreads
    <3> QED
      BY <2>2, <3>1, AppendSet DEF Sleep
  <2>3. ~Tick
    BY ScheduleEnds DEF Tick, Yield
  <2>4. CASE ~\E n \in SleepTicks : Sleep(n)
    <3>1. sleeping' = sleeping
      BY <2>3, <2>4 DEF Next, Create, Join, Lock, Unlock, Wait, Signal, YieldCall, Exit, lists
    <3> QED
      BY <3>1
  <2> QED
    BY <2>2, <2>4
<1> QED
  BY Invariance, <1>1, PTL DEF Spec, SleepersSleepOn

\* What a step of the library is for the monitors.
MonitorStep == [Promised!Next]_<<owner, [m \in Monitors |-> ToSet(lockQ[m])],
                                [m \in Monitors |-> ToSet(monQ[m])]>>

\* PassOn gives the monitor to a thread that waited for it, which no longer waits.
LEMMA HandedOver ==
  ASSUME Up, IInv, NEW m \in Monitors, PassOn(m)
  PROVE  Promised!HandOver(m)
<1> DEFINE entering == [n \in Monitors |-> ToSet(lockQ[n])]
<1>1. /\ owner' = [owner EXCEPT ![m] = NextOwner(m)]
      /\ lockQ' = [lockQ EXCEPT ![m] = RestOf(@)]
      /\ lockQ \in [Monitors -> Seq(Threads)]
  BY DEF PassOn, IInv
<1>2. /\ NextOwner(m) \in IF ToSet(lockQ[m]) = {} THEN {NoThread} ELSE ToSet(lockQ[m])
      /\ ToSet(RestOf(lockQ[m])) = ToSet(lockQ[m]) \ {NextOwner(m)}
  <2>1. lockQ[m] \in Seq(created) /\ Once(lockQ[m])
    BY QueuedAreThreads
  <2>2. CASE lockQ[m] = << >>
    <3>1. ToSet(lockQ[m]) = {}
      BY <2>2 DEF ToSet
    <3> QED
      BY <2>2, <3>1 DEF NextOwner, RestOf
  <2>3. CASE lockQ[m] # << >>
    BY <2>1, <2>3, TailSet DEF NextOwner, RestOf
  <2> QED
    BY <2>2, <2>3
<1>3. entering' = [entering EXCEPT ![m] = @ \ {NextOwner(m)}]
  BY <1>1, <1>2
<1> QED
  BY <1>1, <1>2, <1>3 DEF Promised!HandOver

\* Every step is a step of the abstract monitors or leaves them alone.
LEMMA StepIsPromised == IInv /\ [Next]_vars => MonitorStep
<1> DEFINE entering == [m \in Monitors |-> ToSet(lockQ[m])]
           waiting == [m \in Monitors |-> ToSet(monQ[m])]
<1> SUFFICES ASSUME IInv, [Next]_vars PROVE MonitorStep
  OBVIOUS
<1>1. CASE UNCHANGED <<owner, lockQ, monQ>>
  BY <1>1 DEF MonitorStep
<1>2. ASSUME Up, NEW m \in Monitors, Lock(m)
      PROVE  MonitorStep
  <2>1. CASE owner[m] = NoThread
    <3>1. active \in Threads /\ active \notin entering[m] \cup waiting[m]
      BY <1>2, QueuedAreThreads
    <3>2. owner' = [owner EXCEPT ![m] = active] /\ UNCHANGED <<lockQ, monQ>>
      BY <1>2, <2>1 DEF Lock
    <3>3. Promised!Enter(m, active)
      BY <2>1, <3>1, <3>2 DEF Promised!Enter
    <3> QED
      BY <3>1, <3>3 DEF MonitorStep, Promised!Next
  <2>2. CASE owner[m] # NoThread
    <3>1. /\ active \in Threads /\ active \in created
          /\ active \notin entering[m] \cup waiting[m]
          /\ lockQ[m] \in Seq(created) /\ lockQ \in [Monitors -> Seq(Threads)]
      BY <1>2, QueuedAreThreads DEF IInv
    <3>2. lockQ' = [lockQ EXCEPT ![m] = Append(@, active)] /\ UNCHANGED <<owner, monQ>>
      BY <1>2, <2>2 DEF Lock
    <3>3. ToSet(Append(lockQ[m], active)) = ToSet(lockQ[m]) \cup {active}
      BY <3>1, AppendSet
    <3>4. entering' = [entering EXCEPT ![m] = @ \cup {active}]
      BY <3>1, <3>2, <3>3
    <3>5. Promised!Enter(m, active)
      BY <2>2, <3>1, <3>2, <3>4 DEF Promised!Enter
    <3> QED
      BY <3>1, <3>5 DEF MonitorStep, Promised!Next
  <2> QED
    BY <2>1, <2>2
<1>3. ASSUME Up, NEW m \in Monitors, Unlock(m)
      PROVE  MonitorStep
  <2>1. active \in Threads /\ Promised!HandOver(m)
    BY <1>3, QueuedAreThreads, HandedOver DEF Unlock
  <2>2. Promised!Exit(m, active)
    BY <1>3, <2>1 DEF Unlock, Promised!Exit
  <2> QED
    BY <2>1, <2>2 DEF MonitorStep, Promised!Next
<1>4. ASSUME Up, NEW m \in Monitors, Wait(m)
      PROVE  MonitorStep
  <2>1. /\ active \in Threads /\ active \in created
        /\ active \notin entering[m] \cup waiting[m]
        /\ monQ[m] \in Seq(created) /\ monQ \in [Monitors -> Seq(Threads)]
        /\ Promised!HandOver(m)
    BY <1>4, QueuedAreThreads, HandedOver DEF Wait, IInv
  <2>2. owner[m] = active /\ monQ' = [monQ EXCEPT ![m] = Append(@, active)]
    BY <1>4 DEF Wait
  <2>3. ToSet(Append(monQ[m], active)) = ToSet(monQ[m]) \cup {active}
    BY <2>1, AppendSet
  <2>4. waiting' = [waiting EXCEPT ![m] = @ \cup {active}]
    BY <2>1, <2>2, <2>3
  <2>5. Promised!Wait(m, active)
    BY <2>1, <2>2, <2>4 DEF Promised!Wait
  <2> QED
    BY <2>1, <2>5 DEF MonitorStep, Promised!Next
<1>5. ASSUME Up, NEW m \in Monitors, Signal(m)
      PROVE  MonitorStep
  <2> DEFINE t == Head(monQ[m])
  <2>1. /\ active \in Threads
        /\ monQ[m] \in Seq(created) /\ Once(monQ[m]) /\ lockQ[m] \in Seq(created)
        /\ lockQ \in [Monitors -> Seq(Threads)] /\ monQ \in [Monitors -> Seq(Threads)]
    BY <1>5, QueuedAreThreads DEF IInv
  <2>2. /\ owner[m] = active /\ monQ[m] # << >>
        /\ monQ' = [monQ EXCEPT ![m] = Tail(@)]
        /\ lockQ' = [lockQ EXCEPT ![m] = Append(@, t)]
        /\ UNCHANGED owner
    BY <1>5 DEF Signal
  <2>3. t \in ToSet(monQ[m]) /\ t \in created /\ ToSet(Tail(monQ[m])) = ToSet(monQ[m]) \ {t}
    BY <2>1, <2>2, TailSet
  <2>4. ToSet(Append(lockQ[m], t)) = ToSet(lockQ[m]) \cup {t}
    BY <2>1, <2>3, AppendSet
  <2>5. /\ entering' = [entering EXCEPT ![m] = @ \cup {t}]
        /\ waiting' = [waiting EXCEPT ![m] = @ \ {t}]
    BY <2>1, <2>2, <2>3, <2>4
  <2>6. Promised!Signal(m, active)
    BY <2>2, <2>3, <2>5 DEF Promised!Signal
  <2> QED
    BY <2>1, <2>6 DEF MonitorStep, Promised!Next
<1>6. CASE Next /\ ~\E m \in Monitors : Lock(m) \/ Unlock(m) \/ Wait(m) \/ Signal(m)
  BY <1>1, <1>6 DEF Next, Create, Join, Sleep, YieldCall, Exit, Tick, monitors
<1>7. CASE UNCHANGED vars
  BY <1>1, <1>7 DEF vars, monitors
<1>8. \A m \in Monitors : Lock(m) \/ Unlock(m) \/ Wait(m) \/ Signal(m) => Up
  BY DEF Lock, Unlock, Wait, Signal
<1> QED
  BY <1>2, <1>3, <1>4, <1>5, <1>6, <1>7, <1>8

\* A monitor is owned by one thread, is handed over to one that queues for
\* it, and gives nobody back who was not signalled (sthread_user.c:555-678).
THEOREM MonitorsKeepTheirPromise == Spec => ImplementsMonitor
<1>1. Init => Promised!Init
  <2>1. ToSet(<< >>) = {}
    BY DEF ToSet
  <2> QED
    BY <2>1 DEF Init, Promised!Init
<1> QED
  BY Invariance, StepIsPromised, <1>1, PTL
     DEF Spec, ImplementsMonitor, Promised!Spec, Promised!vars, MonitorStep
=============================================================================
