------------------------- MODULE RequestServerProofs -------------------------
(***************************************************************************)
(* Theorems about the request path of the SNFS server, for every number of *)
(* consumers, every ring size and every set of clients.                    *)
(***************************************************************************)
EXTENDS RequestServer, SequenceTheorems, FiniteSetTheorems, TLAPS

-----------------------------------------------------------------------------
(* The inductive invariant, in four parts besides TypeOK.                 *)

\* Who is blocked on the condition, and who is between lock and unlock.
MonitorInv ==
    /\ \A t \in Threads : pc[t] = "blocked" <=> t \in waiting
    /\ \A t \in Threads : monOwner = t <=> pc[t] \in {"test", "recv"}

\* Only the producer polls, and only with room for a request; only consumers
\* serve, and they hold a request exactly then.
StageInv ==
    /\ pc[Producer] # "serve"
    /\ pc[Producer] = "recv" => available # RingSize
    /\ \A c \in Consumers : pc[c] # "recv"
    /\ \A c \in Consumers : pc[c] = "serve" <=> reqD[c] # NoRequest

\* Slot i holds a queued request.
InWindow(i) ==
    \/ getPos <= i /\ i < getPos + available
    \/ i + RingSize < getPos + available

\* The two positions delimit the queued requests.
RingInv ==
    /\ putPos = IF getPos + available < RingSize
                THEN getPos + available ELSE getPos + available - RingSize
    /\ \A i \in Slots : InWindow(i) => ring[i] \in Requests

\* A caller that is inside a call has counted it.
CallInv == \A k \in Callers : call[k].st # "idle" => call[k].n # 0

IInv == TypeOK /\ CallInv /\ MonitorInv /\ StageInv /\ RingInv

-----------------------------------------------------------------------------
(* Facts about the helpers. *)

\* The remainder of a position that is less than a lap ahead.
LEMMA ModLap ==
    ASSUME NEW n \in 0 .. 2 * RingSize - 1
    PROVE  n % RingSize = IF n < RingSize THEN n ELSE n - RingSize
BY RequestServerAssumption, SMTT(30)

\* Advance moves a position to the next slot and wraps after the last one.
LEMMA AdvanceSlot ==
    ASSUME NEW pos \in Slots
    PROVE  /\ Advance(pos) \in Slots
           /\ Advance(pos) = IF pos + 1 = RingSize THEN 0 ELSE pos + 1
BY RequestServerAssumption, ModLap DEF Advance, Slots

\* Serial numbers stay in their range.
LEMMA SerialWraps ==
    ASSUME NEW sn \in Serials
    PROVE  (sn + 1) % SnCount \in Serials
BY RequestServerAssumption, SMTT(30) DEF Serials

\* The slot that get_req reads holds a request when one is queued.
LEMMA OldestIsRequest ==
    ASSUME TypeOK, RingInv, available # 0
    PROVE  ring[getPos] \in Requests
BY DEF TypeOK, RingInv, InWindow, Slots

\* Moving on to another stage leaves a caller with a record of its call.
LEMMA SetStage ==
    ASSUME NEW f \in [Callers -> CallRecord], NEW k \in Callers,
           NEW st \in {"idle", "bump", "send", "recv"}
    PROVE  [f EXCEPT ![k] = [@ EXCEPT !.st = st]] \in [Callers -> CallRecord]
<1>1. [f[k] EXCEPT !.st = st] \in CallRecord
    BY DEF CallRecord
<1>2. QED
    BY <1>1

\* So does the end of a call without an answer ...
LEMMA SetResult ==
    ASSUME NEW f \in [Callers -> CallRecord], NEW k \in Callers,
           NEW st \in {"idle", "bump", "send", "recv"},
           NEW result \in {"none", "ok", "mismatch", "refused"}
    PROVE  [f EXCEPT ![k] = [@ EXCEPT !.st = st, !.result = result]]
             \in [Callers -> CallRecord]
<1>1. [f[k] EXCEPT !.st = st, !.result = result] \in CallRecord
    BY DEF CallRecord
<1>2. QED
    BY <1>1

\* ... and with one.
LEMMA SetReply ==
    ASSUME NEW f \in [Callers -> CallRecord], NEW k \in Callers,
           NEW st \in {"idle", "bump", "send", "recv"},
           NEW result \in {"none", "ok", "mismatch", "refused"},
           NEW got \in Requests
    PROVE  [f EXCEPT ![k] = [@ EXCEPT !.st = st, !.result = result, !.got = got]]
             \in [Callers -> CallRecord]
<1>1. [f[k] EXCEPT !.st = st, !.result = result, !.got = got] \in CallRecord
    BY DEF CallRecord
<1>2. QED
    BY <1>1

-----------------------------------------------------------------------------
(* The initial state satisfies the invariant. *)

\* Nothing is queued, held or called at the start.
LEMMA InitInv == Init => IInv
<1> USE RequestServerAssumption, NoRequestAssumption
<1> SUFFICES ASSUME Init PROVE IInv
    OBVIOUS
<1> USE DEF Init
<1>1. TypeOK
    BY DEF TypeOK, Threads, Slots, Serials, CallRecord
<1>2. MonitorInv
    BY DEF MonitorInv, Threads
<1>3. StageInv
    BY DEF StageInv, Threads
<1>4. RingInv
    BY DEF RingInv, InWindow, Slots
<1>5. CallInv
    BY DEF CallInv
<1>6. QED
    BY <1>1, <1>2, <1>3, <1>4, <1>5 DEF IInv

-----------------------------------------------------------------------------
(* Every step preserves the types. *)

\* Every step leaves each variable in its set.
LEMMA TypeStep ==
    ASSUME IInv, [Next]_vars
    PROVE  TypeOK'
<1> USE RequestServerAssumption, NoRequestAssumption
<1> USE DEF IInv, TypeOK
<1>1. ASSUME NEW t \in Threads, MonitorEnter(t)
      PROVE  TypeOK'
    BY <1>1 DEF MonitorEnter, ringVars, netVars, clientVars
<1>2. ASSUME NEW c \in Consumers, ConsumerWait(c)
      PROVE  TypeOK'
    BY <1>2 DEF ConsumerWait, MonitorWait, ringVars, netVars, clientVars, Threads
<1>3. ASSUME NEW c \in Consumers, ConsumerTake(c)
      PROVE  TypeOK'
  <2>1. /\ getPos' \in Slots
        /\ ring[getPos] \in Requests
    BY <1>3, AdvanceSlot, OldestIsRequest DEF ConsumerTake, GetReq
  <2>2. PICK W \in SignalChoices : SignalAndExit(c, W, "serve")
    BY <1>3 DEF ConsumerTake
  <2>3. /\ monOwner' \in Threads \cup {NoThread}
        /\ waiting' \subseteq Threads
        /\ pc' \in [Threads -> {"enter", "test", "blocked", "relock", "serve", "recv"}]
    BY <2>2 DEF SignalAndExit
  <2>4. /\ available' \in 0 .. RingSize
        /\ reqD' \in [Consumers -> Requests \cup {NoRequest}]
    BY <1>3, <2>1 DEF ConsumerTake, GetReq
  <2>5. QED
    BY <1>3, <2>1, <2>3, <2>4 DEF ConsumerTake, GetReq, netVars, clientVars
<1>4. ASSUME NEW c \in Consumers, ConsumerRespond(c)
      PROVE  TypeOK'
  <2>1. /\ reqD[c] \in Requests
        /\ SockOf[reqD[c].caller] \in Socks
    BY <1>4 DEF ConsumerRespond, StageInv, Requests
  <2>2. cliSock' \in [Socks -> Seq(Requests)]
    BY <1>4, <2>1 DEF ConsumerRespond
  <2>3. QED
    BY <1>4, <2>2 DEF ConsumerRespond, ringVars, clientVars
<1>5. ASSUME NEW c \in Consumers, ConsumerExit(c)
      PROVE  TypeOK'
    BY <1>5 DEF ConsumerExit, monVars, ringVars, netVars, clientVars
<1>6. CASE ProducerWait
    BY <1>6 DEF ProducerWait, MonitorWait, ringVars, netVars, clientVars, Threads
<1>7. CASE ProducerPoll
    BY <1>7 DEF ProducerPoll, ringVars, netVars, clientVars
<1>8. CASE ProducerPut
  <2>1. /\ Head(srvSock) \in Requests
        /\ Tail(srvSock) \in Seq(Requests \cup {Empty})
    BY <1>8 DEF ProducerPut
  <2>2. /\ putPos' \in Slots
        /\ ring' \in [Slots -> Requests \cup {NoRequest}]
    BY <1>8, <2>1, AdvanceSlot DEF ProducerPut, PutReq
  <2>3. available' \in 0 .. RingSize
    BY <1>8 DEF ProducerPut, StageInv
  <2>4. /\ monOwner' \in Threads \cup {NoThread}
        /\ waiting' \subseteq Threads
        /\ pc' \in [Threads -> {"enter", "test", "blocked", "relock", "serve", "recv"}]
    BY <1>8 DEF ProducerPut, SignalAndExit
  <2>5. QED
    BY <1>8, <2>1, <2>2, <2>3, <2>4 DEF ProducerPut, PutReq, clientVars
<1>9. CASE ProducerSkip
  <2>1. Tail(srvSock) \in Seq(Requests \cup {Empty})
    BY <1>9 DEF ProducerSkip
  <2>2. /\ monOwner' \in Threads \cup {NoThread}
        /\ waiting' \subseteq Threads
        /\ pc' \in [Threads -> {"enter", "test", "blocked", "relock", "serve", "recv"}]
    BY <1>9 DEF ProducerSkip, SignalAndExit
  <2>3. QED
    BY <1>9, <2>1, <2>2 DEF ProducerSkip, ringVars, clientVars
<1>10. ASSUME NEW t \in Threads, SpuriousWakeup(t)
       PROVE  TypeOK'
    BY <1>10 DEF SpuriousWakeup, ringVars, netVars, clientVars
<1>11. ASSUME NEW k \in Callers, CallRead(k)
       PROVE  TypeOK'
  <2>1. call' \in [Callers -> CallRecord]
    BY <1>11 DEF CallRead, CallRecord
  <2>2. QED
    BY <1>11, <2>1 DEF CallRead, serverVars, monVars, ringVars, netVars
<1>12. ASSUME NEW k \in Callers, CallBump(k)
       PROVE  TypeOK'
  <2>1. nextSn' \in [Socks -> Serials]
    BY <1>12, SerialWraps DEF CallBump, CallRecord
  <2>2. call' \in [Callers -> CallRecord]
    BY <1>12, SetStage DEF CallBump
  <2>3. QED
    BY <1>12, <2>1, <2>2 DEF CallBump, serverVars, monVars, ringVars, netVars
<1>13. ASSUME NEW k \in Callers, CallSend(k)
       PROVE  TypeOK'
  <2>1. RequestOf(k) \in Requests
    BY <1>13 DEF CallSend, CallInv, RequestOf, Requests, CallRecord
  <2>2. CASE srvUp
    <3>1. srvSock' = Append(srvSock, RequestOf(k))
      BY <1>13, <2>2 DEF CallSend
    <3>2. srvSock' \in Seq(Requests \cup {Empty})
      BY <2>1, <3>1
    <3>3. call' = [call EXCEPT ![k] = [@ EXCEPT !.st = "recv"]]
      BY <1>13, <2>2 DEF CallSend
    <3>4. call' \in [Callers -> CallRecord]
      BY <3>3, SetStage
    <3>5. QED
      BY <1>13, <3>2, <3>4 DEF CallSend, serverVars, monVars, ringVars
  <2>3. CASE ~srvUp
    <3>1. /\ srvSock' = srvSock
          /\ call' = [call EXCEPT ![k] = [@ EXCEPT !.st = "idle", !.result = "refused"]]
      BY <1>13, <2>3 DEF CallSend
    <3>2. call' \in [Callers -> CallRecord]
      BY <3>1, SetResult
    <3>3. QED
      BY <1>13, <3>1, <3>2 DEF CallSend, serverVars, monVars, ringVars
  <2>4. QED
    BY <2>2, <2>3
<1>14. ASSUME NEW k \in Callers, CallRecv(k)
       PROVE  TypeOK'
  <2> DEFINE reply == Head(cliSock[SockOf[k]])
  <2>1. /\ reply \in Requests
        /\ Tail(cliSock[SockOf[k]]) \in Seq(Requests)
    BY <1>14 DEF CallRecv
  <2>2. cliSock' \in [Socks -> Seq(Requests)]
    BY <1>14, <2>1 DEF CallRecv
  <2>3. call' \in [Callers -> CallRecord]
    BY <1>14, <2>1, SetReply DEF CallRecv
  <2>4. QED
    BY <1>14, <2>2, <2>3 DEF CallRecv, serverVars, monVars, ringVars
<1>15. ASSUME NEW s \in Socks, Kill(s)
       PROVE  TypeOK'
    BY <1>15 DEF Kill, serverVars, monVars, ringVars, clientVars
<1>16. CASE SendEmpty
    BY <1>16 DEF SendEmpty, serverVars, monVars, ringVars, clientVars
<1>17. CASE UNCHANGED vars
    BY <1>17 DEF vars, monVars, ringVars, netVars, clientVars
<1>18. QED
    BY <1>1, <1>2, <1>3, <1>4, <1>5, <1>6, <1>7, <1>8, <1>9, <1>10, <1>11, <1>12,
       <1>13, <1>14, <1>15, <1>16, <1>17
    DEF Next, ConsumerStep, ProducerStep, CallerStep, Threads

-----------------------------------------------------------------------------
(* Every step preserves the other parts of the invariant. *)

\* A thread waits exactly while it is blocked, and holds the mutex exactly
\* between lock and unlock.
LEMMA MonitorStep ==
    ASSUME IInv, [Next]_vars
    PROVE  MonitorInv'
<1> USE RequestServerAssumption, NoRequestAssumption
<1> USE DEF IInv, TypeOK, MonitorInv, Threads
<1>1. ASSUME NEW t \in Threads, MonitorEnter(t)
      PROVE  MonitorInv'
    BY <1>1 DEF MonitorEnter
<1>2. ASSUME NEW c \in Consumers, ConsumerWait(c)
      PROVE  MonitorInv'
    BY <1>2 DEF ConsumerWait, MonitorWait
<1>3. ASSUME NEW c \in Consumers, ConsumerTake(c)
      PROVE  MonitorInv'
    BY <1>3 DEF ConsumerTake, SignalAndExit, SignalChoices
<1>4. ASSUME NEW c \in Consumers, ConsumerRespond(c)
      PROVE  MonitorInv'
    BY <1>4 DEF ConsumerRespond
<1>5. ASSUME NEW c \in Consumers, ConsumerExit(c)
      PROVE  MonitorInv'
    BY <1>5 DEF ConsumerExit, monVars
<1>6. CASE ProducerWait
    BY <1>6 DEF ProducerWait, MonitorWait
<1>7. CASE ProducerPoll
    BY <1>7 DEF ProducerPoll
<1>8. CASE ProducerPut
    BY <1>8 DEF ProducerPut, SignalAndExit
<1>9. CASE ProducerSkip
    BY <1>9 DEF ProducerSkip, SignalAndExit
<1>10. ASSUME NEW t \in Threads, SpuriousWakeup(t)
      PROVE  MonitorInv'
    BY <1>10 DEF SpuriousWakeup
<1>11. ASSUME NEW k \in Callers, CallerStep(k)
      PROVE  MonitorInv'
    BY <1>11 DEF CallerStep, CallRead, CallBump, CallSend, CallRecv, serverVars, monVars
<1>12. ASSUME NEW s \in Socks, Kill(s)
      PROVE  MonitorInv'
    BY <1>12 DEF Kill, serverVars, monVars
<1>13. CASE SendEmpty
    BY <1>13 DEF SendEmpty, serverVars, monVars
<1>14. CASE UNCHANGED vars
    BY <1>14 DEF vars, monVars
<1>15. QED
    BY <1>1, <1>2, <1>3, <1>4, <1>5, <1>6, <1>7, <1>8, <1>9, <1>10, <1>11, <1>12,
       <1>13, <1>14
    DEF Next, ConsumerStep, ProducerStep, Threads

\* A thread blocked on the condition has nothing to do.
LEMMA WakeupStep ==
    ASSUME IInv, NoLostWakeup, [Next]_vars
    PROVE  NoLostWakeup'
<1> USE RequestServerAssumption, NoRequestAssumption
<1> USE DEF IInv, TypeOK, NoLostWakeup, Threads
<1>1. ASSUME NEW t \in Threads, MonitorEnter(t)
      PROVE  NoLostWakeup'
    BY <1>1 DEF MonitorEnter, ringVars
<1>2. ASSUME NEW c \in Consumers, ConsumerWait(c)
      PROVE  NoLostWakeup'
    BY <1>2 DEF ConsumerWait, MonitorWait, ringVars
<1>3. ASSUME NEW c \in Consumers, ConsumerTake(c)
      PROVE  NoLostWakeup'
    BY <1>3 DEF ConsumerTake, SignalAndExit, SignalChoices, GetReq
<1>4. ASSUME NEW c \in Consumers, ConsumerRespond(c)
      PROVE  NoLostWakeup'
    BY <1>4 DEF ConsumerRespond, ringVars
<1>5. ASSUME NEW c \in Consumers, ConsumerExit(c)
      PROVE  NoLostWakeup'
    BY <1>5 DEF ConsumerExit, monVars, ringVars
<1>6. CASE ProducerWait
    BY <1>6 DEF ProducerWait, MonitorWait, ringVars
<1>7. CASE ProducerPoll
    BY <1>7 DEF ProducerPoll, ringVars
<1>8. CASE ProducerPut
    BY <1>8 DEF ProducerPut, SignalAndExit
<1>9. CASE ProducerSkip
    BY <1>9 DEF ProducerSkip, SignalAndExit, ringVars
<1>10. ASSUME NEW t \in Threads, SpuriousWakeup(t)
      PROVE  NoLostWakeup'
    BY <1>10 DEF SpuriousWakeup, ringVars
<1>11. ASSUME NEW k \in Callers, CallerStep(k)
      PROVE  NoLostWakeup'
    BY <1>11 DEF CallerStep, CallRead, CallBump, CallSend, CallRecv, serverVars, monVars, ringVars
<1>12. ASSUME NEW s \in Socks, Kill(s)
      PROVE  NoLostWakeup'
    BY <1>12 DEF Kill, serverVars, monVars, ringVars
<1>13. CASE SendEmpty
    BY <1>13 DEF SendEmpty, serverVars, monVars, ringVars
<1>14. CASE UNCHANGED vars
    BY <1>14 DEF vars, monVars, ringVars
<1>15. QED
    BY <1>1, <1>2, <1>3, <1>4, <1>5, <1>6, <1>7, <1>8, <1>9, <1>10, <1>11, <1>12,
       <1>13, <1>14
    DEF Next, ConsumerStep, ProducerStep, Threads

\* Producer and consumers keep to their own stages.
LEMMA StageStep ==
    ASSUME IInv, [Next]_vars
    PROVE  StageInv'
<1> USE RequestServerAssumption, NoRequestAssumption
<1> USE DEF IInv, TypeOK, MonitorInv, StageInv, Threads
<1>1. ASSUME NEW t \in Threads, MonitorEnter(t)
      PROVE  StageInv'
    BY <1>1 DEF MonitorEnter, ringVars
<1>2. ASSUME NEW c \in Consumers, ConsumerWait(c)
      PROVE  StageInv'
    BY <1>2 DEF ConsumerWait, MonitorWait, ringVars
<1>3. ASSUME NEW c \in Consumers, ConsumerTake(c)
      PROVE  StageInv'
  <2>1. ring[getPos] # NoRequest
    BY <1>3, OldestIsRequest DEF ConsumerTake
  <2>2. QED
    BY <1>3, <2>1 DEF ConsumerTake, GetReq, SignalAndExit, SignalChoices
<1>4. ASSUME NEW c \in Consumers, ConsumerRespond(c)
      PROVE  StageInv'
    BY <1>4 DEF ConsumerRespond, ringVars
<1>5. ASSUME NEW c \in Consumers, ConsumerExit(c)
      PROVE  StageInv'
    BY <1>5 DEF ConsumerExit, monVars, ringVars
<1>6. CASE ProducerWait
    BY <1>6 DEF ProducerWait, MonitorWait, ringVars
<1>7. CASE ProducerPoll
    BY <1>7 DEF ProducerPoll, ringVars
<1>8. CASE ProducerPut
    BY <1>8 DEF ProducerPut, SignalAndExit
<1>9. CASE ProducerSkip
    BY <1>9 DEF ProducerSkip, SignalAndExit, ringVars
<1>10. ASSUME NEW t \in Threads, SpuriousWakeup(t)
      PROVE  StageInv'
    BY <1>10 DEF SpuriousWakeup, ringVars
<1>11. ASSUME NEW k \in Callers, CallerStep(k)
      PROVE  StageInv'
    BY <1>11 DEF CallerStep, CallRead, CallBump, CallSend, CallRecv, serverVars, monVars, ringVars
<1>12. ASSUME NEW s \in Socks, Kill(s)
      PROVE  StageInv'
    BY <1>12 DEF Kill, serverVars, monVars, ringVars
<1>13. CASE SendEmpty
    BY <1>13 DEF SendEmpty, serverVars, monVars, ringVars
<1>14. CASE UNCHANGED vars
    BY <1>14 DEF vars, monVars, ringVars
<1>15. QED
    BY <1>1, <1>2, <1>3, <1>4, <1>5, <1>6, <1>7, <1>8, <1>9, <1>10, <1>11, <1>12,
       <1>13, <1>14
    DEF Next, ConsumerStep, ProducerStep, Threads

\* A caller inside a call has counted it.
LEMMA CallStep ==
    ASSUME IInv, [Next]_vars
    PROVE  CallInv'
<1> USE DEF IInv, TypeOK, CallInv
<1>1. ASSUME NEW k \in Callers, CallerStep(k)
      PROVE  CallInv'
  <2>1. call[k] \in CallRecord
    OBVIOUS
  <2>2. \A j \in Callers \ {k} : call'[j] = call[j]
    BY <1>1 DEF CallerStep, CallRead, CallBump, CallSend, CallRecv
  <2>3. call'[k].st # "idle" => call'[k].n # 0
    <3>1. CASE CallRead(k)
      BY <2>1, <3>1 DEF CallRead, CallRecord
    <3>2. CASE CallBump(k)
      <4>1. call'[k] = [call[k] EXCEPT !.st = "send"]
        BY <3>2 DEF CallBump
      <4>2. QED
        BY <2>1, <3>2, <4>1 DEF CallBump, CallRecord
    <3>3. CASE CallSend(k)
      <4>1. \/ call'[k] = [call[k] EXCEPT !.st = "recv"]
            \/ call'[k] = [call[k] EXCEPT !.st = "idle", !.result = "refused"]
        BY <3>3 DEF CallSend
      <4>2. call'[k].st # "idle" => call'[k].n = call[k].n
        BY <2>1, <4>1 DEF CallRecord
      <4>3. QED
        BY <2>1, <3>3, <4>2 DEF CallSend, CallRecord
    <3>4. CASE CallRecv(k)
      <4>1. call'[k].st = "idle"
        BY <2>1, <3>4 DEF CallRecv, CallRecord
      <4>2. QED
        BY <4>1
    <3>5. QED
      BY <1>1, <3>1, <3>2, <3>3, <3>4 DEF CallerStep
  <2>4. QED
    BY <2>2, <2>3
<1>2. CASE UNCHANGED call
    BY <1>2
<1>3. QED
    BY <1>1, <1>2
    DEF Next, ConsumerStep, ProducerStep, MonitorEnter, ConsumerWait, ConsumerTake,
        ConsumerRespond, ConsumerExit, ProducerWait, ProducerPoll, ProducerPut,
        ProducerSkip, SpuriousWakeup, Kill, SendEmpty, vars, clientVars

\* Taking a request and putting one move the window by a slot at one end.
LEMMA RingStep ==
    ASSUME IInv, [Next]_vars
    PROVE  RingInv'
<1> USE RequestServerAssumption, NoRequestAssumption
<1> USE DEF IInv, TypeOK, RingInv, InWindow, Slots
<1>1. ASSUME NEW c \in Consumers, ConsumerTake(c)
      PROVE  RingInv'
  <2>1. /\ getPos' = IF getPos + 1 = RingSize THEN 0 ELSE getPos + 1
        /\ available # 0
        /\ available' = available - 1
        /\ UNCHANGED <<ring, putPos>>
    BY <1>1, AdvanceSlot DEF ConsumerTake, GetReq
  <2>2. putPos' = IF getPos' + available' < RingSize
                  THEN getPos' + available' ELSE getPos' + available' - RingSize
    BY <2>1
  <2>3. \A i \in Slots : InWindow(i)' => InWindow(i)
    BY <2>1
  <2>4. QED
    BY <2>1, <2>2, <2>3
<1>2. CASE ProducerPut
  <2>1. /\ putPos' = IF putPos + 1 = RingSize THEN 0 ELSE putPos + 1
        /\ available # RingSize
        /\ available' = available + 1
        /\ ring' = [ring EXCEPT ![putPos] = Head(srvSock)]
        /\ UNCHANGED getPos
    BY <1>2, AdvanceSlot DEF ProducerPut, PutReq, StageInv
  <2>2. Head(srvSock) \in Requests
    BY <1>2 DEF ProducerPut
  <2>3. putPos' = IF getPos' + available' < RingSize
                  THEN getPos' + available' ELSE getPos' + available' - RingSize
    BY <2>1
  <2>4. \A i \in Slots : InWindow(i)' => InWindow(i) \/ i = putPos
    BY <2>1
  <2>5. \A i \in Slots : InWindow(i)' => ring'[i] \in Requests
    BY <2>1, <2>2, <2>4
  <2>6. QED
    BY <2>3, <2>5
<1>3. CASE UNCHANGED ringVars
    BY <1>3 DEF ringVars
<1>4. QED
    BY <1>1, <1>2, <1>3
    DEF Next, ConsumerStep, ProducerStep, CallerStep, MonitorEnter, ConsumerWait,
        ConsumerRespond, ConsumerExit, ProducerWait, ProducerPoll, ProducerSkip,
        SpuriousWakeup, CallRead, CallBump, CallSend, CallRecv, Kill, SendEmpty,
        serverVars, vars, ringVars

-----------------------------------------------------------------------------
(* Theorems *)

\* The inductive invariant holds in every reachable state: for every ring size
\* and any number of consumers, the two positions of get_req and put_req and
\* the counter agree, and the monitor's bookkeeping is right.
THEOREM Invariance == Spec => []IInv
<1>1. IInv /\ [Next]_vars => IInv'
    BY TypeStep, MonitorStep, StageStep, CallStep, RingStep DEF IInv
<1>2. QED
    BY InitInv, <1>1, PTL DEF Spec

\* Every variable keeps its shape; in particular the positions of get_req and
\* put_req never leave the ring and available_reqs never leaves 0..RING_SIZE
\* (server.c:85-101, 189, 252).
THEOREM TypeCorrect == Spec => []TypeOK
<1>1. IInv => TypeOK
    BY DEF IInv
<1>2. QED
    BY Invariance, <1>1, PTL

\* One condition for the producer and all consumers is enough, though a
\* consumer wakes one thread only: whoever is blocked has nothing to do
\* (server.c:186, 189, 240, 254).
THEOREM NoWakeupIsLost == Spec => []NoLostWakeup
<1>1. Init => NoLostWakeup
    BY DEF Init, NoLostWakeup
<1>2. IInv /\ NoLostWakeup /\ [Next]_vars => NoLostWakeup'
    BY WakeupStep
<1>3. QED
    BY Invariance, <1>1, <1>2, PTL DEF Spec

-----------------------------------------------------------------------------
(* The ring implements a FIFO queue. *)

\* The slot of the i-th request when the oldest one is in slot g.
SlotOf(g, i) == IF g + i - 1 < RingSize THEN g + i - 1 ELSE g + i - 1 - RingSize

\* The n requests from slot g on, as Window computes them.
WindowOf(r, g, n) == [i \in 1 .. n |-> r[(g + i - 1) % RingSize]]

\* The window of n requests that starts in slot g is a sequence of requests.
LEMMA WindowSeq ==
    ASSUME NEW r \in [Slots -> Requests \cup {NoRequest}], NEW g \in Slots,
           NEW n \in 0 .. RingSize,
           \A i \in 1 .. n : r[SlotOf(g, i)] \in Requests
    PROVE  /\ WindowOf(r, g, n) \in Seq(Requests)
           /\ Len(WindowOf(r, g, n)) = n
           /\ \A i \in 1 .. n : WindowOf(r, g, n)[i] = r[SlotOf(g, i)]
<1> USE RequestServerAssumption, NoRequestAssumption
<1> DEFINE w == WindowOf(r, g, n)
<1>1. ASSUME NEW i \in 1 .. n
      PROVE  (g + i - 1) % RingSize = SlotOf(g, i)
  <2> DEFINE m == g + i - 1
  <2>1. m \in 0 .. 2 * RingSize - 1
    BY DEF Slots
  <2>2. SlotOf(g, i) = IF m < RingSize THEN m ELSE m - RingSize
    BY DEF SlotOf, Slots
  <2> HIDE DEF m
  <2>3. m % RingSize = SlotOf(g, i)
    BY <2>1, <2>2, ModLap
  <2>4. QED
    BY <2>3 DEF m
<1>2. w = [i \in 1 .. n |-> r[SlotOf(g, i)]]
    BY <1>1 DEF WindowOf
<1>3. w \in [1 .. n -> Requests]
    BY <1>2
<1>4. w \in Seq(Requests) /\ Len(w) = n
    BY <1>3
<1>5. QED
    BY <1>2, <1>4

\* In terms of the state: which requests are queued, and in which slots.
WindowInv ==
    /\ Window \in Seq(Requests)
    /\ Len(Window) = available
    /\ \A i \in 1 .. available : Window[i] = ring[SlotOf(getPos, i)]

\* The invariant gives it.
LEMMA WindowIsSeq == IInv => WindowInv
<1> USE RequestServerAssumption, NoRequestAssumption
<1> SUFFICES ASSUME IInv PROVE WindowInv
    OBVIOUS
<1>1. \A i \in 1 .. available : ring[SlotOf(getPos, i)] \in Requests
    BY DEF IInv, TypeOK, RingInv, InWindow, Slots, SlotOf
<1>2. QED
  <2>1. /\ ring \in [Slots -> Requests \cup {NoRequest}]
        /\ getPos \in Slots
        /\ available \in 0 .. RingSize
    BY DEF IInv, TypeOK
  <2>2. Window = WindowOf(ring, getPos, available)
    BY DEF Window, WindowOf
  <2>3. QED
    BY <1>1, <2>1, <2>2, WindowSeq DEF WindowInv

\* get_req takes the oldest request.
LEMMA TakeIsTail ==
    ASSUME IInv, WindowInv, WindowInv', NEW c \in Consumers, ConsumerTake(c)
    PROVE  /\ Window # << >>
           /\ reqD' = [reqD EXCEPT ![c] = Head(Window)]
           /\ Window' = Tail(Window)
<1> USE RequestServerAssumption, NoRequestAssumption
<1> USE DEF IInv, TypeOK, Slots
<1>1. /\ getPos' = IF getPos + 1 = RingSize THEN 0 ELSE getPos + 1
      /\ available # 0
      /\ available' = available - 1
      /\ ring' = ring
      /\ reqD' = [reqD EXCEPT ![c] = ring[getPos]]
    BY AdvanceSlot DEF ConsumerTake, GetReq
<1>2. /\ Window \in Seq(Requests)
      /\ Len(Window) = available
      /\ Window[1] = ring[getPos]
    BY <1>1 DEF WindowInv, SlotOf
<1>3. /\ Window' \in Seq(Requests)
      /\ Len(Window') = available - 1
      /\ \A i \in 1 .. available' :
            Window'[i] = ring'[SlotOf(getPos', i)]
    BY <1>1 DEF WindowInv, SlotOf
<1>4. \A i \in 1 .. available - 1 : Window'[i] = Window[i + 1]
    BY <1>1, <1>3 DEF WindowInv, SlotOf
<1>5. /\ Tail(Window) \in Seq(Requests)
      /\ Len(Tail(Window)) = available - 1
      /\ \A i \in 1 .. available - 1 : Tail(Window)[i] = Window[i + 1]
    BY <1>1, <1>2
<1>6. Window' = Tail(Window)
    BY <1>3, <1>4, <1>5, SeqEqual
<1>7. Window # << >> /\ Head(Window) = Window[1]
    BY <1>1, <1>2
<1>8. QED
    BY <1>1, <1>2, <1>6, <1>7

\* put_req appends the request it got.
LEMMA PutIsAppend ==
    ASSUME IInv, WindowInv, WindowInv', ProducerPut
    PROVE  /\ Head(srvSock) \in Requests
           /\ Len(Window) < RingSize
           /\ Window' = Append(Window, Head(srvSock))
<1> USE RequestServerAssumption, NoRequestAssumption
<1> DEFINE r == Head(srvSock)
<1> USE DEF IInv, TypeOK, Slots
<1>1. /\ putPos = IF getPos + available < RingSize
                  THEN getPos + available ELSE getPos + available - RingSize
      /\ available # RingSize
      /\ available' = available + 1
      /\ ring' = [ring EXCEPT ![putPos] = r]
      /\ getPos' = getPos
      /\ r \in Requests
    BY DEF ProducerPut, PutReq, StageInv, RingInv
<1> HIDE DEF r
<1>2. /\ Window \in Seq(Requests)
      /\ Len(Window) = available
    BY DEF WindowInv
<1>3. /\ Window' \in Seq(Requests)
      /\ Len(Window') = available + 1
      /\ \A i \in 1 .. available' :
            Window'[i] = ring'[SlotOf(getPos', i)]
    BY <1>1 DEF WindowInv, SlotOf
<1>4. ASSUME NEW i \in 1 .. available
      PROVE  Window'[i] = Window[i]
  <2>1. SlotOf(getPos, i) \in Slots \ {putPos}
    BY <1>1 DEF SlotOf
  <2>2. Window'[i] = ring'[SlotOf(getPos, i)]
    BY <1>1, <1>3
  <2>3. QED
    BY <1>1, <2>1, <2>2 DEF WindowInv
<1>5. Window'[available + 1] = r
  <2>1. SlotOf(getPos, available + 1) = putPos
    BY <1>1 DEF SlotOf
  <2>2. Window'[available + 1] = ring'[SlotOf(getPos, available + 1)]
    BY <1>1, <1>3
  <2>3. QED
    BY <1>1, <2>1, <2>2
<1>6. available \in Nat /\ available < RingSize
    BY <1>1
<1> HIDE DEF IInv, TypeOK, Slots
<1>7. /\ Append(Window, r) \in Seq(Requests)
      /\ Len(Append(Window, r)) = available + 1
      /\ \A i \in 1 .. available : Append(Window, r)[i] = Window[i]
      /\ Append(Window, r)[available + 1] = r
    BY <1>1, <1>2, AppendProperties
<1>8. \A i \in 1 .. available + 1 : Window'[i] = Append(Window, r)[i]
    BY <1>4, <1>5, <1>7, <1>6
<1>9. Window' = Append(Window, r)
    BY <1>3, <1>7, <1>8, SeqEqual
<1>10. QED
    BY <1>1, <1>2, <1>9, <1>6 DEF r

\* The request path is a FIFO queue, for every ring size and any number of
\* consumers: a step of the server accepts a request at the end of the queue,
\* hands the oldest one to an idle consumer, ends a consumer's work, or leaves
\* all of that alone (server.c:85-101, 184-190, 239-255).
THEOREM RingImplementsQueue == Spec => ImplementsQueue
<1>1. Init => Queue!Init
  <2> SUFFICES ASSUME Init PROVE Queue!Init
    OBVIOUS
  <2>1. Window = << >>
    BY DEF Init, Window
  <2>2. QED
    BY <2>1 DEF Init, Queue!Init
<1>2. IInv /\ WindowInv /\ WindowInv' /\ [Next]_vars => [Queue!Next]_<<Window, reqD>>
  <2> SUFFICES ASSUME IInv, WindowInv, WindowInv', [Next]_vars
               PROVE  [Queue!Next]_<<Window, reqD>>
    OBVIOUS
  <2>1. ASSUME NEW c \in Consumers, ConsumerTake(c)
        PROVE  Queue!Dispatch(c)
    <3>1. reqD[c] = NoRequest
      BY <2>1 DEF ConsumerTake, IInv, StageInv
    <3>2. QED
      BY <2>1, <3>1, TakeIsTail DEF Queue!Dispatch
  <2>2. CASE ProducerPut
    <3>1. UNCHANGED reqD
      BY <2>2 DEF ProducerPut
    <3>2. Queue!Accept(Head(srvSock))
      BY <2>2, <3>1, PutIsAppend DEF Queue!Accept
    <3>3. QED
      BY <2>2, <3>2, PutIsAppend DEF Queue!Next
  <2>3. ASSUME NEW c \in Consumers, ConsumerRespond(c)
        PROVE  Queue!Finish(c)
    <3>1. reqD[c] # NoRequest
      BY <2>3 DEF ConsumerRespond, IInv, StageInv
    <3>2. Window' = Window
      BY <2>3 DEF ConsumerRespond, ringVars, Window
    <3>3. QED
      BY <2>3, <3>1, <3>2 DEF ConsumerRespond, Queue!Finish
  <2>4. CASE UNCHANGED <<ringVars, reqD>>
    BY <2>4 DEF ringVars, Window
  <2>5. QED
    BY <2>1, <2>2, <2>3, <2>4
    DEF Queue!Next, Next, ConsumerStep, ProducerStep, CallerStep, MonitorEnter,
        ConsumerWait, ConsumerExit, ProducerWait, ProducerPoll, ProducerSkip,
        SpuriousWakeup, CallRead, CallBump, CallSend, CallRecv, Kill, SendEmpty,
        serverVars, vars
<1>3. QED
    BY Invariance, WindowIsSeq, <1>1, <1>2, PTL DEF Spec, ImplementsQueue, Queue!Spec

-----------------------------------------------------------------------------
(* The way of one request through client, sockets, ring and consumers:     *)
(* nothing is lost, served twice or answered to somebody else.  The three  *)
(* theorems at the end need that every caller has a socket of its own: two *)
(* threads of one client process share socket and serial numbers, and then *)
(* each may take the answer of the other.                                  *)

\* Every client process makes its calls from one thread.
OwnSockets == \A j, k \in Callers : SockOf[j] = SockOf[k] => j = k

-----------------------------------------------------------------------------
(* All the lines in which a datagram can stand.                            *)

SrvStation == <<"srvSock", NoThread>>
RingStation == <<"ring", NoThread>>
ConsumerStation(c) == <<"consumer", c>>
CliStation(s) == <<"cliSock", s>>

Stations == {SrvStation, RingStation} \cup {ConsumerStation(c) : c \in Consumers}
                \cup {CliStation(s) : s \in Socks}

Datagrams == Requests \cup {Empty}

\* What a consumer holds, as a line.
HeldBy(c) == IF reqD[c] = NoRequest THEN << >> ELSE <<reqD[c]>>

Lines == [x \in Stations |->
             IF x = SrvStation THEN srvSock
             ELSE IF x = RingStation THEN Window
             ELSE IF x[1] = "consumer" THEN HeldBy(x[2])
             ELSE cliSock[x[2]]]

\* Datagram r stands somewhere in the lines L.
InFlight(L, r) == \E x \in Stations : \E i \in 1 .. Len(L[x]) : L[x][i] = r

\* No request stands in two places.
Apart(L) ==
    \A x, y \in Stations : \A i \in 1 .. Len(L[x]), j \in 1 .. Len(L[y]) :
        L[x][i] = L[y][j] /\ L[x][i] # Empty => x = y /\ i = j

\* Only requests whose caller still waits are in flight, and every caller
\* that waits has one, unless its process is gone.
FlightInv ==
    /\ Apart(Lines)
    /\ \A r \in Requests :
          InFlight(Lines, r) => call[r.caller].st = "recv" /\ r = RequestOf(r.caller)
    /\ \A k \in Callers :
          call[k].st = "recv" /\ SockOf[k] \notin closed => InFlight(Lines, RequestOf(k))

\* An answer goes to its caller's socket.
AddressInv == \A s \in Socks : \A i \in 1 .. Len(cliSock[s]) : SockOf[cliSock[s][i].caller] = s

DeliveryInv == FlightInv /\ AddressInv /\ CallGetsItsReply /\ ExitOnlyMidCall

-----------------------------------------------------------------------------
(* What moving datagrams between lines does. *)

\* The first datagram of one line moves to the end of another.
LEMMA MoveKeepsApart ==
    ASSUME NEW L \in [Stations -> Seq(Datagrams)], NEW M \in [Stations -> Seq(Datagrams)],
           NEW a \in Stations, NEW b \in Stations, a # b, L[a] # << >>,
           M[a] = Tail(L[a]), M[b] = Append(L[b], Head(L[a])),
           \A x \in Stations \ {a, b} : M[x] = L[x],
           Apart(L)
    PROVE  /\ Apart(M)
           /\ \A r : InFlight(M, r) <=> InFlight(L, r)
<1> DEFINE Moved(x, i, y, j) ==
              \/ x = a /\ y = a /\ j = i + 1
              \/ x = b /\ i # Len(L[b]) + 1 /\ y = b /\ j = i
              \/ x = b /\ i = Len(L[b]) + 1 /\ y = a /\ j = 1
              \/ x # a /\ x # b /\ y = x /\ j = i
<1>1. /\ L[a] \in Seq(Datagrams) /\ Len(L[a]) \in Nat \ {0}
      /\ Len(M[a]) = Len(L[a]) - 1
      /\ \A i \in 1 .. Len(M[a]) : M[a][i] = L[a][i + 1]
  BY HeadTailProperties, EmptySeq
<1>2. /\ L[b] \in Seq(Datagrams) /\ Len(L[b]) \in Nat
      /\ Len(M[b]) = Len(L[b]) + 1
      /\ \A i \in 1 .. Len(L[b]) : M[b][i] = L[b][i]
      /\ M[b][Len(L[b]) + 1] = L[a][1]
  BY <1>1, AppendProperties
<1>3. \A x \in Stations : Len(L[x]) \in Nat /\ Len(M[x]) \in Nat
  BY LenProperties
<1>4. ASSUME NEW x \in Stations, NEW i \in 1 .. Len(M[x])
      PROVE  \E y \in Stations : \E j \in 1 .. Len(L[y]) :
                 Moved(x, i, y, j) /\ M[x][i] = L[y][j]
  <2>1. CASE x = a
    <3>1. i + 1 \in 1 .. Len(L[a]) /\ M[a][i] = L[a][i + 1]
      BY <1>1, <2>1
    <3> QED
      BY <2>1, <3>1
  <2>2. CASE x = b /\ i # Len(L[b]) + 1
    <3>1. i \in 1 .. Len(L[b]) /\ M[b][i] = L[b][i]
      BY <1>2, <2>2
    <3> QED
      BY <2>2, <3>1
  <2>3. CASE x = b /\ i = Len(L[b]) + 1
    <3>1. 1 \in 1 .. Len(L[a]) /\ M[b][i] = L[a][1]
      BY <1>1, <1>2, <2>3
    <3> QED
      BY <2>3, <3>1
  <2>4. CASE x # a /\ x # b
    BY <2>4
  <2> QED
    BY <2>1, <2>2, <2>3, <2>4
<1>5. ASSUME NEW x \in Stations, NEW i \in 1 .. Len(M[x]),
             NEW y \in Stations, NEW j \in 1 .. Len(M[y]),
             NEW u \in Stations, NEW m \in 1 .. Len(L[u]),
             Moved(x, i, u, m), Moved(y, j, u, m)
      PROVE  x = y /\ i = j
  <2>1. i \in Nat \ {0} /\ j \in Nat \ {0}
    BY SMTT(30), <1>3
  <2> QED
    BY <1>5, <2>1
<1>6. ASSUME NEW y \in Stations, NEW j \in 1 .. Len(L[y])
      PROVE  \E x \in Stations : \E i \in 1 .. Len(M[x]) : M[x][i] = L[y][j]
  <2>1. CASE y = a /\ j = 1
    BY <1>1, <1>2, <2>1
  <2>2. CASE y = a /\ j # 1
    <3>1. j - 1 \in 1 .. Len(M[a]) /\ M[a][j - 1] = L[a][j]
      BY <1>1, <2>2
    <3> QED
      BY <2>2, <3>1
  <2>3. CASE y = b
    <3>1. j \in 1 .. Len(M[b]) /\ M[b][j] = L[b][j]
      BY <1>2, <2>3
    <3> QED
      BY <2>3, <3>1
  <2>4. CASE y # a /\ y # b
    BY <2>4
  <2> QED
    BY <2>1, <2>2, <2>3, <2>4
<1> HIDE DEF Moved
<1>7. Apart(M)
  <2> SUFFICES ASSUME NEW x \in Stations, NEW y \in Stations,
                      NEW i \in 1 .. Len(M[x]), NEW j \in 1 .. Len(M[y]),
                      M[x][i] = M[y][j], M[x][i] # Empty
               PROVE  x = y /\ i = j
    BY DEF Apart
  <2>1. PICK u \in Stations : \E m \in 1 .. Len(L[u]) :
            Moved(x, i, u, m) /\ M[x][i] = L[u][m]
    BY <1>4
  <2>2. PICK m \in 1 .. Len(L[u]) : Moved(x, i, u, m) /\ M[x][i] = L[u][m]
    BY <2>1
  <2>3. PICK v \in Stations : \E n \in 1 .. Len(L[v]) :
            Moved(y, j, v, n) /\ M[y][j] = L[v][n]
    BY <1>4
  <2>4. PICK n \in 1 .. Len(L[v]) : Moved(y, j, v, n) /\ M[y][j] = L[v][n]
    BY <2>3
  <2>5. L[u][m] = L[v][n] /\ L[u][m] # Empty
    BY <2>2, <2>4
  <2>6. u = v /\ m = n
    BY SMTT(30), <2>5 DEF Apart
  <2>7. Moved(y, j, u, m)
    BY <2>4, <2>6
  <2> QED
    BY <1>5, <2>2, <2>7
<1>8. ASSUME NEW r
      PROVE  InFlight(M, r) => InFlight(L, r)
  <2> SUFFICES ASSUME NEW x \in Stations, NEW i \in 1 .. Len(M[x]), M[x][i] = r
               PROVE  InFlight(L, r)
    BY DEF InFlight
  <2> QED
    BY <1>4 DEF InFlight
<1>9. ASSUME NEW r
      PROVE  InFlight(L, r) => InFlight(M, r)
  <2> SUFFICES ASSUME NEW x \in Stations, NEW i \in 1 .. Len(L[x]), L[x][i] = r
               PROVE  InFlight(M, r)
    BY DEF InFlight
  <2> QED
    BY ZenonT(60), <1>6 DEF InFlight
<1> QED
  BY <1>7, <1>8, <1>9

\* The first datagram of a line goes away.
LEMMA DropKeepsApart ==
    ASSUME NEW L \in [Stations -> Seq(Datagrams)], NEW M \in [Stations -> Seq(Datagrams)],
           NEW a \in Stations, L[a] # << >>, M[a] = Tail(L[a]),
           \A x \in Stations \ {a} : M[x] = L[x],
           Apart(L)
    PROVE  /\ Apart(M)
           /\ \A r : InFlight(M, r) => InFlight(L, r)
           /\ \A r : r # Head(L[a]) /\ InFlight(L, r) => InFlight(M, r)
           /\ Head(L[a]) # Empty => ~InFlight(M, Head(L[a]))
<1> DEFINE Moved(x, i, j) == \/ x = a /\ j = i + 1
                             \/ x # a /\ j = i
<1>1. /\ L[a] \in Seq(Datagrams) /\ Len(L[a]) \in Nat \ {0}
      /\ Len(M[a]) = Len(L[a]) - 1
      /\ \A i \in 1 .. Len(M[a]) : M[a][i] = L[a][i + 1]
      /\ Head(L[a]) = L[a][1]
  BY HeadTailProperties, EmptySeq
<1>2. \A x \in Stations : Len(L[x]) \in Nat /\ Len(M[x]) \in Nat
  BY LenProperties
<1>3. ASSUME NEW x \in Stations, NEW i \in 1 .. Len(M[x])
      PROVE  \E j \in 1 .. Len(L[x]) : Moved(x, i, j) /\ M[x][i] = L[x][j]
  <2>1. CASE x = a
    <3>1. i + 1 \in 1 .. Len(L[a]) /\ M[a][i] = L[a][i + 1]
      BY <1>1, <2>1
    <3> QED
      BY <2>1, <3>1
  <2>2. CASE x # a
    BY <2>2
  <2> QED
    BY <2>1, <2>2
<1>4. ASSUME NEW x \in Stations, NEW i \in 1 .. Len(M[x]), NEW k \in 1 .. Len(M[x]),
             NEW j \in 1 .. Len(L[x]), Moved(x, i, j)
      PROVE  /\ Moved(x, k, j) => i = k
             /\ x = a => j # 1
  <2>1. i \in Nat \ {0} /\ k \in Nat \ {0}
    BY <1>2
  <2> QED
    BY <1>4, <2>1
<1>5. ASSUME NEW x \in Stations, NEW i \in 1 .. Len(L[x]), x # a \/ i # 1
      PROVE  \E j \in 1 .. Len(M[x]) : M[x][j] = L[x][i]
  <2>1. CASE x = a
    <3>1. i - 1 \in 1 .. Len(M[a]) /\ M[a][i - 1] = L[a][i]
      BY <1>1, <1>5, <2>1
    <3> QED
      BY <2>1, <3>1
  <2>2. CASE x # a
    BY <1>2, <2>2
  <2> QED
    BY <2>1, <2>2
<1> HIDE DEF Moved
<1>6. Apart(M)
  <2> SUFFICES ASSUME NEW x \in Stations, NEW y \in Stations,
                      NEW i \in 1 .. Len(M[x]), NEW k \in 1 .. Len(M[y]),
                      M[x][i] = M[y][k], M[x][i] # Empty
               PROVE  x = y /\ i = k
    BY DEF Apart
  <2>1. PICK j \in 1 .. Len(L[x]) : Moved(x, i, j) /\ M[x][i] = L[x][j]
    BY <1>3
  <2>2. PICK n \in 1 .. Len(L[y]) : Moved(y, k, n) /\ M[y][k] = L[y][n]
    BY <1>3
  <2>3. L[x][j] = L[y][n] /\ L[x][j] # Empty
    BY <2>1, <2>2
  <2>4. x = y /\ j = n
    BY <2>3 DEF Apart
  <2> QED
    BY <1>4, <2>1, <2>2, <2>4
<1>7. ASSUME NEW r
      PROVE  InFlight(M, r) => InFlight(L, r)
  <2> SUFFICES ASSUME NEW x \in Stations, NEW i \in 1 .. Len(M[x]), M[x][i] = r
               PROVE  InFlight(L, r)
    BY DEF InFlight
  <2> QED
    BY <1>3 DEF InFlight
<1>8. ASSUME NEW r, r # Head(L[a])
      PROVE  InFlight(L, r) => InFlight(M, r)
  <2> SUFFICES ASSUME NEW x \in Stations, NEW i \in 1 .. Len(L[x]), L[x][i] = r
               PROVE  InFlight(M, r)
    BY DEF InFlight
  <2>1. x # a \/ i # 1
    BY <1>1, <1>8
  <2> QED
    BY <1>5, <2>1 DEF InFlight
<1>9. ASSUME Head(L[a]) # Empty
      PROVE  ~InFlight(M, Head(L[a]))
  <2> SUFFICES ASSUME NEW x \in Stations, NEW i \in 1 .. Len(M[x]), M[x][i] = Head(L[a])
               PROVE  FALSE
    BY DEF InFlight
  <2>1. PICK j \in 1 .. Len(L[x]) : Moved(x, i, j) /\ M[x][i] = L[x][j]
    BY <1>3
  <2>2. 1 \in 1 .. Len(L[a]) /\ L[x][j] = L[a][1] /\ L[a][1] # Empty
    BY <1>1, <1>9, <2>1
  <2>3. x = a /\ j = 1
    BY <2>2 DEF Apart
  <2> QED
    BY <1>4, <2>1, <2>3
<1> QED
  BY <1>6, <1>7, <1>8, <1>9

\* A datagram that is nowhere, or one of no bytes, joins a line.
LEMMA JoinKeepsApart ==
    ASSUME NEW L \in [Stations -> Seq(Datagrams)], NEW M \in [Stations -> Seq(Datagrams)],
           NEW a \in Stations, NEW e \in Datagrams, M[a] = Append(L[a], e),
           \A x \in Stations \ {a} : M[x] = L[x],
           e = Empty \/ ~InFlight(L, e),
           Apart(L)
    PROVE  /\ Apart(M)
           /\ InFlight(M, e)
           /\ \A r : InFlight(L, r) => InFlight(M, r)
           /\ \A r : r # e /\ InFlight(M, r) => InFlight(L, r)
<1>1. /\ L[a] \in Seq(Datagrams) /\ Len(L[a]) \in Nat
      /\ Len(M[a]) = Len(L[a]) + 1
      /\ \A i \in 1 .. Len(L[a]) : M[a][i] = L[a][i]
      /\ M[a][Len(L[a]) + 1] = e
  BY AppendProperties
<1>2. \A x \in Stations : Len(L[x]) \in Nat /\ Len(M[x]) \in Nat
  BY LenProperties
<1>3. ASSUME NEW x \in Stations, NEW i \in 1 .. Len(M[x])
      PROVE  \/ i \in 1 .. Len(L[x]) /\ M[x][i] = L[x][i]
             \/ x = a /\ i = Len(L[a]) + 1 /\ M[x][i] = e
  <2>1. CASE x = a
    BY <1>1, <2>1
  <2>2. CASE x # a
    BY <2>2
  <2> QED
    BY <2>1, <2>2
<1>4. Apart(M)
  <2> SUFFICES ASSUME NEW x \in Stations, NEW y \in Stations,
                      NEW i \in 1 .. Len(M[x]), NEW j \in 1 .. Len(M[y]),
                      M[x][i] = M[y][j], M[x][i] # Empty
               PROVE  x = y /\ i = j
    BY DEF Apart
  <2> QED
    BY <1>3 DEF Apart, InFlight
<1>5. ASSUME NEW r
      PROVE  InFlight(M, r) => InFlight(L, r) \/ r = e
  <2> SUFFICES ASSUME NEW x \in Stations, NEW i \in 1 .. Len(M[x]), M[x][i] = r
               PROVE  InFlight(L, r) \/ r = e
    BY DEF InFlight
  <2> QED
    BY <1>3 DEF InFlight
<1>6. ASSUME NEW x \in Stations, NEW i \in 1 .. Len(L[x])
      PROVE  i \in 1 .. Len(M[x]) /\ M[x][i] = L[x][i]
  <2>1. CASE x = a
    BY <1>1, <2>1
  <2>2. CASE x # a
    BY <2>2
  <2> QED
    BY <2>1, <2>2
<1>7. ASSUME NEW r
      PROVE  InFlight(L, r) => InFlight(M, r)
  BY <1>6 DEF InFlight
<1>8. InFlight(M, e)
  <2>1. Len(L[a]) + 1 \in 1 .. Len(M[a])
    BY <1>1
  <2> QED
    BY <1>1, <2>1 DEF InFlight
<1> QED
  BY <1>4, <1>5, <1>7, <1>8

\* A line is emptied.
LEMMA ClearKeepsApart ==
    ASSUME NEW L \in [Stations -> Seq(Datagrams)], NEW M \in [Stations -> Seq(Datagrams)],
           NEW a \in Stations, M[a] = << >>,
           \A x \in Stations \ {a} : M[x] = L[x],
           Apart(L)
    PROVE  /\ Apart(M)
           /\ \A r : InFlight(M, r) => InFlight(L, r)
<1>1. ASSUME NEW x \in Stations, NEW i \in 1 .. Len(M[x])
      PROVE  x # a /\ M[x] = L[x]
  BY EmptySeq
<1>2. Apart(M)
  <2> SUFFICES ASSUME NEW x \in Stations, NEW y \in Stations,
                      NEW i \in 1 .. Len(M[x]), NEW j \in 1 .. Len(M[y]),
                      M[x][i] = M[y][j], M[x][i] # Empty
               PROVE  x = y /\ i = j
    BY DEF Apart
  <2>1. M[x] = L[x] /\ M[y] = L[y]
    BY <1>1
  <2> QED
    BY <2>1 DEF Apart
<1>3. \A r : InFlight(M, r) => InFlight(L, r)
  BY <1>1 DEF InFlight
<1> QED
  BY <1>2, <1>3

-----------------------------------------------------------------------------
(* The lines of a state. *)

LinesInv ==
    /\ Lines \in [Stations -> Seq(Datagrams)]
    /\ Lines[SrvStation] = srvSock
    /\ Lines[RingStation] = Window
    /\ \A c \in Consumers : Lines[ConsumerStation(c)] = HeldBy(c)
    /\ \A s \in Socks : Lines[CliStation(s)] = cliSock[s]

\* No two of the lines have the same name.
LEMMA StationsDiffer ==
    /\ SrvStation \in Stations /\ RingStation \in Stations
    /\ SrvStation # RingStation
    /\ \A c \in Consumers : /\ ConsumerStation(c) \in Stations
                            /\ ConsumerStation(c) \notin {SrvStation, RingStation}
                            /\ \A d \in Consumers : ConsumerStation(c) = ConsumerStation(d) => c = d
                            /\ \A s \in Socks : ConsumerStation(c) # CliStation(s)
    /\ \A s \in Socks : /\ CliStation(s) \in Stations
                        /\ CliStation(s) \notin {SrvStation, RingStation}
                        /\ \A t \in Socks : CliStation(s) = CliStation(t) => s = t
    /\ \A x \in Stations : \/ x = SrvStation \/ x = RingStation
                           \/ \E c \in Consumers : x = ConsumerStation(c)
                           \/ \E s \in Socks : x = CliStation(s)
BY DEF Stations, SrvStation, RingStation, ConsumerStation, CliStation

\* Every line is a sequence of datagrams.
LEMMA LinesAreSeqs == IInv => LinesInv
<1> SUFFICES ASSUME IInv PROVE LinesInv
  OBVIOUS
<1> DEFINE line(x) == IF x = SrvStation THEN srvSock
                      ELSE IF x = RingStation THEN Window
                      ELSE IF x[1] = "consumer" THEN HeldBy(x[2])
                      ELSE cliSock[x[2]]
<1>1. /\ srvSock \in Seq(Datagrams)
      /\ Window \in Seq(Datagrams)
      /\ \A c \in Consumers : HeldBy(c) \in Seq(Datagrams)
      /\ \A s \in Socks : cliSock[s] \in Seq(Datagrams)
  <2>1. Window \in Seq(Requests)
    BY WindowIsSeq DEF WindowInv
  <2>2. \A s \in Socks : cliSock[s] \in Seq(Requests)
    BY DEF IInv, TypeOK
  <2>3. ASSUME NEW c \in Consumers
        PROVE  HeldBy(c) \in Seq(Datagrams)
    <3>1. reqD[c] \in Requests \cup {NoRequest}
      BY DEF IInv, TypeOK
    <3>2. CASE reqD[c] = NoRequest
      BY <3>2, EmptySeq DEF HeldBy
    <3>3. CASE reqD[c] # NoRequest
      <4>1. reqD[c] \in Datagrams
        BY <3>1, <3>3 DEF Datagrams
      <4>2. <<reqD[c]>> \in Seq(Datagrams)
        BY <4>1
      <4> QED
        BY <3>3, <4>2 DEF HeldBy
    <3> QED
      BY <3>2, <3>3
  <2> QED
    BY <2>1, <2>2, <2>3, SeqMonotonic DEF IInv, TypeOK, Datagrams
<1>2. /\ line(SrvStation) = srvSock
      /\ line(RingStation) = Window
      /\ \A c \in Consumers : line(ConsumerStation(c)) = HeldBy(c)
      /\ \A s \in Socks : line(CliStation(s)) = cliSock[s]
  <2>1. \A c \in Consumers : ConsumerStation(c)[1] = "consumer" /\ ConsumerStation(c)[2] = c
    BY DEF ConsumerStation
  <2>2. \A s \in Socks : CliStation(s)[1] # "consumer" /\ CliStation(s)[2] = s
    BY DEF CliStation
  <2> QED
    BY <2>1, <2>2, StationsDiffer
<1>3. Lines = [x \in Stations |-> line(x)]
  BY DEF Lines
<1> HIDE DEF line
<1>4. \A x \in Stations : line(x) \in Seq(Datagrams)
  BY <1>1, <1>2, StationsDiffer
<1> QED
  BY <1>2, <1>3, <1>4, StationsDiffer DEF LinesInv

-----------------------------------------------------------------------------
(* Every step of a thread preserves the invariant. *)

\* A caller that is inside a call has a well-formed request.
LEMMA RequestIsTyped ==
    ASSUME IInv, NEW k \in Callers, call[k].st # "idle"
    PROVE  RequestOf(k) \in Requests /\ RequestOf(k).caller = k
<1>1. call[k] \in CallRecord /\ call[k].n # 0
  BY DEF IInv, TypeOK, CallInv
<1> QED
  BY <1>1, RequestServerAssumption DEF RequestOf, Requests, CallRecord

\* What is left alone when only the server's socket changes.
LEMMA OnlySrvChanges ==
    ASSUME LinesInv, LinesInv', UNCHANGED <<reqD, cliSock, Window>>
    PROVE  \A x \in Stations \ {SrvStation} : Lines'[x] = Lines[x]
<1>1. \A d \in Consumers : Lines'[ConsumerStation(d)] = Lines[ConsumerStation(d)]
  BY DEF LinesInv, HeldBy
<1>2. \A s \in Socks : Lines'[CliStation(s)] = Lines[CliStation(s)]
  BY DEF LinesInv
<1>3. Lines'[RingStation] = Lines[RingStation]
  BY DEF LinesInv
<1> QED
  BY <1>1, <1>2, <1>3, StationsDiffer

\* A request moves on and no caller notices.
LEMMA MoveStep ==
    ASSUME LinesInv, LinesInv', FlightInv,
           NEW a \in Stations, NEW b \in Stations, a # b, Lines[a] # << >>,
           Lines'[a] = Tail(Lines[a]), Lines'[b] = Append(Lines[b], Head(Lines[a])),
           \A x \in Stations \ {a, b} : Lines'[x] = Lines[x],
           UNCHANGED <<call, closed>>
    PROVE  FlightInv'
<1>1. /\ Lines \in [Stations -> Seq(Datagrams)]
      /\ Lines' \in [Stations -> Seq(Datagrams)]
  BY DEF LinesInv, Stations, Datagrams, SrvStation, RingStation, ConsumerStation, CliStation
<1>2. Apart(Lines)
  BY DEF FlightInv
<1>3. /\ Apart(Lines')
      /\ \A r : InFlight(Lines', r) <=> InFlight(Lines, r)
  BY <1>1, <1>2, MoveKeepsApart
<1> QED
  BY <1>3 DEF FlightInv, RequestOf

\* ConsumerTake moves the oldest request from the ring to the consumer.
LEMMA TakeMoves ==
    ASSUME IInv, WindowInv, WindowInv', LinesInv, LinesInv', FlightInv,
           NEW c \in Consumers, ConsumerTake(c)
    PROVE  FlightInv'
<1>1. /\ Window # << >>
      /\ reqD' = [reqD EXCEPT ![c] = Head(Window)]
      /\ Window' = Tail(Window)
  BY TakeIsTail
<1>2. /\ UNCHANGED <<call, closed>>
      /\ UNCHANGED <<srvSock, cliSock>>
  BY DEF ConsumerTake, netVars, clientVars
<1>3. reqD \in [Consumers -> Requests \cup {NoRequest}] /\ reqD[c] = NoRequest
  BY DEF IInv, TypeOK, StageInv, ConsumerTake
<1>4. Head(Window) \in Requests
  BY <1>1, HeadTailProperties DEF WindowInv
<1>5. /\ HeldBy(c) = << >>
      /\ HeldBy(c)' = Append(<< >>, Head(Window))
      /\ \A d \in Consumers \ {c} : HeldBy(d)' = HeldBy(d)
  <2>1. reqD'[c] = Head(Window) /\ reqD'[c] # NoRequest
    BY <1>1, <1>3, <1>4, NoRequestAssumption
  <2>2. \A d \in Consumers \ {c} : reqD'[d] = reqD[d]
    BY <1>1, <1>3
  <2>3. HeldBy(c) = << >>
    BY <1>3 DEF HeldBy
  <2>4. HeldBy(c)' = <<Head(Window)>>
    BY <2>1 DEF HeldBy
  <2>5. \A d \in Consumers \ {c} : HeldBy(d)' = HeldBy(d)
    BY <2>2 DEF HeldBy
  <2>6. Append(<< >>, Head(Window)) = <<Head(Window)>>
    OBVIOUS
  <2> QED
    BY <2>3, <2>4, <2>5, <2>6
<1> DEFINE a == RingStation
           b == ConsumerStation(c)
<1>6. a \in Stations /\ b \in Stations /\ a # b
  BY StationsDiffer
<1>7. /\ Lines[a] # << >>
      /\ Lines'[a] = Tail(Lines[a])
      /\ Lines'[b] = Append(Lines[b], Head(Lines[a]))
  BY <1>1, <1>5 DEF LinesInv
<1>8. \A x \in Stations \ {a, b} : Lines'[x] = Lines[x]
  <2>1. Lines'[SrvStation] = Lines[SrvStation]
    BY <1>2 DEF LinesInv
  <2>2. \A d \in Consumers \ {c} : Lines'[ConsumerStation(d)] = Lines[ConsumerStation(d)]
    BY <1>5 DEF LinesInv
  <2>3. \A s \in Socks : Lines'[CliStation(s)] = Lines[CliStation(s)]
    BY <1>2 DEF LinesInv
  <2> QED
    BY <2>1, <2>2, <2>3, StationsDiffer
<1> HIDE DEF a, b
<1> QED
  BY <1>2, <1>6, <1>7, <1>8, MoveStep

\* ProducerPut moves the oldest datagram from the socket to the ring.
LEMMA PutMoves ==
    ASSUME IInv, WindowInv, WindowInv', LinesInv, LinesInv', FlightInv, ProducerPut
    PROVE  FlightInv'
<1>1. /\ srvSock # << >>
      /\ srvSock' = Tail(srvSock)
      /\ Window' = Append(Window, Head(srvSock))
  BY PutIsAppend DEF ProducerPut
<1>2. UNCHANGED <<call, closed, reqD, cliSock>>
  BY DEF ProducerPut, clientVars
<1> DEFINE a == SrvStation
           b == RingStation
<1>3. a \in Stations /\ b \in Stations /\ a # b
  BY StationsDiffer
<1>4. /\ Lines[a] # << >>
      /\ Lines'[a] = Tail(Lines[a])
      /\ Lines'[b] = Append(Lines[b], Head(Lines[a]))
  BY <1>1 DEF LinesInv
<1>5. \A x \in Stations \ {a, b} : Lines'[x] = Lines[x]
  <2>1. \A d \in Consumers : Lines'[ConsumerStation(d)] = Lines[ConsumerStation(d)]
    BY <1>2 DEF LinesInv, HeldBy
  <2>2. \A s \in Socks : Lines'[CliStation(s)] = Lines[CliStation(s)]
    BY <1>2 DEF LinesInv
  <2> QED
    BY <2>1, <2>2, StationsDiffer
<1> HIDE DEF a, b
<1> QED
  BY <1>2, <1>3, <1>4, <1>5, MoveStep

\* ConsumerRespond moves the answer to the socket of the request's caller.
LEMMA RespondMoves ==
    ASSUME IInv, LinesInv, LinesInv', FlightInv, AddressInv,
           NEW c \in Consumers, ConsumerRespond(c)
    PROVE  FlightInv' /\ AddressInv'
<1> DEFINE s == SockOf[reqD[c].caller]
<1>1. reqD \in [Consumers -> Requests \cup {NoRequest}] /\ reqD[c] \in Requests
  BY DEF IInv, TypeOK, StageInv, ConsumerRespond
<1>2. reqD[c].caller \in Callers /\ s \in Socks
  BY <1>1, RequestServerAssumption DEF Requests
<1>3. /\ cliSock \in [Socks -> Seq(Requests)]
      /\ cliSock' = [cliSock EXCEPT ![s] = Append(@, reqD[c])]
      /\ reqD' = [reqD EXCEPT ![c] = NoRequest]
      /\ UNCHANGED <<call, closed, srvSock, Window>>
  BY DEF IInv, TypeOK, ConsumerRespond, clientVars, ringVars, Window
<1>4. /\ HeldBy(c) = <<reqD[c]>>
      /\ HeldBy(c)' = << >>
      /\ \A d \in Consumers \ {c} : HeldBy(d)' = HeldBy(d)
  <2>1. reqD[c] # NoRequest
    BY <1>1, NoRequestAssumption
  <2>2. reqD'[c] = NoRequest /\ \A d \in Consumers \ {c} : reqD'[d] = reqD[d]
    BY <1>1, <1>3
  <2> QED
    BY <2>1, <2>2 DEF HeldBy
<1>5. cliSock'[s] = Append(cliSock[s], reqD[c]) /\ \A t \in Socks \ {s} : cliSock'[t] = cliSock[t]
  BY <1>2, <1>3
<1> HIDE DEF s
<1> DEFINE a == ConsumerStation(c)
           b == CliStation(s)
<1>6. a \in Stations /\ b \in Stations /\ a # b
  BY <1>2, StationsDiffer
<1>7. /\ Lines[a] # << >>
      /\ Lines'[a] = Tail(Lines[a])
      /\ Lines'[b] = Append(Lines[b], Head(Lines[a]))
  <2>1. <<reqD[c]>> # << >> /\ Head(<<reqD[c]>>) = reqD[c] /\ Tail(<<reqD[c]>>) = << >>
    OBVIOUS
  <2> QED
    BY <1>2, <1>4, <1>5, <2>1 DEF LinesInv
<1>8. \A x \in Stations \ {a, b} : Lines'[x] = Lines[x]
  <2>1. \A d \in Consumers \ {c} : Lines'[ConsumerStation(d)] = Lines[ConsumerStation(d)]
    BY <1>4 DEF LinesInv
  <2>2. \A t \in Socks \ {s} : Lines'[CliStation(t)] = Lines[CliStation(t)]
    BY <1>5 DEF LinesInv
  <2>3. Lines'[SrvStation] = Lines[SrvStation] /\ Lines'[RingStation] = Lines[RingStation]
    BY <1>3 DEF LinesInv
  <2> QED
    BY <2>1, <2>2, <2>3, StationsDiffer
<1> HIDE DEF a, b
<1>9. FlightInv'
  BY <1>3, <1>6, <1>7, <1>8, MoveStep
<1>10. AddressInv'
  <2> SUFFICES ASSUME NEW t \in Socks, NEW i \in 1 .. Len(cliSock'[t])
               PROVE  SockOf[cliSock'[t][i].caller] = t
    BY DEF AddressInv
  <2>1. CASE t # s
    BY <1>5, <2>1 DEF AddressInv
  <2>2. CASE t = s
    <3>1. /\ cliSock[s] \in Seq(Requests)
          /\ Len(cliSock'[s]) = Len(cliSock[s]) + 1
          /\ \A j \in 1 .. Len(cliSock[s]) : cliSock'[s][j] = cliSock[s][j]
          /\ cliSock'[s][Len(cliSock[s]) + 1] = reqD[c]
      BY <1>1, <1>2, <1>3, <1>5, AppendProperties
    <3>2. i \in 1 .. Len(cliSock[s]) \/ i = Len(cliSock[s]) + 1
      BY <2>2, <3>1
    <3> QED
      BY ZenonT(60), <1>2, <2>2, <3>1, <3>2 DEF AddressInv, s
  <2> QED
    BY <2>1, <2>2
<1> QED
  BY <1>9, <1>10

\* ProducerSkip drops a datagram that is no request.
LEMMA SkipDrops ==
    ASSUME IInv, LinesInv, LinesInv', FlightInv, ProducerSkip
    PROVE  FlightInv'
<1>1. srvSock # << >> /\ srvSock' = Tail(srvSock) /\ Head(srvSock) = Empty
  BY DEF ProducerSkip
<1>2. UNCHANGED <<call, closed, reqD, cliSock, Window>>
  BY DEF ProducerSkip, clientVars, ringVars, Window
<1> DEFINE a == SrvStation
<1>3. a \in Stations
  BY StationsDiffer
<1>4. Lines[a] # << >> /\ Lines'[a] = Tail(Lines[a]) /\ Head(Lines[a]) = Empty
  BY <1>1 DEF LinesInv
<1>5. \A x \in Stations \ {a} : Lines'[x] = Lines[x]
  BY <1>2, OnlySrvChanges
<1> HIDE DEF a
<1>6. Lines \in [Stations -> Seq(Datagrams)] /\ Lines' \in [Stations -> Seq(Datagrams)]
  BY DEF LinesInv, Stations, Datagrams, SrvStation, RingStation, ConsumerStation, CliStation
<1>7. Apart(Lines)
  BY DEF FlightInv
<1>8. /\ Apart(Lines')
      /\ \A r : InFlight(Lines', r) => InFlight(Lines, r)
      /\ \A r : r # Head(Lines[a]) /\ InFlight(Lines, r) => InFlight(Lines', r)
  BY <1>3, <1>4, <1>5, <1>6, <1>7, DropKeepsApart
<1>9. \A k \in Callers : call[k].st = "recv" => RequestOf(k) # Empty
  BY RequestIsTyped, NoRequestAssumption
<1> QED
  BY <1>2, <1>4, <1>8, <1>9 DEF FlightInv, RequestOf

\* An empty datagram joins the others at the server's socket.
LEMMA EmptyJoins ==
    ASSUME IInv, LinesInv, LinesInv', FlightInv, SendEmpty
    PROVE  FlightInv'
<1>1. srvSock' = Append(srvSock, Empty)
  BY DEF SendEmpty
<1>2. UNCHANGED <<call, closed, reqD, cliSock, Window>>
  BY DEF SendEmpty, clientVars, serverVars, ringVars, Window
<1> DEFINE a == SrvStation
<1>3. \A x \in Stations \ {a} : Lines'[x] = Lines[x]
  BY <1>2, OnlySrvChanges
<1>4. Lines \in [Stations -> Seq(Datagrams)] /\ Lines' \in [Stations -> Seq(Datagrams)]
  BY DEF LinesInv, Stations, Datagrams, SrvStation, RingStation, ConsumerStation, CliStation
<1>5. Apart(Lines) /\ Empty \in Datagrams /\ a \in Stations
  BY StationsDiffer DEF FlightInv, Datagrams
<1>6. Lines'[a] = Append(Lines[a], Empty)
  BY <1>1 DEF LinesInv
<1> HIDE DEF a
<1>7. /\ Apart(Lines')
      /\ \A r : InFlight(Lines, r) => InFlight(Lines', r)
      /\ \A r : r # Empty /\ InFlight(Lines', r) => InFlight(Lines, r)
  BY <1>3, <1>4, <1>5, <1>6, JoinKeepsApart
<1> QED
  BY <1>2, <1>7, NoRequestAssumption DEF FlightInv, RequestOf

-----------------------------------------------------------------------------
(* Every step of a client preserves the invariant. *)

\* A caller that is not waiting, before and after, has nothing in flight.
LEMMA NotWaiting ==
    ASSUME FlightInv, UNCHANGED <<Lines, closed>>,
           NEW k \in Callers, \A j \in Callers \ {k} : call'[j] = call[j],
           call[k].st # "recv", call'[k].st # "recv"
    PROVE  FlightInv'
<1>1. Lines' = Lines /\ closed' = closed
  OBVIOUS
<1>2. Apart(Lines')
  BY <1>1 DEF FlightInv
<1>3. ASSUME NEW r \in Requests, InFlight(Lines', r)
      PROVE  call'[r.caller].st = "recv" /\ r = RequestOf(r.caller)'
  <2>1. /\ call[r.caller].st = "recv" /\ r = RequestOf(r.caller)
    BY <1>1, <1>3 DEF FlightInv
  <2>2. r.caller \in Callers \ {k}
    BY <2>1 DEF Requests
  <2> QED
    BY <2>1, <2>2 DEF RequestOf
<1>4. ASSUME NEW j \in Callers, call'[j].st = "recv", SockOf[j] \notin closed'
      PROVE  InFlight(Lines', RequestOf(j)')
  <2>1. j # k /\ call'[j] = call[j]
    BY <1>4
  <2>2. InFlight(Lines, RequestOf(j))
    BY <1>1, <1>4, <2>1 DEF FlightInv
  <2>3. RequestOf(j)' = RequestOf(j)
    BY <2>1 DEF RequestOf
  <2> QED
    BY <1>1, <2>2, <2>3
<1> QED
  BY <1>2, <1>3, <1>4 DEF FlightInv

\* A call is begun, or ends before its request was sent.
LEMMA CallReadStep ==
    ASSUME IInv, DeliveryInv, NEW k \in Callers, CallRead(k)
    PROVE  FlightInv' /\ CallGetsItsReply'
<1>1. UNCHANGED <<Lines, closed>>
  BY DEF CallRead, serverVars, netVars, ringVars, Lines, Window, HeldBy
<1>2. /\ call[k].st = "idle"
      /\ call'[k].st = "bump" /\ call'[k].result = "none"
      /\ \A j \in Callers \ {k} : call'[j] = call[j]
  BY DEF CallRead, IInv, TypeOK
<1>3. FlightInv'
  BY <1>1, <1>2, NotWaiting DEF DeliveryInv
<1>4. CallGetsItsReply'
  BY <1>2 DEF CallGetsItsReply, RequestOf, DeliveryInv
<1> QED
  BY <1>3, <1>4

\* Taking the next serial touches no message: only the record of the call and the counter change.
LEMMA CallBumpStep ==
    ASSUME IInv, DeliveryInv, NEW k \in Callers, CallBump(k)
    PROVE  FlightInv' /\ CallGetsItsReply'
<1>1. UNCHANGED <<Lines, closed>>
  BY DEF CallBump, serverVars, netVars, ringVars, Lines, Window, HeldBy
<1>2. /\ call[k].st = "bump"
      /\ call'[k] = [call[k] EXCEPT !.st = "send"]
      /\ \A j \in Callers \ {k} : call'[j] = call[j]
  BY DEF CallBump, IInv, TypeOK
<1>3. call[k] \in CallRecord
  BY DEF IInv, TypeOK
<1>4. /\ call'[k].st = "send" /\ call'[k].n = call[k].n /\ call'[k].sn = call[k].sn
      /\ call'[k].result = call[k].result /\ call'[k].got = call[k].got
  BY <1>2, <1>3 DEF CallRecord
<1>5. FlightInv'
  BY <1>1, <1>2, <1>4, NotWaiting DEF DeliveryInv
<1>6. \A j \in Callers : RequestOf(j)' = RequestOf(j)
  BY <1>2, <1>4 DEF RequestOf
<1>7. CallGetsItsReply'
  BY <1>2, <1>4, <1>6 DEF CallGetsItsReply, DeliveryInv
<1> QED
  BY <1>5, <1>7

\* The request of a call that is sent was nowhere before.
LEMMA CallSendStep ==
    ASSUME IInv, DeliveryInv, LinesInv, LinesInv', NEW k \in Callers, CallSend(k)
    PROVE  FlightInv' /\ CallGetsItsReply'
<1>1. /\ call[k] \in CallRecord
      /\ call[k].st = "send"
      /\ \A j \in Callers \ {k} : call'[j] = call[j]
      /\ closed' = closed
  BY DEF CallSend, IInv, TypeOK
<1>2. UNCHANGED <<reqD, cliSock, Window>>
  BY DEF CallSend, serverVars, ringVars, Window
<1> DEFINE r == RequestOf(k)
<1>3. r \in Requests /\ r.caller = k
  BY <1>1, RequestIsTyped
<1>4. CASE srvUp
  <2>1. /\ srvSock' = Append(srvSock, r)
        /\ call'[k] = [call[k] EXCEPT !.st = "recv"]
    BY <1>1, <1>4 DEF CallSend, IInv, TypeOK
  <2>2. /\ call'[k].st = "recv" /\ call'[k].n = call[k].n /\ call'[k].sn = call[k].sn
        /\ call'[k].result = call[k].result /\ call'[k].got = call[k].got
    BY <1>1, <2>1 DEF CallRecord
  <2>3. \A j \in Callers : RequestOf(j)' = RequestOf(j)
    BY <1>1, <2>2 DEF RequestOf
  <2>4. ~InFlight(Lines, r)
    BY <1>1, <1>3 DEF DeliveryInv, FlightInv
  <2> DEFINE a == SrvStation
  <2>5. \A x \in Stations \ {a} : Lines'[x] = Lines[x]
    BY <1>2, OnlySrvChanges
  <2>6. Lines \in [Stations -> Seq(Datagrams)] /\ Lines' \in [Stations -> Seq(Datagrams)]
    BY DEF LinesInv, Stations, Datagrams, SrvStation, RingStation, ConsumerStation, CliStation
  <2>7. Apart(Lines) /\ r \in Datagrams /\ a \in Stations
    BY <1>3, StationsDiffer DEF DeliveryInv, FlightInv, Datagrams
  <2>8. Lines'[a] = Append(Lines[a], r)
    BY <2>1 DEF LinesInv
  <2> HIDE DEF a, r
  <2>9. /\ Apart(Lines')
        /\ InFlight(Lines', r)
        /\ \A q : InFlight(Lines, q) => InFlight(Lines', q)
        /\ \A q : q # r /\ InFlight(Lines', q) => InFlight(Lines, q)
    BY <2>4, <2>5, <2>6, <2>7, <2>8, JoinKeepsApart
  <2>10. ASSUME NEW q \in Requests, InFlight(Lines', q)
         PROVE  call'[q.caller].st = "recv" /\ q = RequestOf(q.caller)'
    <3>1. q.caller \in Callers
      BY DEF Requests
    <3>2. CASE q = r
      BY <1>3, <2>2, <2>3, <3>2 DEF r
    <3>3. CASE q # r
      <4>1. call[q.caller].st = "recv" /\ q = RequestOf(q.caller)
        BY <2>9, <2>10, <3>3 DEF DeliveryInv, FlightInv
      <4> QED
        BY <1>1, <2>2, <2>3, <3>1, <4>1
    <3> QED
      BY <3>2, <3>3
  <2>11. ASSUME NEW j \in Callers, call'[j].st = "recv", SockOf[j] \notin closed'
         PROVE  InFlight(Lines', RequestOf(j)')
    <3>1. CASE j = k
      BY <2>3, <2>9, <3>1 DEF r
    <3>2. CASE j # k
      BY <1>1, <2>3, <2>9, <2>11, <3>2 DEF DeliveryInv, FlightInv
    <3> QED
      BY <3>1, <3>2
  <2>12. CallGetsItsReply'
    BY <1>1, <2>2, <2>3 DEF CallGetsItsReply, DeliveryInv
  <2> QED
    BY <2>9, <2>10, <2>11, <2>12 DEF FlightInv
<1>5. CASE ~srvUp
  <2>1. /\ srvSock' = srvSock
        /\ call'[k] = [call[k] EXCEPT !.st = "idle", !.result = "refused"]
    BY <1>1, <1>5 DEF CallSend, IInv, TypeOK
  <2>2. call'[k].st = "idle" /\ call'[k].result = "refused"
    BY <1>1, <2>1 DEF CallRecord
  <2>3. UNCHANGED Lines
    BY <1>2, <2>1 DEF Lines, HeldBy
  <2>4. FlightInv'
    BY <1>1, <2>2, <2>3, NotWaiting DEF DeliveryInv
  <2>5. CallGetsItsReply'
    BY <1>1, <2>2 DEF CallGetsItsReply, RequestOf, DeliveryInv
  <2> QED
    BY <2>4, <2>5
<1> QED
  BY <1>4, <1>5

\* The answer that a caller with a socket of its own receives is its own.
LEMMA CallRecvStep ==
    ASSUME OwnSockets, IInv, DeliveryInv, LinesInv, LinesInv', NEW k \in Callers, CallRecv(k)
    PROVE  FlightInv' /\ AddressInv' /\ CallGetsItsReply'
<1> DEFINE s == SockOf[k]
           r == Head(cliSock[s])
<1>1. /\ call[k] \in CallRecord
      /\ call[k].st = "recv"
      /\ \A j \in Callers \ {k} : call'[j] = call[j]
      /\ call'[k] = [call[k] EXCEPT !.st = "idle",
                                    !.result = IF r.sn = call[k].sn THEN "ok" ELSE "mismatch",
                                    !.got = r]
      /\ UNCHANGED <<closed, srvSock, reqD, Window>>
  BY DEF CallRecv, IInv, TypeOK, serverVars, ringVars, Window
<1>2. s \in Socks
  BY RequestServerAssumption
<1>3. /\ cliSock[s] \in Seq(Requests) /\ cliSock[s] # << >>
      /\ cliSock'[s] = Tail(cliSock[s])
      /\ \A t \in Socks \ {s} : cliSock'[t] = cliSock[t]
  BY <1>2 DEF CallRecv, IInv, TypeOK
<1> DEFINE a == CliStation(s)
<1>4. a \in Stations
  BY <1>2, StationsDiffer
<1>5. Lines[a] # << >> /\ Lines'[a] = Tail(Lines[a]) /\ Head(Lines[a]) = r /\ Lines[a] = cliSock[s]
  BY <1>2, <1>3 DEF LinesInv
<1>6. \A x \in Stations \ {a} : Lines'[x] = Lines[x]
  <2>1. \A d \in Consumers : Lines'[ConsumerStation(d)] = Lines[ConsumerStation(d)]
    BY ZenonT(60), <1>1 DEF LinesInv, HeldBy
  <2>2. \A t \in Socks \ {s} : Lines'[CliStation(t)] = Lines[CliStation(t)]
    BY <1>3 DEF LinesInv
  <2>3. Lines'[SrvStation] = Lines[SrvStation] /\ Lines'[RingStation] = Lines[RingStation]
    BY <1>1 DEF LinesInv
  <2> QED
    BY <2>1, <2>2, <2>3, StationsDiffer
<1>7. r \in Requests /\ Len(cliSock[s]) \in Nat \ {0} /\ r = cliSock[s][1]
  BY <1>3, HeadTailProperties, EmptySeq
<1>8. InFlight(Lines, r)
  BY <1>4, <1>5, <1>7 DEF InFlight
<1>9. r.caller = k /\ r = RequestOf(k) /\ r # Empty
  <2>1. r.caller \in Callers
    BY <1>7 DEF Requests
  <2>2. SockOf[r.caller] = s
    BY <1>2, <1>7 DEF DeliveryInv, AddressInv
  <2>3. r.caller = k
    BY <2>1, <2>2 DEF OwnSockets
  <2> QED
    BY <1>7, <1>8, <2>3, NoRequestAssumption DEF DeliveryInv, FlightInv
<1>10. call'[k].st = "idle" /\ call'[k].result = "ok" /\ call'[k].got = r
       /\ call'[k].n = call[k].n /\ call'[k].sn = call[k].sn
  <2>1. r.sn = call[k].sn
    BY <1>9 DEF RequestOf
  <2>2. call'[k] = [call[k] EXCEPT !.st = "idle", !.result = "ok", !.got = r]
    BY <1>1, <2>1
  <2> HIDE DEF r
  <2> QED
    BY <1>1, <2>2 DEF CallRecord
<1> HIDE DEF a, r
<1>11. \A j \in Callers : RequestOf(j)' = RequestOf(j)
  BY <1>1, <1>10 DEF RequestOf
<1>12. Lines \in [Stations -> Seq(Datagrams)] /\ Lines' \in [Stations -> Seq(Datagrams)]
  BY DEF LinesInv, Stations, Datagrams, SrvStation, RingStation, ConsumerStation, CliStation
<1>13. Apart(Lines)
  BY DEF DeliveryInv, FlightInv
<1>14. /\ Apart(Lines')
       /\ \A q : InFlight(Lines', q) => InFlight(Lines, q)
       /\ \A q : q # r /\ InFlight(Lines, q) => InFlight(Lines', q)
       /\ ~InFlight(Lines', r)
  BY <1>4, <1>5, <1>6, <1>9, <1>12, <1>13, DropKeepsApart
<1>15. ASSUME NEW q \in Requests, InFlight(Lines', q)
       PROVE  call'[q.caller].st = "recv" /\ q = RequestOf(q.caller)'
  <2>1. q.caller \in Callers
    BY DEF Requests
  <2>2. InFlight(Lines, q) /\ q # r
    BY <1>14, <1>15
  <2>3. call[q.caller].st = "recv" /\ q = RequestOf(q.caller)
    BY <2>2 DEF DeliveryInv, FlightInv
  <2>4. q.caller # k
    BY <1>9, <2>2, <2>3
  <2> QED
    BY <1>1, <1>11, <2>1, <2>3, <2>4
<1>16. ASSUME NEW j \in Callers, call'[j].st = "recv", SockOf[j] \notin closed'
       PROVE  InFlight(Lines', RequestOf(j)')
  <2>1. j # k /\ call'[j] = call[j] /\ SockOf[j] \notin closed
    BY <1>1, <1>10, <1>16
  <2>2. InFlight(Lines, RequestOf(j))
    BY <1>16, <2>1 DEF DeliveryInv, FlightInv
  <2>3. RequestOf(j) # r
    BY <1>9, <2>1 DEF RequestOf
  <2> QED
    BY <1>11, <1>14, <2>2, <2>3
<1>17. FlightInv'
  BY <1>14, <1>15, <1>16 DEF FlightInv
<1>18. AddressInv'
  <2> SUFFICES ASSUME NEW t \in Socks, NEW i \in 1 .. Len(cliSock'[t])
               PROVE  SockOf[cliSock'[t][i].caller] = t
    BY DEF AddressInv
  <2>1. CASE t # s
    BY <1>3, <2>1 DEF DeliveryInv, AddressInv
  <2>2. CASE t = s
    <3>1. /\ Len(Tail(cliSock[s])) = Len(cliSock[s]) - 1
          /\ \A m \in 1 .. Len(Tail(cliSock[s])) : Tail(cliSock[s])[m] = cliSock[s][m + 1]
      BY <1>3, HeadTailProperties
    <3>2. i \in 1 .. Len(Tail(cliSock[s])) /\ cliSock'[s][i] = Tail(cliSock[s])[i]
      BY <1>3, <2>2
    <3>3. i + 1 \in 1 .. Len(cliSock[s]) /\ cliSock'[s][i] = cliSock[s][i + 1]
      BY <1>7, <3>1, <3>2
    <3> QED
      BY <1>2, <2>2, <3>3 DEF DeliveryInv, AddressInv
  <2> QED
    BY <2>1, <2>2
<1>19. CallGetsItsReply'
  <2> SUFFICES ASSUME NEW j \in Callers, call'[j].result \in {"ok", "mismatch"}
               PROVE  call'[j].result = "ok" /\ call'[j].got = RequestOf(j)'
    BY DEF CallGetsItsReply
  <2>1. CASE j = k
    BY <1>9, <1>10, <1>11, <2>1
  <2>2. CASE j # k
    BY <1>1, <1>11, <2>2 DEF CallGetsItsReply, DeliveryInv
  <2> QED
    BY <2>1, <2>2
<1> QED
  BY <1>17, <1>18, <1>19

\* A killed client takes only its own answers with it.
LEMMA KillStep ==
    ASSUME IInv, DeliveryInv, LinesInv, LinesInv', NEW s \in Socks, Kill(s)
    PROVE  FlightInv' /\ AddressInv' /\ CallGetsItsReply'
<1>1. /\ UNCHANGED <<call, srvSock, reqD, Window>>
      /\ closed' = closed \cup {s}
  BY DEF Kill, serverVars, ringVars, clientVars, Window
<1>2. /\ cliSock \in [Socks -> Seq(Requests)]
      /\ cliSock'[s] = << >>
      /\ \A t \in Socks \ {s} : cliSock'[t] = cliSock[t]
  BY DEF Kill, IInv, TypeOK
<1> DEFINE a == CliStation(s)
<1>3. a \in Stations /\ Lines'[a] = << >> /\ Lines[a] = cliSock[s]
  BY <1>2, StationsDiffer DEF LinesInv
<1>4. \A x \in Stations \ {a} : Lines'[x] = Lines[x]
  <2>1. \A d \in Consumers : Lines'[ConsumerStation(d)] = Lines[ConsumerStation(d)]
    BY <1>1 DEF LinesInv, HeldBy
  <2>2. \A t \in Socks \ {s} : Lines'[CliStation(t)] = Lines[CliStation(t)]
    BY <1>2 DEF LinesInv
  <2>3. Lines'[SrvStation] = Lines[SrvStation] /\ Lines'[RingStation] = Lines[RingStation]
    BY <1>1 DEF LinesInv
  <2> QED
    BY <2>1, <2>2, <2>3, StationsDiffer
<1> HIDE DEF a
<1>5. Lines \in [Stations -> Seq(Datagrams)] /\ Lines' \in [Stations -> Seq(Datagrams)]
  BY DEF LinesInv, Stations, Datagrams, SrvStation, RingStation, ConsumerStation, CliStation
<1>6. Apart(Lines)
  BY DEF DeliveryInv, FlightInv
<1>7. /\ Apart(Lines')
      /\ \A q : InFlight(Lines', q) => InFlight(Lines, q)
  BY <1>3, <1>4, <1>5, <1>6, ClearKeepsApart
<1>8. ASSUME NEW j \in Callers, call'[j].st = "recv", SockOf[j] \notin closed'
      PROVE  InFlight(Lines', RequestOf(j)')
  <2>1. SockOf[j] # s /\ SockOf[j] \notin closed /\ call[j].st = "recv"
    BY <1>1, <1>8
  <2>2. InFlight(Lines, RequestOf(j))
    BY <2>1 DEF DeliveryInv, FlightInv
  <2>3. \A i \in 1 .. Len(cliSock[s]) : cliSock[s][i] # RequestOf(j)
    BY <2>1 DEF DeliveryInv, AddressInv, RequestOf
  <2>4. RequestOf(j)' = RequestOf(j)
    BY <1>1 DEF RequestOf
  <2> QED
    <3>1. PICK x \in Stations : \E i \in 1 .. Len(Lines[x]) : Lines[x][i] = RequestOf(j)
      BY <2>2 DEF InFlight
    <3>2. x # a
      BY <1>3, <2>3, <3>1
    <3>3. Lines'[x] = Lines[x]
      BY <1>4, <3>2
    <3> QED
      BY <2>4, <3>1, <3>3 DEF InFlight
<1>9. ASSUME NEW q \in Requests, InFlight(Lines', q)
      PROVE  call'[q.caller].st = "recv" /\ q = RequestOf(q.caller)'
  BY <1>1, <1>7, <1>9 DEF DeliveryInv, FlightInv, RequestOf
<1>10. FlightInv'
  BY <1>7, <1>8, <1>9 DEF FlightInv
<1>11. AddressInv'
  <2> SUFFICES ASSUME NEW t \in Socks, NEW i \in 1 .. Len(cliSock'[t])
               PROVE  SockOf[cliSock'[t][i].caller] = t
    BY DEF AddressInv
  <2>1. t # s
    BY <1>2, EmptySeq
  <2> QED
    BY <1>2, <2>1 DEF DeliveryInv, AddressInv
<1>12. CallGetsItsReply'
  BY <1>1 DEF CallGetsItsReply, RequestOf, DeliveryInv
<1> QED
  BY <1>10, <1>11, <1>12

\* The server exits on an answer to a caller that is killed while it waits,
\* and that caller waits for ever.
LEMMA ExitStep ==
    ASSUME IInv, DeliveryInv, LinesInv, [Next]_vars
    PROVE  ExitOnlyMidCall'
<1> SUFFICES ASSUME ~srvUp'
             PROVE  \E k \in Callers : SockOf[k] \in closed' /\ call'[k].st = "recv"
  BY DEF ExitOnlyMidCall
<1>1. CASE ~srvUp
  <2>1. PICK k \in Callers : SockOf[k] \in closed /\ call[k].st = "recv"
    BY <1>1 DEF DeliveryInv, ExitOnlyMidCall
  <2>2. SockOf[k] \in closed'
    BY <2>1 DEF Next, ConsumerStep, ProducerStep, CallerStep, MonitorEnter, ConsumerWait,
        ConsumerTake, ConsumerRespond, ConsumerExit, ProducerWait, ProducerPoll, ProducerPut,
        ProducerSkip, SpuriousWakeup, CallRead, CallBump, CallSend, CallRecv, Kill, SendEmpty,
        vars, netVars
  <2>3. call'[k] = call[k]
    <3>1. ASSUME NEW j \in Callers, CallerStep(j)
          PROVE  call'[k] = call[k]
      BY <2>1, <3>1 DEF CallerStep, CallRead, CallBump, CallSend, CallRecv, IInv, TypeOK
    <3>2. CASE UNCHANGED call
      BY <3>2
    <3> QED
      BY <3>1, <3>2 DEF Next, ConsumerStep, ProducerStep, MonitorEnter, ConsumerWait,
          ConsumerTake, ConsumerRespond, ConsumerExit, ProducerWait, ProducerPoll, ProducerPut,
          ProducerSkip, SpuriousWakeup, Kill, SendEmpty, vars, clientVars
  <2> QED
    BY <2>1, <2>2, <2>3
<1>2. CASE srvUp
  <2>1. PICK c \in Consumers : ConsumerExit(c)
    BY <1>2 DEF Next, ConsumerStep, ProducerStep, CallerStep, MonitorEnter, ConsumerWait,
        ConsumerTake, ConsumerRespond, ProducerWait, ProducerPoll, ProducerPut,
        ProducerSkip, SpuriousWakeup, CallRead, CallBump, CallSend, CallRecv, Kill, SendEmpty,
        vars, serverVars
  <2>2. reqD[c] \in Requests
    BY <2>1 DEF ConsumerExit, IInv, TypeOK, StageInv
  <2>3. InFlight(Lines, reqD[c])
    <3>1. Lines[ConsumerStation(c)] = <<reqD[c]>>
      BY <2>2, NoRequestAssumption DEF LinesInv, HeldBy
    <3>2. 1 \in 1 .. Len(<<reqD[c]>>) /\ <<reqD[c]>>[1] = reqD[c]
      OBVIOUS
    <3>3. ConsumerStation(c) \in Stations
      BY StationsDiffer
    <3> QED
      BY <3>1, <3>2, <3>3 DEF InFlight
  <2>4. reqD[c].caller \in Callers /\ call[reqD[c].caller].st = "recv"
    BY <2>2, <2>3 DEF DeliveryInv, FlightInv, Requests
  <2>5. SockOf[reqD[c].caller] \in closed
    BY <2>1 DEF ConsumerExit
  <2>6. UNCHANGED <<closed, call>>
    BY <2>1 DEF ConsumerExit, netVars, clientVars
  <2> QED
    BY <2>4, <2>5, <2>6
<1> QED
  BY <1>1, <1>2

-----------------------------------------------------------------------------
(* Theorems *)

\* No message is on its way and no call is open at the start.
LEMMA DeliveryInit == Init => DeliveryInv
<1> SUFFICES ASSUME Init PROVE DeliveryInv
  OBVIOUS
<1>1. Lines = [x \in Stations |-> << >>]
  <2>1. \A c \in Consumers : HeldBy(c) = << >>
    BY DEF Init, HeldBy
  <2>2. Window = << >> /\ srvSock = << >> /\ \A s \in Socks : cliSock[s] = << >>
    BY DEF Init, Window
  <2>3. ASSUME NEW x \in Stations
        PROVE  (IF x = SrvStation THEN srvSock
                ELSE IF x = RingStation THEN Window
                ELSE IF x[1] = "consumer" THEN HeldBy(x[2])
                ELSE cliSock[x[2]]) = << >>
    BY <2>1, <2>2 DEF Stations, SrvStation, RingStation, ConsumerStation, CliStation
  <2> QED
    BY <2>3 DEF Lines
<1>2. ASSUME NEW x \in Stations, NEW i \in 1 .. Len(Lines[x])
      PROVE  FALSE
  BY <1>1, EmptySeq
<1>3. Apart(Lines) /\ \A r : ~InFlight(Lines, r)
  BY <1>2 DEF Apart, InFlight
<1>4. \A k \in Callers : call[k].st = "idle" /\ call[k].result = "none"
  BY DEF Init
<1>5. FlightInv
  BY <1>3, <1>4 DEF FlightInv
<1>6. AddressInv
  BY EmptySeq DEF AddressInv, Init
<1>7. CallGetsItsReply /\ ExitOnlyMidCall
  BY <1>4 DEF CallGetsItsReply, ExitOnlyMidCall, Init
<1> QED
  BY <1>5, <1>6, <1>7 DEF DeliveryInv

\* Every step of the system preserves the invariant.
LEMMA DeliveryStep ==
    ASSUME OwnSockets, IInv, WindowInv, WindowInv', LinesInv, LinesInv', DeliveryInv, [Next]_vars
    PROVE  DeliveryInv'
<1> USE DEF DeliveryInv
<1>1. ASSUME UNCHANGED <<call, closed, cliSock, Lines>>
      PROVE  FlightInv' /\ AddressInv' /\ CallGetsItsReply'
  BY <1>1 DEF FlightInv, AddressInv, CallGetsItsReply, RequestOf
<1>2. ASSUME UNCHANGED <<call, closed, cliSock>>
      PROVE  AddressInv' /\ CallGetsItsReply'
  BY <1>2 DEF AddressInv, CallGetsItsReply, RequestOf
<1>3. ASSUME NEW c \in Consumers, ConsumerTake(c)
      PROVE  FlightInv' /\ AddressInv' /\ CallGetsItsReply'
  BY <1>2, <1>3, TakeMoves DEF ConsumerTake, netVars, clientVars
<1>4. ASSUME NEW c \in Consumers, ConsumerRespond(c)
      PROVE  FlightInv' /\ AddressInv' /\ CallGetsItsReply'
  <2>1. FlightInv' /\ AddressInv'
    BY <1>4, RespondMoves
  <2>2. CallGetsItsReply'
    BY <1>4 DEF ConsumerRespond, clientVars, CallGetsItsReply, RequestOf
  <2> QED
    BY <2>1, <2>2
<1>5. ASSUME ProducerPut
      PROVE  FlightInv' /\ AddressInv' /\ CallGetsItsReply'
  BY <1>2, <1>5, PutMoves DEF ProducerPut, clientVars
<1>6. ASSUME ProducerSkip
      PROVE  FlightInv' /\ AddressInv' /\ CallGetsItsReply'
  BY <1>2, <1>6, SkipDrops DEF ProducerSkip, clientVars
<1>7. ASSUME NEW k \in Callers, CallRead(k)
      PROVE  FlightInv' /\ AddressInv' /\ CallGetsItsReply'
  BY <1>7, CallReadStep DEF CallRead, netVars, AddressInv
<1>8. ASSUME NEW k \in Callers, CallBump(k)
      PROVE  FlightInv' /\ AddressInv' /\ CallGetsItsReply'
  BY <1>8, CallBumpStep DEF CallBump, netVars, AddressInv
<1>9. ASSUME NEW k \in Callers, CallSend(k)
      PROVE  FlightInv' /\ AddressInv' /\ CallGetsItsReply'
  BY <1>9, CallSendStep DEF CallSend, AddressInv
<1>10. ASSUME NEW k \in Callers, CallRecv(k)
       PROVE  FlightInv' /\ AddressInv' /\ CallGetsItsReply'
  BY <1>10, CallRecvStep
<1>11. ASSUME NEW s \in Socks, Kill(s)
       PROVE  FlightInv' /\ AddressInv' /\ CallGetsItsReply'
  BY <1>11, KillStep
<1>12. ASSUME SendEmpty
      PROVE  FlightInv' /\ AddressInv' /\ CallGetsItsReply'
  BY <1>2, <1>12, EmptyJoins DEF SendEmpty, clientVars
<1>13. ASSUME UNCHANGED <<ringVars, reqD, netVars, clientVars>>
       PROVE  FlightInv' /\ AddressInv' /\ CallGetsItsReply'
  BY <1>1, <1>13 DEF ringVars, netVars, clientVars, Lines, Window, HeldBy
<1>14. FlightInv' /\ AddressInv' /\ CallGetsItsReply'
  BY <1>3, <1>4, <1>5, <1>6, <1>7, <1>8, <1>9, <1>10, <1>11, <1>12, <1>13
  DEF Next, ConsumerStep, ProducerStep, CallerStep, MonitorEnter, ConsumerWait,
      ConsumerExit, ProducerWait, ProducerPoll, SpuriousWakeup, vars, serverVars
<1>15. ExitOnlyMidCall'
  BY ExitStep
<1> QED
  BY <1>14, <1>15

\* With a socket for each caller of its own, the messages on their way stay in their lines
\* and every call gets its own answer.
LEMMA DeliveryInvariance ==
    ASSUME OwnSockets
    PROVE  Spec => [](IInv /\ LinesInv /\ DeliveryInv)
<1>1. IInv /\ WindowInv /\ WindowInv' /\ LinesInv /\ LinesInv' /\ DeliveryInv /\ [Next]_vars
          => DeliveryInv'
  BY DeliveryStep
<1> QED
  BY Invariance, WindowIsSeq, LinesAreSeqs, DeliveryInit, <1>1, PTL DEF Spec

\* Whoever got an answer got the answer to its own request and accepted it:
\* serial numbers never mismatch, for any number of consumers and clients and
\* any ring size (server.c:85-101, 220; snfs_api.c:51-52, 91-94).
THEOREM RepliesFindTheirCalls ==
    ASSUME OwnSockets
    PROVE  Spec => []CallGetsItsReply
<1>1. IInv /\ LinesInv /\ DeliveryInv => CallGetsItsReply
  BY DEF DeliveryInv
<1> QED
  BY DeliveryInvariance, <1>1, PTL

\* The server goes down only when a client was killed while it waited for an
\* answer (server.c:164-168).
THEOREM ServerExitsOnlyMidCall ==
    ASSUME OwnSockets
    PROVE  Spec => []ExitOnlyMidCall
<1>1. IInv /\ LinesInv /\ DeliveryInv => ExitOnlyMidCall
  BY DEF DeliveryInv
<1> QED
  BY DeliveryInvariance, <1>1, PTL

\* While a caller waits, its request or the answer stands in exactly one
\* place: no step of the server loses it, duplicates it or hands it to two
\* consumers (server.c:85-101, 190-220, 252-255).
THEOREM NoRequestIsLost ==
    ASSUME OwnSockets
    PROVE  Spec => []RequestConserved
<1>1. ASSUME IInv, LinesInv, DeliveryInv, NEW k \in Callers,
             call[k].st = "recv", SockOf[k] \notin closed
      PROVE  Cardinality(Places(k)) = 1
  <2> DEFINE r == RequestOf(k)
             s == SockOf[k]
             place(x, i) == IF x = SrvStation THEN <<"srvSock", i>>
                            ELSE IF x = RingStation THEN <<"ring", i>>
                            ELSE IF x[1] = "consumer" THEN <<"consumer", x[2]>>
                            ELSE <<"cliSock", i>>
  <2>1. r \in Requests /\ r.caller = k /\ s \in Socks /\ r # Empty /\ r # NoRequest
    BY <1>1, RequestIsTyped, RequestServerAssumption, NoRequestAssumption
  <2>2. \A c \in Consumers : ConsumerStation(c)[1] = "consumer" /\ ConsumerStation(c)[2] = c
    BY DEF ConsumerStation
  <2>3. CliStation(s)[1] # "consumer"
    BY DEF CliStation
  <2>4. \A i : /\ place(SrvStation, i) = <<"srvSock", i>>
               /\ place(RingStation, i) = <<"ring", i>>
               /\ \A c \in Consumers : place(ConsumerStation(c), i) = <<"consumer", c>>
               /\ place(CliStation(s), i) = <<"cliSock", i>>
    BY <2>1, <2>2, <2>3, StationsDiffer
  <2> HIDE DEF r, s, place
  <2>5. PICK x \in Stations : \E i \in 1 .. Len(Lines[x]) : Lines[x][i] = r
    BY <1>1 DEF DeliveryInv, FlightInv, InFlight, r
  <2>6. PICK i \in 1 .. Len(Lines[x]) : Lines[x][i] = r
    BY <2>5
  <2>7. ASSUME NEW y \in Stations, NEW j \in 1 .. Len(Lines[y]), Lines[y][j] = r
        PROVE  y = x /\ j = i
    BY <1>1, <2>1, <2>6, <2>7 DEF DeliveryInv, FlightInv, Apart
  <2>8. /\ SrvStation \in Stations /\ Lines[SrvStation] = srvSock
        /\ RingStation \in Stations /\ Lines[RingStation] = Window
        /\ CliStation(s) \in Stations /\ Lines[CliStation(s)] = cliSock[s]
        /\ \A c \in Consumers : ConsumerStation(c) \in Stations
                                /\ Lines[ConsumerStation(c)] = HeldBy(c)
    BY <1>1, <2>1, StationsDiffer DEF LinesInv
  <2>9. /\ DOMAIN srvSock = 1 .. Len(srvSock)
        /\ DOMAIN Window = 1 .. Len(Window)
        /\ DOMAIN cliSock[s] = 1 .. Len(cliSock[s])
    <3>1. srvSock \in Seq(Requests \cup {Empty}) /\ cliSock[s] \in Seq(Requests)
      BY <1>1, <2>1 DEF IInv, TypeOK
    <3>2. Window \in Seq(Requests)
      BY <1>1, WindowIsSeq DEF WindowInv
    <3> QED
      BY <3>1, <3>2, LenProperties
  <2>10. \A c \in Consumers : reqD[c] = r => 1 \in 1 .. Len(HeldBy(c)) /\ HeldBy(c)[1] = r
    BY <2>1 DEF HeldBy
  <2>11. ASSUME NEW e \in Places(k)
         PROVE  e = place(x, i)
    <3>1. CASE \E j \in DOMAIN srvSock : srvSock[j] = r /\ e = <<"srvSock", j>>
      BY <2>4, <2>7, <2>8, <2>9, <3>1
    <3>2. CASE \E j \in DOMAIN Window : Window[j] = r /\ e = <<"ring", j>>
      BY <2>4, <2>7, <2>8, <2>9, <3>2
    <3>3. CASE \E c \in Consumers : reqD[c] = r /\ e = <<"consumer", c>>
      BY <2>4, <2>7, <2>8, <2>10, <3>3
    <3>4. CASE \E j \in DOMAIN cliSock[s] : cliSock[s][j] = r /\ e = <<"cliSock", j>>
      BY <2>4, <2>7, <2>8, <2>9, <3>4
    <3> QED
      BY <3>1, <3>2, <3>3, <3>4 DEF Places, r, s
  <2>12. place(x, i) \in Places(k)
    <3>1. CASE x = SrvStation
      BY <2>4, <2>6, <2>8, <2>9, <3>1 DEF Places, r
    <3>2. CASE x = RingStation
      BY <2>4, <2>6, <2>8, <2>9, <3>2 DEF Places, r
    <3>3. ASSUME NEW c \in Consumers, x = ConsumerStation(c)
          PROVE  place(x, i) \in Places(k)
      <4>1. HeldBy(c)[i] = r /\ i \in 1 .. Len(HeldBy(c))
        BY <2>6, <2>8, <3>3
      <4>2. reqD[c] = r
        <5>1. reqD[c] # NoRequest
          BY <4>1, EmptySeq DEF HeldBy
        <5>2. i \in 1 .. Len(<<reqD[c]>>) /\ <<reqD[c]>>[i] = r
          BY <4>1, <5>1 DEF HeldBy
        <5> QED
          BY <5>2
      <4> QED
        BY <2>4, <3>3, <4>2 DEF Places, r
    <3>4. ASSUME NEW t \in Socks, x = CliStation(t)
          PROVE  place(x, i) \in Places(k)
      <4>1. Lines[x] = cliSock[t]
        BY <1>1, <3>4 DEF LinesInv
      <4>2. SockOf[r.caller] = t
        BY <1>1, <2>6, <4>1 DEF DeliveryInv, AddressInv
      <4>3. t = s
        BY <2>1, <4>2 DEF s
      <4> QED
        BY <2>4, <2>6, <2>9, <3>4, <4>1, <4>3 DEF Places, r, s
    <3> QED
      BY <3>1, <3>2, <3>3, <3>4, StationsDiffer
  <2>13. Places(k) = {place(x, i)}
    BY <2>11, <2>12
  <2> QED
    BY <2>13, FS_Singleton
<1>2. IInv /\ LinesInv /\ DeliveryInv => RequestConserved
  BY <1>1 DEF RequestConserved
<1> QED
  BY DeliveryInvariance, <1>2, PTL

==============================================================================
