---------------------------- MODULE RequestServer ----------------------------
(***************************************************************************)
(* The request path of the SNFS server (snfs_server/server.c) on native    *)
(* threads (sthread_lib/sthread_pthread.c, the default build), together    *)
(* with the clients' remote calls (snfs_lib/snfs_api.c).                   *)
(*                                                                         *)
(* One producer thread receives datagrams and puts them into a ring; a     *)
(* pool of consumers takes them out, runs the handler and answers.  Ring,  *)
(* positions and counter are protected by one monitor: a pthread mutex     *)
(* (monOwner) and one condition (waiting) that producer and consumers      *)
(* share.  Whatever a thread does between two lock operations of the       *)
(* monitor is one step: no other thread can see its middle.                *)
(*                                                                         *)
(* A caller is a thread of a client process.  Callers of one process share *)
(* its socket and its serial number counter (SockOf).  A request carries   *)
(* its serial number, and who sent it in which call: the latter two are    *)
(* only there for the properties.                                          *)
(***************************************************************************)
EXTENDS Naturals, Sequences, FiniteSets

CONSTANTS Consumers,   \* the NUM_TC consumer threads
          Producer,    \* the producer thread
          NoThread,    \* owner of a free monitor
          RingSize,    \* RING_SIZE
          Callers,     \* client threads
          Socks,       \* client sockets, one for each client process
          SockOf,      \* the socket a caller uses
          Mortal,      \* client processes that may be killed
          NoRequest,   \* a NULL request pointer
          Empty,       \* a datagram of no bytes
          SnCount,     \* serial numbers there are: 2^32, next_sn is an int
          Spurious,    \* may a wait on a condition end without a signal?
          MaxCalls,    \* bound: calls made by one caller
          MaxEmpty     \* bound: empty datagrams received

ASSUME RequestServerAssumption ==
    /\ RingSize \in Nat \ {0}
    /\ SnCount \in Nat \ {0}
    /\ MaxCalls \in Nat
    /\ MaxEmpty \in Nat
    /\ Consumers # {}
    /\ Producer \notin Consumers
    /\ NoThread \notin Consumers \cup {Producer}
    /\ SockOf \in [Callers -> Socks]
    /\ Mortal \subseteq Socks
    /\ Spurious \in BOOLEAN

Threads == Consumers \cup {Producer}
Slots == 0 .. RingSize - 1

Serials == 0 .. SnCount - 1

Requests == [caller : Callers, call : 1 .. MaxCalls, sn : Serials]

ASSUME NoRequestAssumption == NoRequest \notin Requests /\ Empty \notin Requests

VARIABLES
    monOwner,    \* thread that holds the monitor's mutex
    waiting,     \* threads blocked on the monitor's condition
    pc,          \* where each server thread is
    ring,        \* ring[RING_SIZE]
    getPos,      \* static pos of get_req
    putPos,      \* static pos of put_req
    available,   \* available_reqs
    reqD,        \* req_d of each consumer
    srvUp,       \* FALSE once the process called exit
    srvSock,     \* datagrams queued at the server's socket
    cliSock,     \* datagrams queued at each client's socket
    closed,      \* client sockets that no longer exist
    nextSn,      \* next_sn of each client process
    call,        \* the remote call each caller is in
    empties      \* empty datagrams sent so far

monVars == <<monOwner, waiting, pc>>
ringVars == <<ring, getPos, putPos, available>>
netVars == <<srvSock, cliSock, closed, empties>>
clientVars == <<nextSn, call>>
serverVars == <<monVars, ringVars, reqD, srvUp>>
vars == <<monVars, ringVars, reqD, srvUp, netVars, clientVars>>

-----------------------------------------------------------------------------
(* The buffer: get_req and put_req each keep a position of their own.      *)

\* Mutant: the position runs off the ring.
AdvanceNoWrap(pos) == pos + 1

Advance(pos) == (pos + 1) % RingSize

\* Mutant: the same request is taken again.
GetReqStuck(c) ==
    /\ reqD' = [reqD EXCEPT ![c] = ring[getPos]]
    /\ UNCHANGED <<ring, getPos, putPos>>

GetReq(c) ==
    /\ reqD' = [reqD EXCEPT ![c] = ring[getPos]]
    /\ getPos' = Advance(getPos)
    /\ UNCHANGED <<ring, putPos>>

PutReq(r) ==
    /\ ring' = [ring EXCEPT ![putPos] = r]
    /\ putPos' = Advance(putPos)
    /\ UNCHANGED getPos

-----------------------------------------------------------------------------
(* The monitor: pthread_mutex_lock, _unlock, pthread_cond_wait, _signal    *)
(* and _broadcast.  A thread that leaves the condition must lock again     *)
(* before it returns from the wait, so it goes to "relock".                *)

MonitorEnter(t) ==
    /\ srvUp
    /\ pc[t] \in {"enter", "relock"}
    /\ monOwner = NoThread
    /\ monOwner' = t
    /\ pc' = [pc EXCEPT ![t] = "test"]
    /\ UNCHANGED <<waiting, ringVars, reqD, srvUp, netVars, clientVars>>

MonitorWait(t) ==
    /\ monOwner' = NoThread
    /\ waiting' = waiting \cup {t}
    /\ pc' = [pc EXCEPT ![t] = "blocked"]

\* The threads W leave the condition while t leaves the monitor for next.
SignalAndExit(t, W, next) ==
    /\ monOwner' = NoThread
    /\ waiting' = waiting \ W
    /\ pc' = [u \in Threads |-> IF u = t THEN next
                                ELSE IF u \in W THEN "relock" ELSE pc[u]]

\* pthread_cond_signal wakes one waiter if there is any.
\* Mutant: the signal is forgotten.
SignalChoicesNone == {{}}

SignalChoices == IF waiting = {} THEN {{}} ELSE {{u} : u \in waiting}

SpuriousWakeup(t) ==
    /\ srvUp
    /\ Spurious
    /\ t \in waiting
    /\ waiting' = waiting \ {t}
    /\ pc' = [pc EXCEPT ![t] = "relock"]
    /\ UNCHANGED <<monOwner, ringVars, reqD, srvUp, netVars, clientVars>>

-----------------------------------------------------------------------------
(* thread_consumer *)

ConsumerWait(c) ==
    /\ srvUp
    /\ pc[c] = "test"
    /\ available = 0
    /\ MonitorWait(c)
    /\ UNCHANGED <<ringVars, reqD, srvUp, netVars, clientVars>>

ConsumerTake(c) ==
    /\ srvUp
    /\ pc[c] = "test"
    /\ available # 0
    /\ GetReq(c)
    /\ available' = available - 1
    /\ \E W \in SignalChoices : SignalAndExit(c, W, "serve")
    /\ UNCHANGED <<srvUp, netVars, clientVars>>

\* Mutant: the answer goes to the address that was received last.
ConsumerRespondToLast(c) ==
    LET last == ring[(putPos + RingSize - 1) % RingSize]
        sock == SockOf[last.caller] IN
    /\ srvUp
    /\ pc[c] = "serve"
    /\ sock \notin closed
    /\ cliSock' = [cliSock EXCEPT ![sock] = Append(@, reqD[c])]
    /\ reqD' = [reqD EXCEPT ![c] = NoRequest]
    /\ pc' = [pc EXCEPT ![c] = "enter"]
    /\ UNCHANGED <<monOwner, waiting, ringVars, srvUp, srvSock, closed, empties, clientVars>>

\* Mutant: the answer is sent with the monitor locked.
ConsumerRespondLocked(c) ==
    LET sock == SockOf[reqD[c].caller] IN
    /\ srvUp
    /\ pc[c] = "serve"
    /\ monOwner = NoThread
    /\ sock \notin closed
    /\ cliSock' = [cliSock EXCEPT ![sock] = Append(@, reqD[c])]
    /\ reqD' = [reqD EXCEPT ![c] = NoRequest]
    /\ pc' = [pc EXCEPT ![c] = "enter"]
    /\ UNCHANGED <<monOwner, waiting, ringVars, srvUp, srvSock, closed, empties, clientVars>>

\* Whichever handler ran, also none, an answer goes to the sender.
ConsumerRespond(c) ==
    LET sock == SockOf[reqD[c].caller] IN
    /\ srvUp
    /\ pc[c] = "serve"
    /\ sock \notin closed
    /\ cliSock' = [cliSock EXCEPT ![sock] = Append(@, reqD[c])]
    /\ reqD' = [reqD EXCEPT ![c] = NoRequest]
    /\ pc' = [pc EXCEPT ![c] = "enter"]
    /\ UNCHANGED <<monOwner, waiting, ringVars, srvUp, srvSock, closed, empties, clientVars>>

\* Mutant: whatever happens to the client ends the server.
ConsumerExitAnyway(c) ==
    /\ srvUp
    /\ pc[c] = "serve"
    /\ closed # {}
    /\ srvUp' = FALSE
    /\ UNCHANGED <<monVars, ringVars, reqD, netVars, clientVars>>

\* sendto fails when the client's socket is gone, and then the server exits.
ConsumerExit(c) ==
    /\ srvUp
    /\ pc[c] = "serve"
    /\ SockOf[reqD[c].caller] \in closed
    /\ srvUp' = FALSE
    /\ UNCHANGED <<monVars, ringVars, reqD, netVars, clientVars>>

-----------------------------------------------------------------------------
(* thread_producer: it keeps the monitor while it polls the socket.        *)

ProducerWait ==
    /\ srvUp
    /\ pc[Producer] = "test"
    /\ available = RingSize
    /\ MonitorWait(Producer)
    /\ UNCHANGED <<ringVars, reqD, srvUp, netVars, clientVars>>

\* Mutant: the test for a full ring is missing.
ProducerPollAlways ==
    /\ srvUp
    /\ pc[Producer] = "test"
    /\ pc' = [pc EXCEPT ![Producer] = "recv"]
    /\ UNCHANGED <<monOwner, waiting, ringVars, reqD, srvUp, netVars, clientVars>>

ProducerPoll ==
    /\ srvUp
    /\ pc[Producer] = "test"
    /\ available # RingSize
    /\ pc' = [pc EXCEPT ![Producer] = "recv"]
    /\ UNCHANGED <<monOwner, waiting, ringVars, reqD, srvUp, netVars, clientVars>>

\* Mutant: nobody is told about the new request.
ProducerPutSilent ==
    /\ srvUp
    /\ pc[Producer] = "recv"
    /\ srvSock # << >>
    /\ Head(srvSock) # Empty
    /\ srvSock' = Tail(srvSock)
    /\ PutReq(Head(srvSock))
    /\ available' = available + 1
    /\ SignalAndExit(Producer, {}, "enter")
    /\ UNCHANGED <<reqD, srvUp, cliSock, closed, empties, clientVars>>

ProducerPut ==
    /\ srvUp
    /\ pc[Producer] = "recv"
    /\ srvSock # << >>
    /\ Head(srvSock) # Empty
    /\ srvSock' = Tail(srvSock)
    /\ PutReq(Head(srvSock))
    /\ available' = available + 1
    /\ SignalAndExit(Producer, waiting, "enter")
    /\ UNCHANGED <<reqD, srvUp, cliSock, closed, empties, clientVars>>

ProducerSkip ==
    /\ srvUp
    /\ pc[Producer] = "recv"
    /\ srvSock # << >>
    /\ Head(srvSock) = Empty
    /\ srvSock' = Tail(srvSock)
    /\ SignalAndExit(Producer, {}, "enter")
    /\ UNCHANGED <<ringVars, reqD, srvUp, cliSock, closed, empties, clientVars>>

-----------------------------------------------------------------------------
(* Clients: remote_call, whose next_sn++ is a load and a store.            *)

CallRead(k) ==
    /\ SockOf[k] \notin closed
    /\ call[k].st = "idle"
    /\ call[k].n < MaxCalls
    /\ call' = [call EXCEPT ![k] = [st |-> "bump", n |-> @.n + 1, sn |-> nextSn[SockOf[k]],
                                    result |-> "none", got |-> NoRequest]]
    /\ UNCHANGED <<serverVars, netVars, nextSn>>

CallBump(k) ==
    /\ SockOf[k] \notin closed
    /\ call[k].st = "bump"
    /\ nextSn' = [nextSn EXCEPT ![SockOf[k]] = (call[k].sn + 1) % SnCount]
    /\ call' = [call EXCEPT ![k] = [@ EXCEPT !.st = "send"]]
    /\ UNCHANGED <<serverVars, netVars>>

RequestOf(k) == [caller |-> k, call |-> call[k].n, sn |-> call[k].sn]

CallSend(k) ==
    /\ SockOf[k] \notin closed
    /\ call[k].st = "send"
    /\ \/ /\ srvUp
          /\ srvSock' = Append(srvSock, RequestOf(k))
          /\ call' = [call EXCEPT ![k] = [@ EXCEPT !.st = "recv"]]
       \/ /\ ~srvUp
          /\ call' = [call EXCEPT ![k] = [@ EXCEPT !.st = "idle", !.result = "refused"]]
          /\ UNCHANGED srvSock
    /\ UNCHANGED <<serverVars, cliSock, closed, empties, nextSn>>

CallRecv(k) ==
    LET reply == Head(cliSock[SockOf[k]]) IN
    /\ SockOf[k] \notin closed
    /\ call[k].st = "recv"
    /\ cliSock[SockOf[k]] # << >>
    /\ cliSock' = [cliSock EXCEPT ![SockOf[k]] = Tail(@)]
    /\ call' = [call EXCEPT ![k] =
                     [@ EXCEPT !.st = "idle",
                               !.result = IF reply.sn = call[k].sn THEN "ok" ELSE "mismatch",
                               !.got = reply]]
    /\ UNCHANGED <<serverVars, srvSock, closed, empties, nextSn>>

Kill(s) ==
    /\ s \in Mortal \ closed
    /\ closed' = closed \cup {s}
    /\ cliSock' = [cliSock EXCEPT ![s] = << >>]
    /\ UNCHANGED <<serverVars, srvSock, empties, clientVars>>

SendEmpty ==
    /\ srvUp
    /\ empties < MaxEmpty
    /\ empties' = empties + 1
    /\ srvSock' = Append(srvSock, Empty)
    /\ UNCHANGED <<serverVars, cliSock, closed, clientVars>>

-----------------------------------------------------------------------------
Init ==
    /\ monOwner = NoThread
    /\ waiting = {}
    /\ pc = [t \in Threads |-> "enter"]
    /\ ring = [i \in Slots |-> NoRequest]
    /\ getPos = 0
    /\ putPos = 0
    /\ available = 0
    /\ reqD = [c \in Consumers |-> NoRequest]
    /\ srvUp = TRUE
    /\ srvSock = << >>
    /\ cliSock = [s \in Socks |-> << >>]
    /\ closed = {}
    /\ nextSn = [s \in Socks |-> 0]
    /\ call = [k \in Callers |-> [st |-> "idle", n |-> 0, sn |-> 0,
                                  result |-> "none", got |-> NoRequest]]
    /\ empties = 0

ConsumerStep(c) ==
    \/ MonitorEnter(c)
    \/ ConsumerWait(c)
    \/ ConsumerTake(c)
    \/ ConsumerRespond(c)
    \/ ConsumerExit(c)

ProducerStep ==
    \/ MonitorEnter(Producer)
    \/ ProducerWait
    \/ ProducerPoll
    \/ ProducerPut
    \/ ProducerSkip

CallerStep(k) == CallRead(k) \/ CallBump(k) \/ CallSend(k) \/ CallRecv(k)

Next ==
    \/ \E c \in Consumers : ConsumerStep(c)
    \/ ProducerStep
    \/ \E t \in Threads : SpuriousWakeup(t)
    \/ \E k \in Callers : CallerStep(k)
    \/ \E s \in Socks : Kill(s)
    \/ SendEmpty

Spec == Init /\ [][Next]_vars

\* The kernel keeps running every thread that can run; nothing is promised
\* about who gets the mutex when several threads want it.
Fairness ==
    /\ \A c \in Consumers : WF_vars(ConsumerStep(c))
    /\ WF_vars(ProducerStep)
    /\ \A k \in Callers : WF_vars(CallBump(k) \/ CallSend(k) \/ CallRecv(k))

FairSpec == Spec /\ Fairness

\* A mutex that starves no thread that keeps asking for it, which is more
\* than POSIX promises.
FairMutexSpec == FairSpec /\ \A t \in Threads : SF_vars(MonitorEnter(t))

-----------------------------------------------------------------------------
(* Properties *)

CallRecord == [st : {"idle", "bump", "send", "recv"}, n : 0 .. MaxCalls, sn : Serials,
               result : {"none", "ok", "mismatch", "refused"},
               got : Requests \cup {NoRequest}]

\* Every variable keeps the shape the code gives it; in particular both
\* positions stay inside the ring and the counter between 0 and RING_SIZE.
TypeOK ==
    /\ monOwner \in Threads \cup {NoThread}
    /\ waiting \subseteq Threads
    /\ pc \in [Threads -> {"enter", "test", "blocked", "relock", "serve", "recv"}]
    /\ ring \in [Slots -> Requests \cup {NoRequest}]
    /\ getPos \in Slots
    /\ putPos \in Slots
    /\ available \in 0 .. RingSize
    /\ reqD \in [Consumers -> Requests \cup {NoRequest}]
    /\ srvUp \in BOOLEAN
    /\ srvSock \in Seq(Requests \cup {Empty})
    /\ cliSock \in [Socks -> Seq(Requests)]
    /\ closed \subseteq Socks
    /\ nextSn \in [Socks -> Serials]
    /\ call \in [Callers -> CallRecord]
    /\ empties \in 0 .. MaxEmpty

\* No wakeup is ever lost although producer and consumers wait on the same
\* condition and a consumer signals only one of them: a thread that is
\* blocked on the condition still has nothing to do (server.c:186, 189, 240, 254).
NoLostWakeup ==
    /\ waiting \cap Consumers # {} => available = 0
    /\ Producer \in waiting => available = RingSize

\* The queued requests, oldest first, as the two positions and the counter
\* of get_req and put_req delimit them.
Window == [i \in 1 .. available |-> ring[(getPos + i - 1) % RingSize]]

\* The ring is a FIFO queue: every step of the server is a step of the
\* queue specification or leaves queue and workers alone (server.c:85-101,
\* 184-190, 239-255).
Queue == INSTANCE RequestQueue
             WITH Workers <- Consumers, Capacity <- RingSize,
                  queue <- Window, holding <- reqD
ImplementsQueue == Queue!Spec

\* The places where the request of caller k's current call can be.
Places(k) ==
    LET r == RequestOf(k) IN
    {<<"srvSock", i>> : i \in {j \in DOMAIN srvSock : srvSock[j] = r}} \cup
    {<<"ring", i>> : i \in {j \in DOMAIN Window : Window[j] = r}} \cup
    {<<"consumer", c>> : c \in {d \in Consumers : reqD[d] = r}} \cup
    {<<"cliSock", i>> : i \in {j \in DOMAIN cliSock[SockOf[k]] : cliSock[SockOf[k]][j] = r}}

\* While a caller waits for its answer, its request or the answer to it is in
\* exactly one place: nothing is lost, served twice, or read from a ring slot
\* whose request was already freed (server.c:85-101, 220).
RequestConserved ==
    \A k \in Callers :
        call[k].st = "recv" /\ SockOf[k] \notin closed => Cardinality(Places(k)) = 1

\* A call that got an answer got the answer to its own request, and it was
\* accepted (snfs_api.c:51-52, 91-94).
CallGetsItsReply ==
    \A k \in Callers :
        call[k].result \in {"ok", "mismatch"} =>
            call[k].result = "ok" /\ call[k].got = RequestOf(k)

\* The server goes down only on a client that was killed in the middle of a
\* call: sendto fails for it and the code exits (server.c:164-168).  Clients
\* that come and go between calls never take it down.
ExitOnlyMidCall ==
    ~srvUp => \E k \in Callers : SockOf[k] \in closed /\ call[k].st = "recv"

\* A full ring is always drained: the producer gives the monitor up and some
\* consumer takes a request (server.c:186-190, 240).
FullRingDrains == available = RingSize ~> available < RingSize

\* A request a consumer has taken is answered (server.c:193-220).
TakenIsAnswered == \A c \in Consumers : reqD[c] # NoRequest ~> reqD[c] = NoRequest

\* Every remote call ends: remote_call sends the request "and waits for the
\* response" (snfs_api.c:51-52).
CallReturns == \A k \in Callers : call[k].st = "recv" ~> call[k].st # "recv"
=============================================================================
