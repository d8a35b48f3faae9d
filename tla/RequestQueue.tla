---------------------------- MODULE RequestQueue ----------------------------
(***************************************************************************)
(* What the request path of the SNFS server promises, without the monitor, *)
(* the ring or its two positions: a bounded first-in first-out queue of    *)
(* requests between one receiver thread and a pool of workers, each worker *)
(* holding at most one request at a time.                                  *)
(***************************************************************************)
EXTENDS Naturals, Sequences

CONSTANTS Workers,    \* the threads that serve requests
          Capacity,   \* how many requests may be queued
          Requests,   \* every request that can be received
          NoRequest   \* what an idle worker holds

VARIABLES queue,      \* requests accepted and not yet taken, oldest first
          holding     \* the request each worker is serving

Init ==
    /\ queue = << >>
    /\ holding = [w \in Workers |-> NoRequest]

Accept(r) ==
    /\ Len(queue) < Capacity
    /\ queue' = Append(queue, r)
    /\ UNCHANGED holding

Dispatch(w) ==
    /\ queue # << >>
    /\ holding[w] = NoRequest
    /\ holding' = [holding EXCEPT ![w] = Head(queue)]
    /\ queue' = Tail(queue)

Finish(w) ==
    /\ holding[w] # NoRequest
    /\ holding' = [holding EXCEPT ![w] = NoRequest]
    /\ UNCHANGED queue

Next ==
    \/ \E r \in Requests : Accept(r)
    \/ \E w \in Workers : Dispatch(w) \/ Finish(w)

Spec == Init /\ [][Next]_<<queue, holding>>
=============================================================================
