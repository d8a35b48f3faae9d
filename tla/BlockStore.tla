----------------------------- MODULE BlockStore -----------------------------
(***************************************************************************)
(* What the data blocks of the file system promise to the threads that     *)
(* serve requests, without any cache: every access to a block happens at   *)
(* once, and a read sees everything that was written before it.            *)
(***************************************************************************)
CONSTANTS Workers,   \* threads that access blocks
          Blocks,    \* data blocks
          Parts,     \* the pieces of a block that one write replaces
          Values,    \* what a part can hold
          ZeroData,  \* contents of a block that was never written
          NoData     \* a worker that has read nothing yet

VARIABLES content,   \* contents of every block
          got        \* what each worker read last

Init ==
    /\ content = [b \in Blocks |-> ZeroData]
    /\ got = [w \in Workers |-> NoData]

Read(w, b) ==
    /\ got' = [got EXCEPT ![w] = content[b]]
    /\ UNCHANGED content

Write(b, p, v) ==
    /\ content' = [content EXCEPT ![b] = [@ EXCEPT ![p] = v]]
    /\ UNCHANGED got

Copy(b, t) ==
    /\ content' = [content EXCEPT ![t] = content[b]]
    /\ UNCHANGED got

Next ==
    \/ \E w \in Workers, b \in Blocks : Read(w, b)
    \/ \E b \in Blocks, p \in Parts, v \in Values : Write(b, p, v)
    \/ \E b, t \in Blocks : Copy(b, t)

Spec == Init /\ [][Next]_<<content, got>>
=============================================================================
