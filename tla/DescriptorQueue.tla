--------------------------- MODULE DescriptorQueue ---------------------------
(***************************************************************************)
(* The list of open files of the client library: a singly linked queue     *)
(* with a pointer to its first and one to its last element                 *)
(* (snfs_lib/queue.c).  A queue is a record of the two pointers, of the    *)
(* link of every element and of the file descriptor it carries.  An        *)
(* element and its descriptor are allocated and freed together, so one     *)
(* node stands for both; a node that is not allocated carries NoFd.        *)
(***************************************************************************)
EXTENDS Naturals, FiniteSets, Sequences

CONSTANTS
  Node,       \* memory for elements of the queue
  NoNode,     \* the null pointer
  NoFd        \* what a node that is not allocated carries

ASSUME NodesAreFinite == IsFiniteSet(Node)
ASSUME NullIsNoNode == NoNode \notin Node

EmptyQueue ==
  [first |-> NoNode, last |-> NoNode,
   next |-> [n \in Node |-> NoNode], fd |-> [n \in Node |-> NoFd]]

Allocated(q) == {n \in Node : q.fd[n] # NoFd}

\* The k-th node of the walk every function of queue.c makes along the links.
NodeAt(q) ==
  LET at[k \in 1 .. Cardinality(Node)] ==
        IF k = 1 THEN q.first
        ELSE IF at[k - 1] \in Node THEN q.next[at[k - 1]] ELSE NoNode
  IN  at

Walk(q) ==
  LET at == NodeAt(q)
      length == Cardinality({k \in DOMAIN at : at[k] # NoNode})
  IN  [k \in 1 .. length |-> at[k]]

\* Where the walk first meets a descriptor of the file, 0 when it does not.
PositionOf(q, fileId) ==
  LET w == Walk(q)
      hits == {k \in DOMAIN w : q.fd[w[k]].fileId = fileId}
  IN  IF hits = {} THEN 0 ELSE CHOOSE k \in hits : \A j \in hits : k <= j

queue_node_get(q, fileId) ==
  IF PositionOf(q, fileId) = 0 THEN NoNode ELSE Walk(q)[PositionOf(q, fileId)]

\* n is the new element, fresh from malloc.
queue_enqueue(q, n, fd) ==
  [first |-> IF q.first = NoNode THEN n ELSE q.first,
   last |-> n,
   next |-> IF q.first = NoNode THEN q.next ELSE [q.next EXCEPT ![q.last] = n],
   fd |-> [q.fd EXCEPT ![n] = fd]]

Freed(q, n) == [q EXCEPT !.next[n] = NoNode, !.fd[n] = NoFd]

queue_dequeue(q) ==
  Freed([q EXCEPT !.first = IF q.first = q.last THEN NoNode ELSE q.next[q.first],
                  !.last = IF q.first = q.last THEN NoNode ELSE @],
        q.first)

\* Mutant: last still points to the element that is unlinked.
queue_node_removeKeepsLast(q, n) ==
  IF n = q.first
  THEN {queue_dequeue(q)}
  ELSE {Freed([q EXCEPT !.next[m] = q.next[n]], n) : m \in {b \in Allocated(q) : q.next[b] = n}}

\* The queue without the element n that queue_node_get finds: m, the element
\* before it, is linked to the one behind it.
queue_node_remove(q, n) ==
  IF n = q.first
  THEN {queue_dequeue(q)}
  ELSE {Freed([q EXCEPT !.last = IF @ = n THEN m ELSE @, !.next[m] = q.next[n]], n)
          : m \in {b \in Allocated(q) : q.next[b] = n}}
=============================================================================
