--------------------------- MODULE OpenFilesProofs ---------------------------
(***************************************************************************)
(* The client library's open files, for any number of files, names,        *)
(* descriptors and bytes: their offsets, and the list that holds them.     *)
(***************************************************************************)
EXTENDS OpenFiles, InductionFacts, FiniteSetTheorems, SequenceTheorems, TLAPS

-----------------------------------------------------------------------------
(* Offsets.  That every offset stays within the file is not inductive by   *)
(* itself: a read must also stay within what the server has (Server), or   *)
(* the size of a later write answer could be below the offset; a read in   *)
(* progress must end at the known size (Reading); and an inode that is     *)
(* free must be empty (FreeIsEmpty), or its creation would shrink it.      *)

Server ==
  \A n \in Allocated(files) : files.fd[n].read_offset <= tree[files.fd[n].fileId].size

Reading ==
  call.at = "read" =>
    files.fd[call.node].read_offset + call.left <= files.fd[call.node].size

FreeIsEmpty == \A h \in Handle : tree[h].kind = "free" => tree[h].size = 0

IInv == TypeOK /\ OffsetsInFile /\ Server /\ Reading /\ FreeIsEmpty

\* What the steps that change the tree may do to it.
TreeGrows ==
  /\ tree' \in [Handle -> Inode]
  /\ \A h \in Handle : tree'[h].size >= tree[h].size
  /\ \A h \in Handle : tree'[h].kind = "free" => tree'[h].size = 0

-----------------------------------------------------------------------------

\* Creating an inode leaves every other inode as large as it was, or larger.
LEMMA MadeGrows ==
  ASSUME TypeOK, FreeIsEmpty,
         NEW kind \in {"file", "dir"}, NEW dir, NEW name \in Names, NEW h \in Handle,
         Made(kind, dir, name, h)
  PROVE  TreeGrows
<1>1. tree \in [Handle -> Inode] /\ dir \in Handle /\ EntrySize \in Nat
  BY SizesAreNaturals DEF TypeOK, Made
<1>2. tree[h].kind = "free" /\ tree[dir].kind = "dir" /\ h # dir /\ tree[h].size = 0
  BY DEF Made, FreeIsEmpty
<1>3. tree' = [tree EXCEPT ![h] = [kind |-> kind, dir |-> dir, name |-> name, size |-> 0],
                           ![dir].size = @ + EntrySize]
  BY DEF Made
<1>4. tree[dir] \in Inode
  BY <1>1
<1>5. [tree[dir] EXCEPT !.size = @ + EntrySize] \in Inode
  BY <1>1, <1>4 DEF Inode
<1>6. [kind |-> kind, dir |-> dir, name |-> name, size |-> 0] \in Inode
  BY <1>1 DEF Inode
<1>7. tree' \in [Handle -> Inode]
  BY <1>1, <1>2, <1>3, <1>5, <1>6
<1>8. \A g \in Handle : tree'[g].size >= tree[g].size
  BY <1>1, <1>2, <1>3, <1>4 DEF Inode
<1>9. \A g \in Handle : tree'[g].kind = "free" => tree'[g].size = 0
  BY <1>1, <1>2, <1>3, <1>4 DEF Inode, FreeIsEmpty
<1> QED
  BY <1>7, <1>8, <1>9 DEF TreeGrows

\* Writing to a file makes it large enough for what was written.
LEMMA WrittenGrows ==
  ASSUME TypeOK, FreeIsEmpty,
         NEW h \in Handle, NEW offset \in Nat, NEW count \in Nat,
         Written(h, offset, count)
  PROVE  /\ TreeGrows
         /\ tree'[h].size = SizeAfter(h, offset, count)
         /\ offset <= tree[h].size => offset + count <= tree'[h].size
         /\ SizeAfter(h, offset, count) \in Nat
<1>1. tree \in [Handle -> Inode] /\ tree[h] \in Inode /\ tree[h].size \in Nat
  BY DEF TypeOK, Inode
<1>2. SizeAfter(h, offset, count) \in Nat /\ SizeAfter(h, offset, count) >= tree[h].size
  BY <1>1 DEF SizeAfter, Clipped
<1>3. tree' = [tree EXCEPT ![h].size = SizeAfter(h, offset, count)] /\ tree[h].kind = "file"
  BY DEF Written
<1>4. tree' \in [Handle -> Inode] /\ tree'[h].size = SizeAfter(h, offset, count)
  BY <1>1, <1>2, <1>3 DEF Inode
<1>5. \A g \in Handle : tree'[g].size >= tree[g].size
  BY <1>1, <1>2, <1>3, <1>4 DEF Inode
<1>6. \A g \in Handle : tree'[g].kind = "free" => tree'[g].size = 0
  BY <1>1, <1>3 DEF Inode, FreeIsEmpty
<1>7. offset <= tree[h].size => offset + count <= tree'[h].size
  BY <1>1, <1>4 DEF SizeAfter, Clipped
<1> QED
  BY <1>2, <1>4, <1>5, <1>6, <1>7 DEF TreeGrows

-----------------------------------------------------------------------------

QueueType ==
  [first : Node \cup {NoNode}, last : Node \cup {NoNode},
   next : [Node -> Node \cup {NoNode}], fd : [Node -> Descriptor \cup {NoFd}]]

\* An enqueued descriptor is in its node, and every other node keeps its own.
LEMMA EnqueueAdds ==
  ASSUME NEW q \in QueueType, NEW n \in Node, NEW d \in Descriptor
  PROVE  /\ queue_enqueue(q, n, d) \in QueueType
         /\ queue_enqueue(q, n, d).fd = [q.fd EXCEPT ![n] = d]
<1> DEFINE r == queue_enqueue(q, n, d)
<1>1. r = [first |-> IF q.first = NoNode THEN n ELSE q.first, last |-> n,
           next |-> IF q.first = NoNode THEN q.next ELSE [q.next EXCEPT ![q.last] = n],
           fd |-> [q.fd EXCEPT ![n] = d]]
  BY DEF queue_enqueue
<1>2. q.first \in Node \cup {NoNode} /\ q.next \in [Node -> Node \cup {NoNode}]
  BY DEF QueueType
<1>3. [q.fd EXCEPT ![n] = d] \in [Node -> Descriptor \cup {NoFd}]
  BY DEF QueueType
<1>4. [q.next EXCEPT ![q.last] = n] \in [Node -> Node \cup {NoNode}]
  BY <1>2
<1>5. r.fd = [q.fd EXCEPT ![n] = d]
  BY <1>1
<1>6. r \in QueueType
  BY <1>1, <1>2, <1>3, <1>4 DEF QueueType
<1> QED
  BY <1>5, <1>6

\* A removed element takes its own descriptor with it and no other.
LEMMA RemoveDrops ==
  ASSUME NEW q \in QueueType, NEW n \in Node, NEW r \in queue_node_remove(q, n)
  PROVE  /\ r \in QueueType
         /\ r.fd = [q.fd EXCEPT ![n] = NoFd]
<1>1. CASE n = q.first
  <2>1. r = queue_dequeue(q)
    BY <1>1 DEF queue_node_remove
  <2>2. r = [first |-> IF q.first = q.last THEN NoNode ELSE q.next[q.first],
             last |-> IF q.first = q.last THEN NoNode ELSE q.last,
             next |-> [q.next EXCEPT ![n] = NoNode],
             fd |-> [q.fd EXCEPT ![n] = NoFd]]
    BY <1>1, <2>1 DEF queue_dequeue, Freed, QueueType
  <2> QED
    BY <1>1, <2>2 DEF QueueType
<1>2. CASE n # q.first
  <2>1. PICK m \in Allocated(q) :
          r = Freed([q EXCEPT !.last = IF @ = n THEN m ELSE @, !.next[m] = q.next[n]], n)
    BY <1>2 DEF queue_node_remove
  <2>2. m \in Node
    BY <2>1 DEF Allocated
  <2>3. r = [first |-> q.first, last |-> IF q.last = n THEN m ELSE q.last,
             next |-> [[q.next EXCEPT ![m] = q.next[n]] EXCEPT ![n] = NoNode],
             fd |-> [q.fd EXCEPT ![n] = NoFd]]
    BY <2>1 DEF Freed, QueueType
  <2> QED
    BY <2>2, <2>3 DEF QueueType
<1> QED
  BY <1>1, <1>2

-----------------------------------------------------------------------------

\* A step that only computes leaves the offsets alone.
LEMMA OnlyCallMoves ==
  ASSUME IInv, UNCHANGED <<tree, files, Open_files>>, call' \in Call,
         call'.at \notin {"read", "write"}
  PROVE  IInv'
<1>1. TypeOK'
  BY DEF IInv, TypeOK, Allocated
<1> QED
  BY <1>1 DEF IInv, OffsetsInFile, Server, Reading, FreeIsEmpty, Allocated

\* A step that leaves the open files alone while the tree grows.
LEMMA OnlyTreeMoves ==
  ASSUME IInv, TreeGrows, UNCHANGED <<files, Open_files>>, call' \in Call,
         call'.at \notin {"read", "write"} \/ call' = call
  PROVE  IInv'
<1>1. TypeOK'
  BY DEF IInv, TypeOK, TreeGrows, Allocated
<1>2. Reading' /\ FreeIsEmpty'
  BY DEF IInv, Reading, TreeGrows, FreeIsEmpty
<1>3. Allocated(files)' = Allocated(files) /\ files' = files
  BY DEF Allocated
<1>4. ASSUME NEW n \in Allocated(files)
      PROVE  /\ files.fd[n].read_offset \in Nat /\ files.fd[n].write_offset \in Nat
             /\ tree[files.fd[n].fileId].size \in Nat /\ tree'[files.fd[n].fileId].size \in Nat
             /\ tree'[files.fd[n].fileId].size >= tree[files.fd[n].fileId].size
  <2>1. files.fd[n] \in Descriptor
    BY <1>4 DEF Allocated, IInv, TypeOK
  <2>2. files.fd[n].fileId \in Handle
    BY <2>1 DEF Descriptor
  <2> QED
    BY <2>1, <2>2 DEF Descriptor, IInv, TypeOK, TreeGrows, Inode
<1>5. OffsetsInFile'
  BY <1>3, <1>4 DEF IInv, OffsetsInFile
<1>6. Server'
  BY <1>3, <1>4 DEF IInv, Server
<1> QED
  BY <1>1, <1>2, <1>5, <1>6 DEF IInv

\* A new descriptor starts at the beginning of the file.
LEMMA DescriptorAdded ==
  ASSUME IInv, tree' = tree \/ TreeGrows, NEW h \in Handle, NEW fsize \in Nat,
         AddDescriptor(h, fsize)
  PROVE  IInv'
<1> DEFINE d == [fileId |-> h, size |-> fsize, read_offset |-> 0, write_offset |-> 0]
<1>1. PICK n \in Node \ Allocated(files) : files' = queue_enqueue(files, n, d)
  BY DEF AddDescriptor
<1>2. d \in Descriptor /\ files \in QueueType
  BY DEF Descriptor, IInv, TypeOK, QueueType
<1>3. files' \in QueueType /\ files'.fd = [files.fd EXCEPT ![n] = d]
  BY <1>1, <1>2, EnqueueAdds
<1>4. /\ tree' \in [Handle -> Inode]
      /\ \A g \in Handle : tree'[g].size \in Nat /\ tree'[g].size >= tree[g].size
      /\ \A g \in Handle : tree[g].size \in Nat
      /\ FreeIsEmpty'
  <2>1. tree \in [Handle -> Inode] /\ FreeIsEmpty
    BY DEF IInv, TypeOK
  <2>2. CASE tree' = tree
    BY <2>1, <2>2 DEF Inode, FreeIsEmpty
  <2>3. CASE TreeGrows
    BY <2>1, <2>3 DEF Inode, FreeIsEmpty, TreeGrows
  <2> QED
    BY <2>2, <2>3
<1>5. call' = Idle /\ Open_files' = Open_files + 1 /\ Idle \in Call /\ Idle.at = "idle"
  BY DEF AddDescriptor, Call, Idle
<1>6. TypeOK'
  BY <1>3, <1>4, <1>5 DEF TypeOK, QueueType, IInv
<1>7. ASSUME NEW m \in Allocated(files)'
      PROVE  /\ files'.fd[m].read_offset <= files'.fd[m].size
             /\ files'.fd[m].read_offset <= tree'[files'.fd[m].fileId].size
             /\ files'.fd[m].write_offset <= tree'[files'.fd[m].fileId].size
  <2>1. CASE m = n
    BY <1>2, <1>3, <1>4, <2>1 DEF QueueType
  <2>2. CASE m # n
    <3>1. m \in Allocated(files) /\ files'.fd[m] = files.fd[m]
      BY <1>2, <1>3, <1>7, <2>2 DEF Allocated, QueueType
    <3>2. files.fd[m] \in Descriptor
      BY <1>2, <3>1 DEF Allocated, QueueType
    <3> QED
      BY <1>4, <3>1, <3>2 DEF IInv, OffsetsInFile, Server, Descriptor
  <2> QED
    BY <2>1, <2>2
<1> QED
  BY <1>4, <1>5, <1>6, <1>7 DEF IInv, OffsetsInFile, Server, Reading

-----------------------------------------------------------------------------

\* The shape of a call in progress, by what it is at.
LEMMA CallShapes ==
  ASSUME call \in Call
  PROVE  /\ call.at \in {"open", "open_dir"} =>
              call \in [at : {"open", "open_dir"}, path : Paths, create : BOOLEAN]
         /\ call.at = "create" =>
              call \in [at : {"create"}, path : Paths, fsize : Nat, dir : Handle \cup {NoHandle}]
         /\ call.at \in {"read", "write"} =>
              call \in [at : {"read", "write"}, node : Node, left : Nat \ {0}, again : {0, 1}]
         /\ call.at \in {"mkdir", "mkdir_dir"} =>
              call \in [at : {"mkdir", "mkdir_dir"}, path : Paths]
         /\ call.at = "make" => call \in [at : {"make"}, path : Paths, dir : Handle]
  BY DEF Call, Idle

\* What Transfer makes of a call.
LEMMA TransferShapes ==
  ASSUME NEW at \in {"read", "write"}, NEW n \in Node, NEW left \in Nat, NEW again \in {0, 1}
  PROVE  /\ Transfer(at, n, left, again) \in Call
         /\ left = 0 => Transfer(at, n, left, again).at = "idle"
         /\ left # 0 => /\ Transfer(at, n, left, again).at = at
                        /\ Transfer(at, n, left, again).node = n
                        /\ Transfer(at, n, left, again).left = left
<1>1. CASE left = 0
  BY <1>1 DEF Transfer, Call, Idle
<1>2. CASE left # 0
  BY <1>2 DEF Transfer, Call
<1> QED
  BY <1>1, <1>2

-----------------------------------------------------------------------------

\* A chunk changes one descriptor and keeps it within a file that only grows.
LEMMA DescriptorMoved ==
  ASSUME IInv, tree' = tree \/ TreeGrows, NEW n \in Allocated(files), NEW d \in Descriptor,
         files' = [files EXCEPT !.fd[n] = d], d # NoFd,
         d.read_offset <= d.size,
         d.read_offset <= tree'[d.fileId].size, d.write_offset <= tree'[d.fileId].size,
         call' \in Call, Open_files' = Open_files,
         call'.at \in {"read", "write"} => call'.node = n,
         call'.at = "read" => d.read_offset + call'.left <= d.size
  PROVE  IInv'
<1>1. n \in Node /\ files \in QueueType
  BY DEF Allocated, IInv, TypeOK, QueueType
<1>2. files' \in QueueType /\ files'.fd = [files.fd EXCEPT ![n] = d]
  <2>1. files' = [first |-> files.first, last |-> files.last, next |-> files.next,
                  fd |-> [files.fd EXCEPT ![n] = d]]
    BY <1>1 DEF QueueType
  <2> QED
    BY <1>1, <2>1 DEF QueueType
<1>3. /\ tree' \in [Handle -> Inode]
      /\ \A g \in Handle : tree'[g].size \in Nat /\ tree'[g].size >= tree[g].size
      /\ \A g \in Handle : tree[g].size \in Nat
      /\ FreeIsEmpty'
  <2>1. tree \in [Handle -> Inode] /\ FreeIsEmpty
    BY DEF IInv, TypeOK
  <2>2. CASE tree' = tree
    BY <2>1, <2>2 DEF Inode, FreeIsEmpty
  <2>3. CASE TreeGrows
    BY <2>1, <2>3 DEF Inode, FreeIsEmpty, TreeGrows
  <2> QED
    BY <2>2, <2>3
<1>4. files'.fd[n] = d /\ Allocated(files)' = Allocated(files)
  BY <1>1, <1>2 DEF Allocated, QueueType
<1>5. TypeOK'
  BY <1>2, <1>3, <1>4 DEF IInv, TypeOK, QueueType
<1>6. ASSUME NEW m \in Allocated(files)'
      PROVE  /\ files'.fd[m].read_offset <= files'.fd[m].size
             /\ files'.fd[m].read_offset <= tree'[files'.fd[m].fileId].size
             /\ files'.fd[m].write_offset <= tree'[files'.fd[m].fileId].size
  <2>1. CASE m = n
    BY <1>4, <2>1
  <2>2. CASE m # n
    <3>1. m \in Allocated(files) /\ files'.fd[m] = files.fd[m]
      BY <1>1, <1>2, <1>4, <1>6, <2>2 DEF Allocated, QueueType
    <3>2. files.fd[m] \in Descriptor
      BY <1>1, <3>1 DEF Allocated, QueueType
    <3> QED
      BY <1>3, <3>1, <3>2 DEF IInv, OffsetsInFile, Server, Descriptor
  <2> QED
    BY <2>1, <2>2
<1>7. Reading'
  BY <1>4 DEF Reading
<1> QED
  BY <1>3, <1>5, <1>6, <1>7 DEF IInv, OffsetsInFile, Server

\* Closing takes a descriptor away and leaves the others.
LEMMA CloseKeeps ==
  ASSUME IInv, my_close
  PROVE  IInv'
<1>1. PICK n \in Allocated(files) : files' \in queue_node_remove(files, n)
  BY DEF my_close
<1>2. n \in Node /\ files \in QueueType
  BY DEF Allocated, IInv, TypeOK, QueueType
<1>3. files' \in QueueType /\ files'.fd = [files.fd EXCEPT ![n] = NoFd]
  BY <1>1, <1>2, RemoveDrops
<1>4. call = Idle /\ call' = Idle /\ tree' = tree /\ Open_files' = Open_files - 1
  BY DEF my_close
<1>5. TypeOK'
  BY <1>3, <1>4 DEF IInv, TypeOK, QueueType, Idle
<1>6. \A m \in Allocated(files)' : m \in Allocated(files) /\ files'.fd[m] = files.fd[m]
  BY <1>2, <1>3 DEF Allocated, QueueType
<1> QED
  BY <1>4, <1>5, <1>6 DEF IInv, OffsetsInFile, Server, Reading, FreeIsEmpty, Idle

-----------------------------------------------------------------------------

\* What the invariant says of the transfer in progress.
LEMMA TransferFacts ==
  ASSUME IInv, call.at \in {"read", "write"}
  PROVE  /\ call.node \in Allocated(files) /\ call.node \in Node
         /\ files.fd[call.node] \in Descriptor
         /\ files.fd[call.node].fileId \in Handle
         /\ files.fd[call.node].size \in Nat
         /\ files.fd[call.node].read_offset \in Nat
         /\ files.fd[call.node].write_offset \in Nat
         /\ tree[files.fd[call.node].fileId].size \in Nat
         /\ call.left \in Nat \ {0} /\ call.again \in {0, 1}
<1>1. call.node \in Allocated(files) /\ call \in Call
  BY DEF IInv, TypeOK
<1>2. files.fd[call.node] \in Descriptor /\ call.node \in Node
  BY <1>1 DEF Allocated, IInv, TypeOK
<1>3. files.fd[call.node].fileId \in Handle
  BY <1>2 DEF Descriptor
<1>4. tree[files.fd[call.node].fileId].size \in Nat
  BY <1>3 DEF IInv, TypeOK, Inode
<1>5. call.left \in Nat \ {0} /\ call.again \in {0, 1}
  BY <1>1, CallShapes
<1> QED
  BY <1>1, <1>2, <1>3, <1>4, <1>5 DEF Descriptor

\* my_read cuts the count to what is known to be left of the file.
LEMMA ReadKeeps ==
  ASSUME IInv, my_read
  PROVE  IInv'
<1>1. PICK id \in Handle, count \in Counts, n \in Allocated(files) :
        /\ files.fd[n].read_offset # files.fd[n].size
        /\ call' = Transfer("read", n, Smaller(count, files.fd[n].size - files.fd[n].read_offset),
                            0)
  BY DEF my_read
<1> DEFINE left == Smaller(count, files.fd[n].size - files.fd[n].read_offset)
<1>2. n \in Node /\ files.fd[n] \in Descriptor
  BY DEF Allocated, IInv, TypeOK
<1>3. files.fd[n].read_offset <= files.fd[n].size
  BY DEF IInv, OffsetsInFile
<1>4. left \in Nat /\ files.fd[n].read_offset + left <= files.fd[n].size
  BY <1>2, <1>3, CountsAreNaturals DEF Descriptor, Smaller
<1>5. UNCHANGED <<tree, files, Open_files>>
  BY DEF my_read
<1>6. /\ call' \in Call
      /\ call'.at \in {"read", "write"} => call'.node = n
      /\ call'.at = "read" => call'.left = left
  <2> HIDE DEF left
  <2>1. call' = Transfer("read", n, left, 0)
    BY <1>1 DEF left
  <2> QED
    BY <1>2, <1>4, <2>1, TransferShapes
<1>7. TypeOK'
  BY <1>5, <1>6 DEF IInv, TypeOK, Allocated
<1> QED
  BY <1>4, <1>5, <1>6, <1>7 DEF IInv, OffsetsInFile, Server, Reading, FreeIsEmpty, Allocated

\* my_write starts a transfer on an open file.
LEMMA WriteKeeps ==
  ASSUME IInv, my_write
  PROVE  IInv'
<1>1. PICK id \in Handle, count \in Counts, n \in Allocated(files) :
        call' = Transfer("write", n, count, 0)
  BY DEF my_write
<1>2. n \in Node /\ count \in Nat
  BY CountsAreNaturals DEF Allocated, IInv, TypeOK
<1>3. UNCHANGED <<tree, files, Open_files>>
  BY DEF my_write
<1>4. /\ call' \in Call /\ call'.at # "read"
      /\ call'.at = "write" => call'.node = n
  BY <1>1, <1>2, TransferShapes
<1>5. TypeOK'
  BY <1>3, <1>4 DEF IInv, TypeOK, Allocated
<1> QED
  BY <1>3, <1>4, <1>5 DEF IInv, OffsetsInFile, Server, Reading, FreeIsEmpty, Allocated

\* A read chunk advances by what the server delivered.
LEMMA ReadChunkKeeps ==
  ASSUME IInv, ReadChunk
  PROVE  IInv'
<1> DEFINE n == call.node
           fd == files.fd[n]
           nread == Delivered(fd.fileId, fd.read_offset, Smaller(MAX_READ_DATA, call.left))
           d == [fileId |-> fd.fileId, size |-> fd.size,
                 read_offset |-> fd.read_offset + nread, write_offset |-> fd.write_offset]
<1>1. call.at = "read"
  BY DEF ReadChunk
<1>2. /\ n \in Allocated(files) /\ n \in Node /\ fd \in Descriptor
      /\ fd.fileId \in Handle /\ fd.size \in Nat /\ fd.read_offset \in Nat
      /\ fd.write_offset \in Nat /\ tree[fd.fileId].size \in Nat
      /\ call.left \in Nat \ {0} /\ call.again \in {0, 1}
  BY <1>1, TransferFacts
<1>3. /\ fd.read_offset <= tree[fd.fileId].size
      /\ fd.write_offset <= tree[fd.fileId].size
      /\ fd.read_offset + call.left <= fd.size
  BY <1>1, <1>2 DEF IInv, OffsetsInFile, Server, Reading
<1>4. /\ nread \in Nat /\ nread <= call.left
      /\ fd.read_offset + nread <= tree[fd.fileId].size
  BY <1>2, <1>3, SizesAreNaturals DEF Delivered, Smaller
<1>5. /\ call' = Transfer("read", n, call.left - nread, 1 - call.again)
      /\ files' = [files EXCEPT !.fd[n].read_offset = @ + nread]
      /\ tree' = tree /\ Open_files' = Open_files
  BY DEF ReadChunk
<1> HIDE DEF nread
<1>6. /\ call' \in Call
      /\ call'.at \in {"read", "write"} => call'.node = n
      /\ call'.at = "read" => call'.left = call.left - nread
  <2>1. call.left - nread \in Nat
    BY <1>2, <1>4
  <2>2. 1 - call.again \in {0, 1}
    BY <1>2
  <2> QED
    BY <1>2, <1>5, <2>1, <2>2, TransferShapes
<1>7. files' = [files EXCEPT !.fd[n] = d]
  <2>1. [fd EXCEPT !.read_offset = @ + nread] = d
    BY <1>2 DEF Descriptor
  <2>2. files \in QueueType
    BY DEF IInv, TypeOK, QueueType
  <2> QED
    BY <1>2, <1>5, <2>1, <2>2 DEF QueueType
<1>8. d \in Descriptor /\ d # NoFd
  BY <1>2, <1>4, NoFdIsNoDescriptor DEF Descriptor
<1>9. /\ d.read_offset <= d.size
      /\ d.read_offset <= tree'[d.fileId].size /\ d.write_offset <= tree'[d.fileId].size
      /\ call'.at = "read" => d.read_offset + call'.left <= d.size
  BY <1>2, <1>3, <1>4, <1>5, <1>6
<1> HIDE DEF d
<1> QED
  BY <1>2, <1>5, <1>6, <1>7, <1>8, <1>9, DescriptorMoved

\* A write chunk advances by what was sent, and the server has it then.
LEMMA WriteChunkKeeps ==
  ASSUME IInv, WriteChunk
  PROVE  IInv'
<1> DEFINE n == call.node
           fd == files.fd[n]
           wBytes == Smaller(MAX_WRITE_DATA, call.left)
           size == SizeAfter(fd.fileId, fd.write_offset, wBytes)
           d == [fileId |-> fd.fileId, size |-> size,
                 read_offset |-> fd.read_offset, write_offset |-> fd.write_offset + wBytes]
<1>1. call.at = "write"
  BY DEF WriteChunk
<1>2. /\ n \in Allocated(files) /\ n \in Node /\ fd \in Descriptor
      /\ fd.fileId \in Handle /\ fd.size \in Nat /\ fd.read_offset \in Nat
      /\ fd.write_offset \in Nat /\ tree[fd.fileId].size \in Nat
      /\ call.left \in Nat \ {0} /\ call.again \in {0, 1}
  BY <1>1, TransferFacts
<1>3. fd.read_offset <= tree[fd.fileId].size /\ fd.write_offset <= tree[fd.fileId].size
  BY <1>2 DEF IInv, OffsetsInFile, Server
<1>4. wBytes \in Nat /\ call.left - wBytes \in Nat
  BY <1>2, SizesAreNaturals DEF Smaller
<1>5. /\ Written(fd.fileId, fd.write_offset, wBytes)
      /\ files' = [files EXCEPT !.fd[n].size = size, !.fd[n].write_offset = @ + wBytes]
      /\ call' = Transfer("write", n, call.left - wBytes, 1 - call.again)
      /\ Open_files' = Open_files
  BY DEF WriteChunk
<1> HIDE DEF wBytes
<1>6. /\ TreeGrows /\ tree'[fd.fileId].size = size /\ size \in Nat
      /\ fd.write_offset + wBytes <= tree'[fd.fileId].size
  BY <1>2, <1>3, <1>4, <1>5, WrittenGrows DEF IInv
<1> HIDE DEF size
<1>7. tree'[fd.fileId].size >= tree[fd.fileId].size
  BY <1>2, <1>6 DEF TreeGrows
<1>8. /\ call' \in Call
      /\ call'.at \in {"read", "write"} => call'.node = n
      /\ call'.at # "read"
  <2>1. 1 - call.again \in {0, 1}
    BY <1>2
  <2> QED
    BY <1>2, <1>4, <1>5, <2>1, TransferShapes
<1>9. files' = [files EXCEPT !.fd[n] = d]
  <2>1. [[fd EXCEPT !.size = size] EXCEPT !.write_offset = @ + wBytes] = d
    <3> DEFINE sized == [fd EXCEPT !.size = size]
    <3>1. sized = [fileId |-> fd.fileId, size |-> size,
                   read_offset |-> fd.read_offset, write_offset |-> fd.write_offset]
      BY <1>2 DEF Descriptor
    <3> HIDE DEF sized
    <3>2. [sized EXCEPT !.write_offset = @ + wBytes] = d
      BY <3>1
    <3> QED
      BY <3>2 DEF sized
  <2>2. files \in QueueType
    BY DEF IInv, TypeOK, QueueType
  <2>3. files' = [files EXCEPT !.fd[n] = [[fd EXCEPT !.size = size] EXCEPT !.write_offset = @ + wBytes]]
    BY <1>2, <1>5, <2>2 DEF QueueType, Descriptor
  <2> QED
    BY <2>1, <2>3
<1>10. d \in Descriptor /\ d # NoFd
  BY <1>2, <1>4, <1>6, NoFdIsNoDescriptor DEF Descriptor
<1>11. /\ d.read_offset <= d.size
       /\ d.read_offset <= tree'[d.fileId].size /\ d.write_offset <= tree'[d.fileId].size
  BY <1>2, <1>3, <1>6, <1>7
<1> HIDE DEF d
<1> QED
  BY <1>2, <1>5, <1>6, <1>8, <1>9, <1>10, <1>11, DescriptorMoved

-----------------------------------------------------------------------------

\* Nothing is open when the client starts.
LEMMA InitEstablishes == Init => IInv
<1> SUFFICES ASSUME Init PROVE IInv
  OBVIOUS
<1>1. tree \in [Handle -> Inode] /\ FreeIsEmpty
  BY InitTreeIsTree DEF Init, FreeIsEmpty, Free
<1>2. files \in QueueType /\ Allocated(files) = {}
  BY DEF Init, EmptyQueue, QueueType, Allocated
<1>3. call \in Call /\ call.at = "idle" /\ Open_files \in Int
  BY DEF Init, Call, Idle
<1> QED
  BY <1>1, <1>2, <1>3 DEF IInv, TypeOK, QueueType, OffsetsInFile, Server, Reading

\* One step per action.
LEMMA StepKeeps == IInv /\ [Next]_vars => IInv'
<1> SUFFICES ASSUME IInv, [Next]_vars PROVE IInv'
  OBVIOUS
<1>a. call \in Call /\ tree \in [Handle -> Inode]
  BY DEF IInv, TypeOK
<1>1. CASE my_open
  <2>1. PICK path \in Paths, create \in BOOLEAN :
          call' = [at |-> "open", path |-> path, create |-> create]
    BY <1>1 DEF my_open
  <2>2. call' \in Call /\ call'.at = "open"
    BY <2>1 DEF Call
  <2> QED
    BY <1>1, <2>2, OnlyCallMoves DEF my_open
<1>2. CASE OpenFound
  <2>1. PICK h \in Handle : AddDescriptor(h, tree[h].size)
    BY <1>2 DEF OpenFound
  <2>2. tree[h].size \in Nat /\ tree' = tree
    BY <1>2, <1>a DEF Inode, OpenFound
  <2> QED
    BY <2>1, <2>2, DescriptorAdded
<1>3. CASE OpenNotFound
  <2>1. call \in [at : {"open", "open_dir"}, path : Paths, create : BOOLEAN]
    BY <1>3, <1>a, CallShapes DEF OpenNotFound
  <2>2. call' = [call EXCEPT !.at = "open_dir"]
    BY <1>3 DEF OpenNotFound
  <2>3. call' \in [at : {"open", "open_dir"}, path : Paths, create : BOOLEAN]
        /\ call'.at = "open_dir"
    BY <2>1, <2>2
  <2>4. call' \in Call
    BY <2>3 DEF Call
  <2> QED
    BY <1>3, <2>3, <2>4, OnlyCallMoves DEF OpenNotFound
<1>4. CASE OpenDirectory
  <2>1. call \in [at : {"open", "open_dir"}, path : Paths, create : BOOLEAN]
    BY <1>4, <1>a, CallShapes DEF OpenDirectory
  <2> DEFINE Continue(dir, fsize) ==
        IF call.create
        THEN [at |-> "create", path |-> call.path, fsize |-> fsize,
              dir |-> IF Len(Tokens[call.path]) = 1 THEN Root ELSE dir]
        ELSE Idle
  <2>2. ASSUME NEW dir \in Handle \cup {NoHandle}, NEW fsize \in Nat
        PROVE  Continue(dir, fsize) \in Call /\ Continue(dir, fsize).at \in {"create", "idle"}
    BY <2>1, RootIsHandle DEF Call, Idle
  <2>3. \A d \in Handle : tree[d].size \in Nat
    BY <1>a DEF Inode
  <2>4. \E dir \in Handle \cup {NoHandle}, fsize \in Nat : call' = Continue(dir, fsize)
    BY <1>4, <2>3 DEF OpenDirectory
  <2>5. call' \in Call /\ call'.at \in {"create", "idle"}
    <3> HIDE DEF Continue
    <3> QED
      BY <2>2, <2>4
  <2> QED
    BY <1>4, <2>5, OnlyCallMoves DEF OpenDirectory
<1>5. CASE OpenCreate
  <2>1. PICK h \in Handle : /\ Made("file", call.dir, newfilename[call.path], h)
                            /\ AddDescriptor(h, call.fsize)
    BY <1>5 DEF OpenCreate
  <2>2. call.path \in Paths /\ call.fsize \in Nat
    BY <1>5, <1>a, CallShapes DEF OpenCreate
  <2>3. newfilename[call.path] \in Names
    BY <2>2, NamesOccur
  <2>4. TreeGrows
    BY <2>1, <2>3, MadeGrows DEF IInv
  <2> QED
    BY <2>1, <2>2, <2>4, DescriptorAdded
<1>6. CASE my_mkdir
  <2>1. PICK path \in Paths : call' = [at |-> "mkdir", path |-> path]
    BY <1>6 DEF my_mkdir
  <2>2. call' \in Call /\ call'.at = "mkdir"
    BY <2>1 DEF Call
  <2> QED
    BY <1>6, <2>2, OnlyCallMoves DEF my_mkdir
<1>7. CASE MkdirNotFound
  <2>1. call \in [at : {"mkdir", "mkdir_dir"}, path : Paths]
    BY <1>7, <1>a, CallShapes DEF MkdirNotFound
  <2>2. \/ call' = [at |-> "make", path |-> call.path, dir |-> Root]
        \/ call' = [call EXCEPT !.at = "mkdir_dir"]
    BY <1>7 DEF MkdirNotFound
  <2>3. call' \in Call /\ call'.at \in {"make", "mkdir_dir"}
    BY <2>1, <2>2, RootIsHandle DEF Call
  <2> QED
    BY <1>7, <2>3, OnlyCallMoves DEF MkdirNotFound
<1>8. CASE MkdirDirectory
  <2>1. call \in [at : {"mkdir", "mkdir_dir"}, path : Paths]
    BY <1>8, <1>a, CallShapes DEF MkdirDirectory
  <2>2. PICK d \in Handle : call' = [at |-> "make", path |-> call.path, dir |-> d]
    BY <1>8 DEF MkdirDirectory
  <2>3. call' \in Call /\ call'.at = "make"
    BY <2>1, <2>2 DEF Call
  <2> QED
    BY <1>8, <2>3, OnlyCallMoves DEF MkdirDirectory
<1>9. CASE MkdirMake
  <2>1. PICK h \in Handle : Made("dir", call.dir, newfilename[call.path], h)
    BY <1>9 DEF MkdirMake
  <2>2. call.path \in Paths
    BY <1>9, <1>a, CallShapes DEF MkdirMake
  <2>3. newfilename[call.path] \in Names
    BY <2>2, NamesOccur
  <2>4. TreeGrows
    BY <2>1, <2>3, MadeGrows DEF IInv
  <2>5. call' \in Call /\ call'.at = "idle"
    BY <1>9 DEF MkdirMake, Call, Idle
  <2> QED
    BY <1>9, <2>4, <2>5, OnlyTreeMoves DEF MkdirMake
<1>10. CASE CallFails
  BY <1>10, OnlyCallMoves DEF CallFails, Call, Idle
<1>11. CASE OtherClient
  <2>1. TreeGrows
    <3>1. PICK h \in Handle :
            \/ \E kind \in {"file", "dir"}, dir \in Handle, name \in OtherNames :
                 Made(kind, dir, name, h)
            \/ \E count \in 1 .. MAX_WRITE_DATA : Written(h, tree[h].size, count)
      BY <1>11 DEF OtherClient
    <3>2. CASE \E kind \in {"file", "dir"}, dir \in Handle, name \in OtherNames :
                 Made(kind, dir, name, h)
      BY <3>2, MadeGrows, NamesOccur DEF IInv
    <3>3. CASE \E count \in 1 .. MAX_WRITE_DATA : Written(h, tree[h].size, count)
      <4>1. tree[h].size \in Nat /\ \A count \in 1 .. MAX_WRITE_DATA : count \in Nat
        BY <1>a, SizesAreNaturals DEF Inode
      <4> QED
        BY <3>3, <4>1, WrittenGrows DEF IInv
    <3> QED
      BY <3>1, <3>2, <3>3
  <2> QED
    BY <1>11, <1>a, <2>1, OnlyTreeMoves DEF OtherClient
<1>12. CASE UNCHANGED vars
  BY <1>12 DEF vars, IInv, TypeOK, OffsetsInFile, Server, Reading, FreeIsEmpty, Allocated
<1> QED
  BY <1>1, <1>2, <1>3, <1>4, <1>5, <1>6, <1>7, <1>8, <1>9, <1>10, <1>11, <1>12,
     ReadKeeps, WriteKeeps, CloseKeeps, ReadChunkKeeps, WriteChunkKeeps DEF Next, Answer

-----------------------------------------------------------------------------

\* The inductive invariant of the client library.
THEOREM Invariance == Spec => []IInv
  BY InitEstablishes, StepKeeps, PTL DEF Spec

\* Every variable keeps its type, and a transfer keeps its open file, whatever
\* other clients do between two of its remote calls (my_read, my_write).
THEOREM TypeCorrect == Spec => []TypeOK
<1>1. IInv => TypeOK
  BY DEF IInv
<1> QED
  BY <1>1, Invariance, PTL

\* No unsigned subtraction of my_read wraps and no my_write starts behind the
\* end of the server's file, for every size, chunk and number of open files.
THEOREM OffsetsStayInFile == Spec => []OffsetsInFile
<1>1. IInv => OffsetsInFile
  BY DEF IInv
<1> QED
  BY <1>1, Invariance, PTL

-----------------------------------------------------------------------------
(* The list of open files.                                                 *)

\* The nodes of w, in this order, are the list q and all that is allocated.
\* The link of every other node is null, as queue_enqueue needs it.
Linked(q, w) ==
  /\ w \in Seq(Node)
  /\ \A i, j \in 1 .. Len(w) : w[i] = w[j] => i = j
  /\ \A i \in 1 .. Len(w) : w[i] \in Allocated(q)
  /\ \A n \in Allocated(q) : \E i \in 1 .. Len(w) : w[i] = n
  /\ q.first = IF Len(w) = 0 THEN NoNode ELSE w[1]
  /\ q.last = IF Len(w) = 0 THEN NoNode ELSE w[Len(w)]
  /\ \A i \in 1 .. Len(w) : q.next[w[i]] = IF i = Len(w) THEN NoNode ELSE w[i + 1]
  /\ \A n \in Node \ Allocated(q) : q.next[n] = NoNode

\* The list has as many elements as there are nodes allocated.
LEMMA LinkedCounts ==
  ASSUME NEW q, NEW w, Linked(q, w)
  PROVE  /\ Cardinality(Node) \in Nat
         /\ Len(w) \in Nat /\ Len(w) <= Cardinality(Node)
         /\ Cardinality(1 .. Len(w)) = Len(w)
         /\ Cardinality(Allocated(q)) = Len(w)
<1>1. w \in Seq(Node) /\ Len(w) \in Nat
  BY DEF Linked
<1>2. w \in [1 .. Len(w) -> Node] /\ w \in [1 .. Len(w) -> Allocated(q)]
  BY <1>1 DEF Linked
<1>3. w \in Injection(1 .. Len(w), Node)
  BY <1>2 DEF Linked, Injection, IsInjective
<1>4. w \in Bijection(1 .. Len(w), Allocated(q))
  BY <1>2 DEF Linked, Injection, Surjection, Bijection, IsInjective
<1>5. IsFiniteSet(1 .. Len(w)) /\ Cardinality(1 .. Len(w)) = Len(w)
  BY SMTT(30), <1>1, FS_Interval
<1>6. Len(w) <= Cardinality(Node)
  BY <1>3, <1>5, NodesAreFinite, FS_Injection
<1>7. ExistsBijection(1 .. Len(w), Allocated(q))
  BY <1>4 DEF ExistsBijection
<1>8. Cardinality(Allocated(q)) = Len(w)
  BY <1>5, <1>7, FS_Bijection
<1> QED
  BY <1>1, <1>5, <1>6, <1>8, NodesAreFinite, FS_CardinalityType

\* The walk along the links meets just the elements of the list, in its order.
LEMMA WalkIsList ==
  ASSUME NEW q, NEW w, Linked(q, w)
  PROVE  Walk(q) = w
<1> DEFINE N == Cardinality(Node)
           IsWalk(f) == f = [k \in 1 .. N |->
                               IF k = 1 THEN q.first
                               ELSE IF f[k - 1] \in Node THEN q.next[f[k - 1]] ELSE NoNode]
           g == [k \in 1 .. N |-> IF k <= Len(w) THEN w[k] ELSE NoNode]
           a == NodeAt(q)
<1>1. a = CHOOSE f : IsWalk(f)
  BY DEF NodeAt
<1>2. w \in Seq(Node) /\ Len(w) \in Nat /\ N \in Nat /\ Len(w) <= N
  BY LinkedCounts DEF Linked
<1>3. \A k \in 1 .. Len(w) : w[k] \in Node
  BY <1>2
<1> HIDE DEF N
<1>4. \A k \in 1 .. N : g[k] = IF k <= Len(w) THEN w[k] ELSE NoNode
  OBVIOUS
<1> DEFINE Next1(x) == IF x \in Node THEN q.next[x] ELSE NoNode
<1>5. ASSUME NEW k \in 1 .. N
      PROVE  g[k] = IF k = 1 THEN q.first ELSE Next1(g[k - 1])
  <2>1. CASE k = 1
    BY <1>2, <1>4, <2>1 DEF Linked
  <2>2. CASE k # 1
    <3>1. k - 1 \in 1 .. N /\ (k - 1) + 1 = k
      BY <1>2, <2>2
    <3>2. CASE k - 1 <= Len(w)
      <4>1. g[k - 1] = w[k - 1] /\ w[k - 1] \in Node /\ k - 1 \in 1 .. Len(w)
        BY <1>2, <1>3, <1>4, <3>1, <3>2
      <4>2. q.next[w[k - 1]] = IF k - 1 = Len(w) THEN NoNode ELSE w[k]
        BY <3>1, <4>1 DEF Linked
      <4> QED
        BY <1>2, <1>4, <2>2, <3>2, <4>1, <4>2
    <3>3. CASE ~(k - 1 <= Len(w))
      <4>1. g[k - 1] = NoNode /\ g[k] = NoNode
        BY <1>2, <1>4, <3>1, <3>3
      <4> QED
        BY <2>2, <4>1, NullIsNoNode
    <3> QED
      BY <3>2, <3>3
  <2> QED
    BY <2>1, <2>2
<1>6. g = [k \in 1 .. N |-> g[k]]
  OBVIOUS
<1> HIDE DEF g
<1>7. IsWalk(g)
  BY <1>5, <1>6
<1>8. IsWalk(a)
  <2> HIDE DEF IsWalk, a
  <2> QED
    BY <1>1, <1>7
<1> DEFINE S == {k \in Nat : k = 0 \/ a[k] = g[k]}
<1>9. \A k \in 1 .. N : a[k] = IF k = 1 THEN q.first ELSE Next1(a[k - 1])
  <2> HIDE DEF a
  <2> QED
    BY <1>8
<1> HIDE DEF a, IsWalk, Next1
<1>10. 0 .. N \subseteq S
  <2>1. 0 \in S
    OBVIOUS
  <2>2. ASSUME NEW n \in 0 .. N - 1, n \in S
        PROVE  n + 1 \in S
    <3>1. n + 1 \in 1 .. N /\ (n + 1) - 1 = n /\ n + 1 \in Nat
      BY <1>2
    <3>2. n = 0 \/ a[n] = g[n]
      BY <2>2
    <3>3. a[n + 1] = g[n + 1]
      BY <1>5, <1>9, <3>1, <3>2
    <3> QED
      BY <3>1, <3>3
  <2> HIDE DEF S
  <2> QED
    BY <1>2, <2>1, <2>2, IntervalInd
<1>11. \A k \in 1 .. N : a[k] = g[k]
  BY <1>2, <1>10
<1>12. DOMAIN a = 1 .. N
  BY <1>8 DEF IsWalk
<1>13. {k \in DOMAIN a : a[k] # NoNode} = 1 .. Len(w)
  <2>1. \A k \in 1 .. N : a[k] # NoNode <=> k <= Len(w)
    <3> SUFFICES ASSUME NEW k \in 1 .. N PROVE a[k] # NoNode <=> k <= Len(w)
      OBVIOUS
    <3>1. a[k] = IF k <= Len(w) THEN w[k] ELSE NoNode
      BY <1>4, <1>11
    <3>2. k <= Len(w) => w[k] \in Node
      BY <1>2, <1>3
    <3> QED
      BY <3>1, <3>2, NullIsNoNode
  <2> QED
    BY <1>2, <1>12, <2>1
<1>14. Cardinality(1 .. Len(w)) = Len(w)
  BY LinkedCounts
<1>15. Walk(q) = [k \in 1 .. Len(w) |-> a[k]]
  BY <1>13, <1>14 DEF Walk, a
<1>16. \A k \in 1 .. Len(w) : a[k] = w[k]
  BY <1>2, <1>4, <1>11
<1>17. w = [k \in 1 .. Len(w) |-> w[k]]
  BY <1>2
<1> QED
  BY <1>15, <1>16, <1>17

\* A sequence of nodes is linked as its elements are.
LEMMA LinkedNodes ==
  ASSUME NEW q, NEW w, Linked(q, w)
  PROVE  /\ w \in Seq(Node) /\ Len(w) \in Nat
         /\ \A i \in 1 .. Len(w) : w[i] \in Node /\ w[i] \in Allocated(q)
         /\ q.first = NoNode <=> Len(w) = 0
<1>1. w \in Seq(Node) /\ Len(w) \in Nat
  BY DEF Linked
<1>2. \A i \in 1 .. Len(w) : w[i] \in Node /\ w[i] \in Allocated(q)
  BY <1>1 DEF Linked
<1>3. Len(w) # 0 => 1 \in 1 .. Len(w)
  BY <1>1
<1>4. q.first = NoNode <=> Len(w) = 0
  BY <1>2, <1>3, NullIsNoNode DEF Linked
<1> QED
  BY <1>1, <1>2, <1>4

\* queue_enqueue appends the new element to the list.
LEMMA EnqueueLinks ==
  ASSUME NEW q \in QueueType, NEW w, Linked(q, w), NEW n \in Node \ Allocated(q),
         NEW d \in Descriptor
  PROVE  Linked(queue_enqueue(q, n, d), Append(w, n))
<1> DEFINE r == queue_enqueue(q, n, d)
           v == Append(w, n)
<1>1. w \in Seq(Node) /\ Len(w) \in Nat /\ (q.first = NoNode <=> Len(w) = 0)
  BY LinkedNodes
<1>2. \A i \in 1 .. Len(w) : w[i] \in Node /\ w[i] \in Allocated(q) /\ w[i] # n
  BY LinkedNodes
<1>3. /\ v \in Seq(Node) /\ Len(v) = Len(w) + 1
      /\ \A i \in 1 .. Len(w) : v[i] = w[i]
      /\ v[Len(w) + 1] = n
  BY <1>1, AppendProperties
<1>4. /\ r.first = IF q.first = NoNode THEN n ELSE q.first
      /\ r.last = n
      /\ r.next = IF q.first = NoNode THEN q.next ELSE [q.next EXCEPT ![q.last] = n]
      /\ r.fd = [q.fd EXCEPT ![n] = d]
  BY DEF queue_enqueue
<1>5. /\ q.next \in [Node -> Node \cup {NoNode}]
      /\ q.fd \in [Node -> Descriptor \cup {NoFd}]
  BY DEF QueueType
<1>6. Allocated(r) = Allocated(q) \cup {n}
  BY <1>4, <1>5, NoFdIsNoDescriptor DEF Allocated
<1> HIDE DEF r, v
<1>7. 1 .. Len(v) = (1 .. Len(w)) \cup {Len(w) + 1}
  BY <1>1, <1>3
<1>8. \A i, j \in 1 .. Len(v) : v[i] = v[j] => i = j
  BY <1>1, <1>2, <1>3, <1>7 DEF Linked
<1>9. \A i \in 1 .. Len(v) : v[i] \in Allocated(r)
  BY <1>2, <1>3, <1>6, <1>7
<1>10. \A x \in Allocated(r) : \E i \in 1 .. Len(v) : v[i] = x
  <2> SUFFICES ASSUME NEW x \in Allocated(r) PROVE \E i \in 1 .. Len(v) : v[i] = x
    OBVIOUS
  <2>1. CASE x = n
    BY <1>3, <1>7, <2>1
  <2>2. CASE x \in Allocated(q)
    <3>1. PICK i \in 1 .. Len(w) : w[i] = x
      BY <2>2 DEF Linked
    <3> QED
      BY <1>3, <1>7, <3>1
  <2> QED
    BY <1>6, <2>1, <2>2
<1>11. r.first = IF Len(v) = 0 THEN NoNode ELSE v[1]
  <2>1. CASE Len(w) = 0
    BY <1>1, <1>3, <1>4, <2>1
  <2>2. CASE Len(w) # 0
    <3>1. 1 \in 1 .. Len(w)
      BY <1>1, <2>2
    <3> QED
      BY <1>1, <1>3, <1>4, <2>2, <3>1 DEF Linked
  <2> QED
    BY <2>1, <2>2
<1>12. r.last = IF Len(v) = 0 THEN NoNode ELSE v[Len(v)]
  BY <1>1, <1>3, <1>4
<1>13. r.next[n] = NoNode
  <2>1. q.next[n] = NoNode
    BY DEF Linked
  <2>2. CASE Len(w) = 0
    BY <1>1, <1>4, <2>1, <2>2
  <2>3. CASE Len(w) # 0
    <3>1. q.last = w[Len(w)] /\ Len(w) \in 1 .. Len(w)
      BY <1>1, <2>3 DEF Linked
    <3> QED
      BY <1>1, <1>2, <1>4, <1>5, <2>1, <2>3, <3>1
  <2> QED
    BY <2>2, <2>3
<1>14. ASSUME NEW i \in 1 .. Len(w)
       PROVE  r.next[w[i]] = v[i + 1]
  <2>1. q.last = w[Len(w)] /\ Len(w) \in 1 .. Len(w) /\ Len(w) # 0
    BY <1>1 DEF Linked
  <2>2. r.next = [q.next EXCEPT ![w[Len(w)]] = n]
    BY <1>1, <1>4, <2>1
  <2>3. CASE i = Len(w)
    BY <1>2, <1>3, <1>5, <2>2, <2>3
  <2>4. CASE i # Len(w)
    <3>1. w[i] # w[Len(w)]
      BY <2>1, <2>4 DEF Linked
    <3>2. r.next[w[i]] = q.next[w[i]]
      BY <1>2, <1>5, <2>2, <3>1
    <3>3. q.next[w[i]] = w[i + 1] /\ i + 1 \in 1 .. Len(w)
      BY <1>1, <2>4 DEF Linked
    <3> QED
      BY <1>3, <3>2, <3>3
  <2> QED
    BY <2>3, <2>4
<1>15. \A i \in 1 .. Len(v) : r.next[v[i]] = IF i = Len(v) THEN NoNode ELSE v[i + 1]
  BY <1>1, <1>3, <1>7, <1>13, <1>14
<1>16. ASSUME NEW x \in Node \ Allocated(r)
       PROVE  r.next[x] = NoNode
  <2>1. x \notin Allocated(q) /\ q.next[x] = NoNode
    BY <1>6 DEF Linked
  <2>2. CASE Len(w) = 0
    BY <1>1, <1>4, <2>1, <2>2
  <2>3. CASE Len(w) # 0
    <3>1. q.last = w[Len(w)] /\ Len(w) \in 1 .. Len(w)
      BY <1>1, <2>3 DEF Linked
    <3>2. q.last # x
      BY <1>2, <2>1, <3>1
    <3> QED
      BY <1>1, <1>4, <1>5, <2>1, <2>3, <3>2
  <2> QED
    BY <2>2, <2>3
<1> QED
  BY <1>3, <1>8, <1>9, <1>10, <1>11, <1>12, <1>15, <1>16 DEF Linked, r, v

\* A sequence is a function on its positions.
LEMMA SeqIsFunction ==
  ASSUME NEW S, NEW s \in Seq(S)
  PROVE  s = [i \in 1 .. Len(s) |-> s[i]]
OBVIOUS

\* A sequence without its element p.
Closed(w, p) == [k \in 1 .. Len(w) - 1 |-> IF k < p THEN w[k] ELSE w[k + 1]]

\* RemoveAt of SequencesExt does that.
LEMMA RemoveAtCloses ==
  ASSUME NEW S, NEW w \in Seq(S), NEW p \in 1 .. Len(w)
  PROVE  RemoveAt(w, p) = Closed(w, p) /\ Table!RemoveAt(w, p) = Closed(w, p)
<1> DEFINE a == SubSeq(w, 1, p - 1)
           b == SubSeq(w, p + 1, Len(w))
<1>1. Len(w) \in Nat /\ p \in Nat
  OBVIOUS
<1>2. a \in Seq(S) /\ Len(a) = p - 1 /\ \A k \in 1 .. p - 1 : a[k] = w[k]
  BY <1>1
<1>3. b \in Seq(S) /\ Len(b) = Len(w) - p /\ \A k \in 1 .. Len(w) - p : b[k] = w[k + p]
  BY <1>1
<1> HIDE DEF a, b
<1>4. /\ a \o b \in Seq(S) /\ Len(a \o b) = Len(w) - 1
      /\ \A k \in 1 .. Len(w) - 1 : (a \o b)[k] = IF k < p THEN w[k] ELSE w[k + 1]
  <2>1. /\ a \o b \in Seq(S) /\ Len(a \o b) = Len(a) + Len(b)
        /\ \A k \in 1 .. Len(a) + Len(b) : (a \o b)[k] = IF k <= Len(a) THEN a[k] ELSE b[k - Len(a)]
    BY <1>2, <1>3, ConcatProperties
  <2>2. ASSUME NEW k \in 1 .. Len(w) - 1
        PROVE  (a \o b)[k] = IF k < p THEN w[k] ELSE w[k + 1]
    <3>1. CASE k < p
      BY <1>1, <1>2, <1>3, <2>1, <3>1
    <3>2. CASE ~(k < p)
      <4>1. /\ k - (p - 1) \in 1 .. Len(w) - p /\ (k - (p - 1)) + p = k + 1
            /\ ~(k <= p - 1) /\ k \in 1 .. Len(a) + Len(b)
        BY <1>1, <1>2, <1>3, <3>2
      <4> QED
        BY <1>2, <1>3, <2>1, <3>2, <4>1
    <3> QED
      BY <3>1, <3>2
  <2>3. Len(a) + Len(b) = Len(w) - 1
    BY <1>1, <1>2, <1>3
  <2> QED
    BY <2>1, <2>2, <2>3
<1>5. a \o b = [k \in 1 .. Len(w) - 1 |-> (a \o b)[k]]
  <2> DEFINE c == a \o b
  <2>1. c \in Seq(S) /\ Len(c) = Len(w) - 1
    BY <1>4
  <2> HIDE DEF c
  <2>2. c = [k \in 1 .. Len(c) |-> c[k]]
    BY <2>1, SeqIsFunction
  <2> QED
    BY <2>1, <2>2 DEF c
<1>6. a \o b = Closed(w, p)
  BY <1>4, <1>5 DEF Closed
<1> QED
  BY <1>6 DEF RemoveAt, Table!RemoveAt, a, b

\* Closed shifts the elements behind p.
LEMMA ClosedFacts ==
  ASSUME NEW S, NEW w \in Seq(S), NEW p \in 1 .. Len(w)
  PROVE  /\ Closed(w, p) \in Seq(S)
         /\ Len(Closed(w, p)) = Len(w) - 1
         /\ \A k \in 1 .. Len(w) - 1 : Closed(w, p)[k] = IF k < p THEN w[k] ELSE w[k + 1]
<1>1. Len(w) \in Nat /\ Len(w) - 1 \in Nat /\ \A k \in 1 .. Len(w) : w[k] \in S
  OBVIOUS
<1>2. \A k \in 1 .. Len(w) - 1 : (IF k < p THEN w[k] ELSE w[k + 1]) \in S
  BY <1>1
<1> QED
  BY <1>1, <1>2 DEF Closed

\* queue_node_remove takes the element out of the list and keeps the order of
\* the others, at the beginning, in the middle and at the end.
LEMMA RemoveLinks ==
  ASSUME NEW q \in QueueType, NEW w, Linked(q, w), NEW p \in 1 .. Len(w),
         NEW r \in queue_node_remove(q, w[p])
  PROVE  Linked(r, Closed(w, p))
<1> DEFINE v == Closed(w, p)
           n == w[p]
<1>1. w \in Seq(Node) /\ Len(w) \in Nat /\ p \in Nat
  BY LinkedNodes
<1>2. \A i \in 1 .. Len(w) : w[i] \in Node /\ w[i] \in Allocated(q)
  BY LinkedNodes
<1>3. /\ v \in Seq(Node) /\ Len(v) = Len(w) - 1 /\ Len(v) \in Nat
      /\ \A k \in 1 .. Len(v) : v[k] = IF k < p THEN w[k] ELSE w[k + 1]
  BY <1>1, ClosedFacts
<1> HIDE DEF v
<1>4. \A i, j \in 1 .. Len(w) : w[i] = w[j] => i = j
  BY DEF Linked
<1>5. r.fd = [q.fd EXCEPT ![n] = NoFd]
  BY <1>2, RemoveDrops
<1>6. /\ q.next \in [Node -> Node \cup {NoNode}]
      /\ q.fd \in [Node -> Descriptor \cup {NoFd}]
  BY DEF QueueType
<1>7. Allocated(r) = Allocated(q) \ {n}
  BY <1>2, <1>5, <1>6 DEF Allocated
<1>8. \A i, j \in 1 .. Len(v) : v[i] = v[j] => i = j
  <2> SUFFICES ASSUME NEW i \in 1 .. Len(v), NEW j \in 1 .. Len(v), v[i] = v[j] PROVE i = j
    OBVIOUS
  <2> DEFINE ii == IF i < p THEN i ELSE i + 1
             jj == IF j < p THEN j ELSE j + 1
  <2>1. ii \in 1 .. Len(w) /\ jj \in 1 .. Len(w) /\ v[i] = w[ii] /\ v[j] = w[jj]
    BY SMTT(30), <1>1, <1>3
  <2>2. ii = jj
    BY <1>4, <2>1
  <2> QED
    BY <1>1, <1>3, <2>2
<1>9. \A i \in 1 .. Len(v) : v[i] \in Allocated(r)
  <2> SUFFICES ASSUME NEW i \in 1 .. Len(v) PROVE v[i] \in Allocated(r)
    OBVIOUS
  <2> DEFINE ii == IF i < p THEN i ELSE i + 1
  <2>1. ii \in 1 .. Len(w) /\ v[i] = w[ii] /\ ii # p
    BY <1>1, <1>3
  <2> QED
    BY <1>2, <1>4, <1>7, <2>1
<1>10. \A x \in Allocated(r) : \E i \in 1 .. Len(v) : v[i] = x
  <2> SUFFICES ASSUME NEW x \in Allocated(r) PROVE \E i \in 1 .. Len(v) : v[i] = x
    OBVIOUS
  <2>1. PICK j \in 1 .. Len(w) : w[j] = x
    BY <1>7 DEF Linked
  <2>2. j # p
    BY <1>7, <2>1
  <2>3. CASE j < p
    <3>1. j \in 1 .. Len(v) /\ v[j] = w[j]
      BY <1>1, <1>3, <2>3
    <3> QED
      BY <2>1, <3>1
  <2>4. CASE j > p
    <3>1. j - 1 \in 1 .. Len(v) /\ ~(j - 1 < p) /\ (j - 1) + 1 = j
      BY <1>1, <1>3, <2>4
    <3>2. v[j - 1] = w[j]
      BY <1>3, <3>1
    <3> QED
      BY <2>1, <3>1, <3>2
  <2> QED
    BY <1>1, <2>2, <2>3, <2>4
<1>11. /\ q.first = w[1] /\ q.last = w[Len(w)] /\ Len(w) # 0
       /\ 1 \in 1 .. Len(w) /\ Len(w) \in 1 .. Len(w)
  BY <1>1 DEF Linked
<1>12. \A i \in 1 .. Len(w) : q.next[w[i]] = IF i = Len(w) THEN NoNode ELSE w[i + 1]
  BY DEF Linked
<1>13. \A x \in Node \ Allocated(q) : q.next[x] = NoNode
  BY DEF Linked
<1>14. CASE p = 1
  <2>1. n = q.first
    BY <1>11, <1>14
  <2>2. r = queue_dequeue(q)
    BY <2>1 DEF queue_node_remove
  <2>3. /\ r.first = IF q.first = q.last THEN NoNode ELSE q.next[q.first]
        /\ r.last = IF q.first = q.last THEN NoNode ELSE q.last
        /\ r.next = [q.next EXCEPT ![n] = NoNode]
    BY <2>1, <2>2 DEF queue_dequeue, Freed, QueueType
  <2>4. q.first = q.last <=> Len(w) = 1
    BY <1>4, <1>11
  <2>5. \A k \in 1 .. Len(v) : v[k] = w[k + 1] /\ k + 1 \in 1 .. Len(w)
    BY <1>1, <1>3, <1>14
  <2>6. r.first = IF Len(v) = 0 THEN NoNode ELSE v[1]
    <3>1. CASE Len(w) = 1
      BY <1>3, <2>3, <2>4, <3>1
    <3>2. CASE Len(w) # 1
      <4>1. q.next[w[1]] = w[1 + 1] /\ 1 \in 1 .. Len(v) /\ Len(v) # 0
        BY <1>1, <1>3, <1>11, <1>12, <3>2
      <4> QED
        BY <1>11, <2>3, <2>4, <2>5, <3>2, <4>1
    <3> QED
      BY <3>1, <3>2
  <2>7. r.last = IF Len(v) = 0 THEN NoNode ELSE v[Len(v)]
    <3>1. CASE Len(w) = 1
      BY <1>3, <2>3, <2>4, <3>1
    <3>2. CASE Len(w) # 1
      <4>1. Len(v) \in 1 .. Len(v) /\ Len(v) # 0 /\ Len(v) + 1 = Len(w)
        BY <1>1, <1>3, <1>11, <3>2
      <4> QED
        BY <1>11, <2>3, <2>4, <2>5, <3>2, <4>1
    <3> QED
      BY <3>1, <3>2
  <2>8. ASSUME NEW i \in 1 .. Len(v)
        PROVE  r.next[v[i]] = IF i = Len(v) THEN NoNode ELSE v[i + 1]
    <3>1. v[i] = w[i + 1] /\ i + 1 \in 1 .. Len(w) /\ i + 1 # 1
      BY <1>1, <1>3, <2>5
    <3>2. w[i + 1] # n /\ w[i + 1] \in Node
      BY <1>2, <1>4, <1>14, <3>1
    <3>3. r.next[w[i + 1]] = q.next[w[i + 1]]
      BY <1>6, <2>3, <3>2
    <3>4. q.next[w[i + 1]] = IF i + 1 = Len(w) THEN NoNode ELSE w[(i + 1) + 1]
      BY <1>12, <3>1
    <3>5. i # Len(v) => i + 1 \in 1 .. Len(v)
      BY <1>1, <1>3
    <3>6. i # Len(v) => v[i + 1] = w[(i + 1) + 1]
      BY <2>5, <3>5
    <3>7. i + 1 = Len(w) <=> i = Len(v)
      BY <1>1, <1>3
    <3> QED
      BY <3>1, <3>3, <3>4, <3>6, <3>7
  <2>9. \A x \in Node \ Allocated(r) : r.next[x] = NoNode
    BY <1>6, <1>7, <1>13, <2>3
  <2> QED
    BY <1>3, <1>8, <1>9, <1>10, <2>6, <2>7, <2>8, <2>9 DEF Linked, v
<1>15. CASE p # 1
  <2>1. n # q.first /\ p - 1 \in 1 .. Len(w) /\ (p - 1) + 1 = p
    BY <1>1, <1>4, <1>11, <1>15
  <2>2. PICK m \in Allocated(q) :
          /\ q.next[m] = n
          /\ r = Freed([q EXCEPT !.last = IF @ = n THEN m ELSE @, !.next[m] = q.next[n]], n)
    BY <2>1 DEF queue_node_remove
  <2>3. m = w[p - 1]
    <3>1. PICK i \in 1 .. Len(w) : w[i] = m
      BY <2>2 DEF Linked
    <3>2. n \in Node /\ n # NoNode
      BY <1>2, NullIsNoNode
    <3>3. i # Len(w) /\ w[i + 1] = n /\ i + 1 \in 1 .. Len(w)
      BY <1>1, <1>12, <2>2, <3>1, <3>2
    <3>4. i + 1 = p
      BY <1>4, <3>3
    <3>5. i = p - 1
      BY <1>1, <3>4
    <3> QED
      BY <3>1, <3>5
  <2>4. /\ r.first = q.first
        /\ r.last = IF q.last = n THEN m ELSE q.last
        /\ r.next = [[q.next EXCEPT ![m] = q.next[n]] EXCEPT ![n] = NoNode]
    BY <2>2 DEF Freed, QueueType
  <2>5. m \in Node /\ n \in Node /\ m # n
    BY <1>1, <1>2, <1>4, <2>1, <2>3
  <2>6. /\ r.next[m] = q.next[n]
        /\ r.next[n] = NoNode
        /\ \A x \in Node \ {m, n} : r.next[x] = q.next[x]
    BY <1>6, <2>4, <2>5
  <2>7. r.first = IF Len(v) = 0 THEN NoNode ELSE v[1]
    <3>1. 1 \in 1 .. Len(v) /\ 1 < p /\ Len(v) # 0
      BY <1>1, <1>3, <1>15
    <3> QED
      BY <1>3, <1>11, <2>4, <3>1
  <2>8. r.last = IF Len(v) = 0 THEN NoNode ELSE v[Len(v)]
    <3>1. Len(v) \in 1 .. Len(v) /\ Len(v) # 0 /\ Len(v) + 1 = Len(w)
      BY <1>1, <1>3, <1>15
    <3>2. CASE p = Len(w)
      <4>1. Len(v) < p /\ Len(v) = p - 1
        BY <1>1, <1>3, <3>2
      <4> QED
        BY <1>3, <1>11, <2>3, <2>4, <3>1, <3>2, <4>1
    <3>3. CASE p # Len(w)
      <4>1. ~(Len(v) < p) /\ q.last # n
        BY <1>1, <1>3, <1>4, <1>11, <3>3
      <4> QED
        BY <1>3, <1>11, <2>4, <3>1, <4>1
    <3> QED
      BY <3>2, <3>3
  <2>9. ASSUME NEW i \in 1 .. Len(v)
        PROVE  r.next[v[i]] = IF i = Len(v) THEN NoNode ELSE v[i + 1]
    <3>1. i # Len(v) => i + 1 \in 1 .. Len(v)
      BY <1>1, <1>3
    <3>2. CASE i < p - 1
      <4>1. /\ i < p /\ i + 1 < p /\ i # Len(v) /\ i \in 1 .. Len(w) /\ i # Len(w)
            /\ i # p - 1 /\ i # p
        BY <1>1, <1>3, <3>2
      <4>2. v[i] = w[i] /\ v[i + 1] = w[i + 1]
        BY <1>3, <3>1, <4>1
      <4>3. w[i] \in Node \ {m, n}
        BY <1>2, <1>4, <2>1, <2>3, <4>1
      <4> QED
        BY <1>12, <2>6, <4>1, <4>2, <4>3
    <3>3. CASE i = p - 1
      <4>1. i < p /\ i + 1 = p /\ v[i] = m
        BY <1>1, <1>3, <2>3, <3>3
      <4>2. q.next[n] = IF p = Len(w) THEN NoNode ELSE w[p + 1]
        BY <1>12
      <4>3. p = Len(w) <=> i = Len(v)
        BY <1>1, <1>3, <3>3
      <4>4. i # Len(v) => v[i + 1] = w[p + 1]
        BY <1>1, <1>3, <3>1, <4>1
      <4> QED
        BY <2>6, <4>1, <4>2, <4>3, <4>4
    <3>4. CASE ~(i < p - 1) /\ i # p - 1
      <4>1. ~(i < p) /\ i + 1 \in 1 .. Len(w) /\ i + 1 # p /\ i + 1 # p - 1 /\ ~(i + 1 < p)
        BY <1>1, <1>3, <3>4
      <4>2. v[i] = w[i + 1] /\ w[i + 1] \in Node \ {m, n}
        BY <1>2, <1>3, <1>4, <2>1, <2>3, <4>1
      <4>3. q.next[w[i + 1]] = IF i + 1 = Len(w) THEN NoNode ELSE w[(i + 1) + 1]
        BY <1>12, <4>1
      <4>4. i # Len(v) => v[i + 1] = w[(i + 1) + 1]
        BY <1>3, <3>1, <4>1
      <4>5. i + 1 = Len(w) <=> i = Len(v)
        BY <1>1, <1>3
      <4> QED
        BY <2>6, <4>2, <4>3, <4>4, <4>5
    <3> QED
      BY <3>2, <3>3, <3>4
  <2>10. \A x \in Node \ Allocated(r) : r.next[x] = NoNode
    BY <1>7, <1>13, <2>2, <2>5, <2>6
  <2> QED
    BY <1>3, <1>8, <1>9, <1>10, <2>7, <2>8, <2>9, <2>10 DEF Linked, v
<1> QED
  BY <1>14, <1>15

-----------------------------------------------------------------------------
(* The list and the table of DescriptorTable.                              *)

\* The table that the list stands for.
TableOf(q) == [k \in DOMAIN Walk(q) |-> q.fd[Walk(q)[k]]]

ListInv == Linked(files, Walk(files)) /\ Open_files = Len(Walk(files))

\* Place p of the list has the node n, which is the first one of its file.
FirstAt(q, n, p) ==
  /\ p \in 1 .. Len(Walk(q))
  /\ Walk(q)[p] = n
  /\ \A j \in 1 .. p - 1 : q.fd[Walk(q)[j]].fileId # q.fd[n].fileId

\* What queue_node_get finds is the first node of the file.
LEMMA GetFinds ==
  ASSUME NEW q, Linked(q, Walk(q)), NEW id, NEW n \in Node, n = queue_node_get(q, id)
  PROVE  q.fd[n].fileId = id /\ \E p : FirstAt(q, n, p)
<1> DEFINE w == Walk(q)
           hits == {k \in DOMAIN w : q.fd[w[k]].fileId = id}
           pos == PositionOf(q, id)
<1>1. w \in Seq(Node) /\ Len(w) \in Nat /\ DOMAIN w = 1 .. Len(w)
  BY LinkedNodes
<1>2. pos = IF hits = {} THEN 0 ELSE CHOOSE k \in hits : \A j \in hits : k <= j
  BY DEF PositionOf
<1>3. n = IF pos = 0 THEN NoNode ELSE w[pos]
  BY DEF queue_node_get
<1>4. pos # 0 /\ hits # {}
  BY <1>2, <1>3, NullIsNoNode
<1>5. hits \subseteq Nat
  BY <1>1
<1> HIDE DEF hits
<1>6. \E k \in hits : \A j \in hits : k <= j
  BY <1>4, <1>5, NatMin
<1>7. pos \in hits /\ \A j \in hits : pos <= j
  BY <1>2, <1>4, <1>6
<1>8. pos \in 1 .. Len(w) /\ w[pos] = n /\ q.fd[n].fileId = id
  BY <1>1, <1>3, <1>4, <1>7 DEF hits
<1>9. ASSUME NEW j \in 1 .. pos - 1
      PROVE  q.fd[w[j]].fileId # id
  <2>1. j \in 1 .. Len(w) /\ ~(pos <= j)
    BY <1>1, <1>8
  <2>2. j \notin hits
    BY <1>7, <2>1
  <2> QED
    BY <1>1, <2>1, <2>2 DEF hits
<1>10. FirstAt(q, n, pos)
  BY <1>8, <1>9 DEF FirstAt
<1> QED
  BY <1>8, <1>10

\* What the list is, for the lemmas below.
LEMMA ListFacts ==
  ASSUME NEW q \in QueueType, Linked(q, Walk(q))
  PROVE  /\ Walk(q) \in Seq(Node) /\ Len(Walk(q)) \in Nat
         /\ \A i \in 1 .. Len(Walk(q)) :
               Walk(q)[i] \in Node /\ q.fd[Walk(q)[i]] \in Descriptor
         /\ TableOf(q) \in Seq(Descriptor) /\ Len(TableOf(q)) = Len(Walk(q))
         /\ \A i \in 1 .. Len(Walk(q)) : TableOf(q)[i] = q.fd[Walk(q)[i]]
<1>1. /\ Walk(q) \in Seq(Node) /\ Len(Walk(q)) \in Nat
      /\ DOMAIN Walk(q) = 1 .. Len(Walk(q))
  BY LinkedNodes
<1>2. \A i \in 1 .. Len(Walk(q)) :
         Walk(q)[i] \in Node /\ q.fd[Walk(q)[i]] \in Descriptor
  BY LinkedNodes DEF Allocated, QueueType
<1>3. TableOf(q) = [k \in 1 .. Len(Walk(q)) |-> q.fd[Walk(q)[k]]]
  BY <1>1 DEF TableOf
<1>4. TableOf(q) \in Seq(Descriptor) /\ Len(TableOf(q)) = Len(Walk(q))
  BY <1>1, <1>2, <1>3
<1> QED
  BY <1>1, <1>2, <1>3, <1>4

\* A new descriptor is behind the others.
LEMMA TableOpens ==
  ASSUME ListInv, files \in QueueType, NEW h \in Handle, NEW fsize \in Nat,
         AddDescriptor(h, fsize)
  PROVE  /\ ListInv'
         /\ TableOf(files') = Append(TableOf(files), [fileId |-> h, size |-> fsize,
                                          read_offset |-> 0, write_offset |-> 0])
<1> DEFINE d == [fileId |-> h, size |-> fsize, read_offset |-> 0, write_offset |-> 0]
           w == Walk(files)
<1>1. PICK n \in Node \ Allocated(files) : files' = queue_enqueue(files, n, d)
  BY DEF AddDescriptor
<1>2. d \in Descriptor
  BY DEF Descriptor
<1>3. Linked(files, w) /\ Open_files = Len(w)
  BY DEF ListInv
<1>4. files' \in QueueType /\ files'.fd = [files.fd EXCEPT ![n] = d]
  BY <1>1, <1>2, EnqueueAdds
<1> HIDE DEF d
<1>5. Linked(files', Append(w, n))
  BY <1>1, <1>2, <1>3, EnqueueLinks
<1>6. Walk(files') = Append(w, n)
  BY <1>5, WalkIsList
<1>7. /\ w \in Seq(Node) /\ Len(w) \in Nat
      /\ TableOf(files) \in Seq(Descriptor) /\ Len(TableOf(files)) = Len(w)
      /\ \A i \in 1 .. Len(w) : w[i] \in Node /\ TableOf(files)[i] = files.fd[w[i]]
  BY ListFacts DEF ListInv
<1>8. \A i \in 1 .. Len(w) : w[i] # n
  BY <1>3, LinkedNodes
<1> HIDE DEF w
<1>9. /\ Append(w, n) \in Seq(Node) /\ Len(Append(w, n)) = Len(w) + 1
      /\ \A i \in 1 .. Len(w) : Append(w, n)[i] = w[i]
      /\ Append(w, n)[Len(w) + 1] = n
  BY <1>7, AppendProperties
<1>10. Open_files' = Open_files + 1
  BY DEF AddDescriptor
<1>11. ListInv'
  BY <1>3, <1>5, <1>6, <1>9, <1>10 DEF ListInv
<1>12. /\ TableOf(files') \in Seq(Descriptor) /\ Len(TableOf(files')) = Len(w) + 1
       /\ \A i \in 1 .. Len(w) + 1 : TableOf(files')[i] = files'.fd[Append(w, n)[i]]
  <2>1. Linked(files', Walk(files')) /\ Walk(files') = Append(w, n)
    BY <1>6, <1>5
  <2>2. /\ TableOf(files') \in Seq(Descriptor) /\ Len(TableOf(files')) = Len(Walk(files'))
        /\ \A i \in 1 .. Len(Walk(files')) : TableOf(files')[i] = files'.fd[Walk(files')[i]]
    BY <1>4, <2>1, ListFacts
  <2> QED
    BY <1>9, <2>1, <2>2
<1>13. \A i \in 1 .. Len(w) : TableOf(files')[i] = TableOf(files)[i]
  <2> SUFFICES ASSUME NEW i \in 1 .. Len(w) PROVE TableOf(files')[i] = TableOf(files)[i]
    OBVIOUS
  <2>1. i \in 1 .. Len(w) + 1
    BY <1>7
  <2>2. files'.fd[w[i]] = files.fd[w[i]]
    BY <1>4, <1>7, <1>8 DEF QueueType
  <2> QED
    BY <1>7, <1>9, <1>12, <2>1, <2>2
<1>14. TableOf(files')[Len(w) + 1] = d
  <2>1. Len(w) + 1 \in 1 .. Len(w) + 1
    BY <1>7
  <2>2. files'.fd[n] = d
    BY <1>1, <1>4 DEF QueueType
  <2> QED
    BY <1>9, <1>12, <2>1, <2>2
<1>15. /\ Append(TableOf(files), d) \in Seq(Descriptor) /\ Len(Append(TableOf(files), d)) = Len(w) + 1
       /\ \A i \in 1 .. Len(w) : Append(TableOf(files), d)[i] = TableOf(files)[i]
       /\ Append(TableOf(files), d)[Len(w) + 1] = d
  BY <1>2, <1>7, AppendProperties
<1>16. \A i \in 1 .. Len(w) + 1 : TableOf(files')[i] = Append(TableOf(files), d)[i]
  BY <1>7, <1>13, <1>14, <1>15
<1>17. TableOf(files') = Append(TableOf(files), d)
  BY <1>12, <1>15, <1>16, SeqEqual
<1> QED
  BY <1>11, <1>17 DEF d

\* A descriptor that is closed is gone, and the others keep their order.
LEMMA TableCloses ==
  ASSUME ListInv, files \in QueueType, NEW n \in Node, NEW p, FirstAt(files, n, p),
         files' \in queue_node_remove(files, n), Open_files' = Open_files - 1
  PROVE  ListInv' /\ TableOf(files') = Closed(TableOf(files), p)
<1> DEFINE w == Walk(files)
           v == Closed(w, p)
<1>1. Linked(files, w) /\ Open_files = Len(w) /\ p \in 1 .. Len(w) /\ w[p] = n
  BY DEF ListInv, FirstAt
<1>2. Linked(files', v)
  BY <1>1, RemoveLinks
<1>3. Walk(files') = v
  BY <1>2, WalkIsList
<1>4. /\ w \in Seq(Node) /\ Len(w) \in Nat
      /\ TableOf(files) \in Seq(Descriptor) /\ Len(TableOf(files)) = Len(w)
      /\ \A i \in 1 .. Len(w) : w[i] \in Node /\ TableOf(files)[i] = files.fd[w[i]]
  BY ListFacts DEF ListInv
<1> HIDE DEF w
<1>5. /\ v \in Seq(Node) /\ Len(v) = Len(w) - 1
      /\ \A i \in 1 .. Len(w) - 1 : v[i] = IF i < p THEN w[i] ELSE w[i + 1]
  BY <1>1, <1>4, ClosedFacts
<1> HIDE DEF v
<1>6. ListInv'
  <2>1. Walk(files)' = v
    BY <1>3
  <2> QED
    BY <1>1, <1>2, <1>5, <2>1 DEF ListInv
<1>7. files' \in QueueType /\ files'.fd = [files.fd EXCEPT ![n] = NoFd]
  BY RemoveDrops
<1>8. /\ TableOf(files') \in Seq(Descriptor) /\ Len(TableOf(files')) = Len(w) - 1
      /\ \A i \in 1 .. Len(w) - 1 : TableOf(files')[i] = files'.fd[v[i]]
  <2>1. Linked(files', Walk(files')) /\ Walk(files') = v
    BY <1>3, <1>2
  <2>2. /\ TableOf(files') \in Seq(Descriptor) /\ Len(TableOf(files')) = Len(Walk(files'))
        /\ \A i \in 1 .. Len(Walk(files')) : TableOf(files')[i] = files'.fd[Walk(files')[i]]
    BY <1>7, <2>1, ListFacts
  <2> QED
    BY <1>5, <2>1, <2>2
<1>9. /\ p \in 1 .. Len(TableOf(files))
      /\ Closed(TableOf(files), p) \in Seq(Descriptor) /\ Len(Closed(TableOf(files), p)) = Len(w) - 1
      /\ \A i \in 1 .. Len(w) - 1 :
            Closed(TableOf(files), p)[i] = IF i < p THEN TableOf(files)[i] ELSE TableOf(files)[i + 1]
  <2>1. p \in 1 .. Len(TableOf(files))
    BY <1>1, <1>4
  <2> QED
    BY <1>4, <2>1, ClosedFacts
<1>10. ASSUME NEW i \in 1 .. Len(w) - 1
       PROVE  TableOf(files')[i] = Closed(TableOf(files), p)[i]
  <2> DEFINE j == IF i < p THEN i ELSE i + 1
  <2>1. j \in 1 .. Len(w) /\ j # p /\ v[i] = w[j] /\ Closed(TableOf(files), p)[i] = TableOf(files)[j]
    BY <1>1, <1>4, <1>5, <1>9
  <2>2. w[j] # n /\ w[j] \in Node
    BY <1>1, <1>4, <2>1 DEF Linked
  <2>3. files'.fd[w[j]] = files.fd[w[j]]
    BY <1>7, <2>2 DEF QueueType
  <2> QED
    BY <1>4, <1>8, <2>1, <2>3
<1>11. TableOf(files') = Closed(TableOf(files), p)
  BY <1>8, <1>9, <1>10, SeqEqual
<1> QED
  BY <1>6, <1>11

\* A chunk changes one descriptor where it is.
LEMMA TableMoves ==
  ASSUME ListInv, files \in QueueType, NEW n \in Allocated(files), NEW d \in Descriptor,
         files' = [files EXCEPT !.fd[n] = d], Open_files' = Open_files,
         d.fileId = files.fd[n].fileId,
         NEW p, FirstAt(files, n, p)
  PROVE  /\ ListInv'
         /\ TableOf(files') = [TableOf(files) EXCEPT ![p] = d]
         /\ FirstAt(files', n, p)
<1> DEFINE w == Walk(files)
<1>1. Linked(files, w) /\ Open_files = Len(w) /\ p \in 1 .. Len(w) /\ w[p] = n
  BY DEF ListInv, FirstAt
<1>2. n \in Node
  BY DEF Allocated
<1>3. files' \in QueueType /\ files'.fd = [files.fd EXCEPT ![n] = d]
      /\ files'.first = files.first /\ files'.last = files.last /\ files'.next = files.next
  <2>1. files' = [first |-> files.first, last |-> files.last, next |-> files.next,
                  fd |-> [files.fd EXCEPT ![n] = d]]
    BY <1>2 DEF QueueType
  <2> QED
    BY <1>2, <2>1 DEF QueueType
<1>4. Allocated(files') = Allocated(files)
  BY <1>2, <1>3, NoFdIsNoDescriptor DEF Allocated, QueueType
<1>5. Linked(files', w)
  BY ZenonT(60), <1>1, <1>3, <1>4 DEF Linked
<1>6. Walk(files') = w
  BY <1>5, WalkIsList
<1>7. ListInv'
  <2>1. Walk(files)' = w
    BY <1>6
  <2> QED
    BY <1>1, <1>5, <2>1 DEF ListInv
<1>8. /\ w \in Seq(Node) /\ Len(w) \in Nat
      /\ TableOf(files) \in Seq(Descriptor) /\ Len(TableOf(files)) = Len(w)
      /\ \A i \in 1 .. Len(w) : w[i] \in Node /\ TableOf(files)[i] = files.fd[w[i]]
  BY ListFacts DEF ListInv
<1>9. \A i \in 1 .. Len(w) : w[i] = n => i = p
  BY <1>1 DEF Linked
<1> HIDE DEF w
<1>10. /\ TableOf(files') \in Seq(Descriptor) /\ Len(TableOf(files')) = Len(w)
       /\ \A i \in 1 .. Len(w) : TableOf(files')[i] = files'.fd[w[i]]
  <2>1. Linked(files', Walk(files')) /\ Walk(files') = w
    BY <1>6, <1>5
  <2>2. /\ TableOf(files') \in Seq(Descriptor) /\ Len(TableOf(files')) = Len(Walk(files'))
        /\ \A i \in 1 .. Len(Walk(files')) : TableOf(files')[i] = files'.fd[Walk(files')[i]]
    BY <1>3, <2>1, ListFacts
  <2> QED
    BY <2>1, <2>2
<1>11. /\ TableOf(files') = [i \in 1 .. Len(w) |-> TableOf(files')[i]]
       /\ TableOf(files) = [i \in 1 .. Len(w) |-> TableOf(files)[i]]
  BY <1>8, <1>10, SeqIsFunction
<1>12. \A i \in 1 .. Len(w) : TableOf(files')[i] = IF i = p THEN d ELSE TableOf(files)[i]
  BY ZenonT(60), <1>1, <1>2, <1>3, <1>8, <1>9, <1>10 DEF QueueType
<1>13. TableOf(files') = [TableOf(files) EXCEPT ![p] = d]
  BY <1>1, <1>11, <1>12
<1>14. \A i \in 1 .. Len(w) : files'.fd[w[i]].fileId = files.fd[w[i]].fileId
  BY <1>2, <1>3, <1>8 DEF QueueType
<1>15. FirstAt(files', n, p)
  <2>1. \A j \in 1 .. p - 1 : j \in 1 .. Len(w) /\ files.fd[w[j]].fileId # files.fd[n].fileId
    BY <1>1, <1>8 DEF FirstAt, w
  <2>2. files'.fd[n].fileId = files.fd[n].fileId
    BY <1>1, <1>14
  <2> QED
    BY <1>1, <1>6, <1>14, <2>1, <2>2 DEF FirstAt
<1> QED
  BY <1>7, <1>13, <1>15

-----------------------------------------------------------------------------
(* The sizes of files and directories.                                     *)

Used == {h \in Handle : tree[h].kind # "free"}

SizeLimit == MaxFileSize + EntrySize * Cardinality(Handle)

\* A file has at most the bytes that its blocks have, and a directory has at most an
\* entry for every inode in use.
SizesInv == \A h \in Handle : tree[h].size <= MaxFileSize + EntrySize * Cardinality(Used)

\* Numbers of inodes.
LEMMA UsedCounts ==
  ASSUME NEW U \in SUBSET Handle
  PROVE  /\ Cardinality(U) \in Nat /\ Cardinality(Handle) \in Nat
         /\ EntrySize * Cardinality(U) \in Nat /\ EntrySize * Cardinality(Handle) \in Nat
         /\ EntrySize * Cardinality(U) <= EntrySize * Cardinality(Handle)
         /\ \A h \in Handle \ U :
               EntrySize * Cardinality(U \cup {h}) = EntrySize * Cardinality(U) + EntrySize
<1>1. /\ IsFiniteSet(U) /\ IsFiniteSet(Handle)
      /\ Cardinality(U) \in Nat /\ Cardinality(Handle) \in Nat
      /\ Cardinality(U) <= Cardinality(Handle)
  BY HandlesAreFinite, FS_Subset, FS_CardinalityType
<1>2. EntrySize \in Nat
  BY SizesAreNaturals
<1>3. \A h \in Handle \ U : Cardinality(U \cup {h}) = Cardinality(U) + 1
  BY <1>1, FS_AddElement
<1>4. \A c \in Nat : EntrySize * (c + 1) = EntrySize * c + EntrySize /\ EntrySize * c \in Nat
  BY <1>2
<1>5. \A b, c \in Nat : b <= c => EntrySize * b <= EntrySize * c
  BY <1>2
<1> QED
  BY <1>1, <1>3, <1>4, <1>5

\* Nothing is larger than the limit.
LEMMA SizesBounded ==
  ASSUME TypeOK, SizesInv
  PROVE  SizeLimit \in Nat /\ \A h \in Handle : tree[h].size \in 0 .. SizeLimit
<1>1. /\ EntrySize * Cardinality(Used) \in Nat /\ EntrySize * Cardinality(Handle) \in Nat
      /\ EntrySize * Cardinality(Used) <= EntrySize * Cardinality(Handle)
  BY UsedCounts DEF Used
<1>2. MaxFileSize \in Nat
  BY SizesAreNaturals
<1>3. \A h \in Handle : tree[h].size \in Nat
  BY DEF TypeOK, Inode
<1> QED
  BY <1>1, <1>2, <1>3 DEF SizesInv, SizeLimit

\* A creation makes one directory larger by one entry.
LEMMA MadeSizes ==
  ASSUME TypeOK, SizesInv,
         NEW kind \in {"file", "dir"}, NEW dir, NEW name, NEW h \in Handle,
         Made(kind, dir, name, h)
  PROVE  SizesInv'
<1>1. tree \in [Handle -> Inode] /\ dir \in Handle /\ h # dir /\ h \notin Used
  BY DEF TypeOK, Made, Used
<1>2. tree' = [tree EXCEPT ![h] = [kind |-> kind, dir |-> dir, name |-> name, size |-> 0],
                           ![dir].size = @ + EntrySize]
  BY DEF Made
<1>3. tree[dir] \in Inode /\ tree[dir].kind = "dir"
  BY <1>1 DEF Made
<1>4. /\ tree'[h].size = 0 /\ tree'[h].kind = kind
      /\ tree'[dir].size = tree[dir].size + EntrySize /\ tree'[dir].kind = "dir"
      /\ \A g \in Handle \ {h, dir} : tree'[g] = tree[g]
  BY <1>1, <1>2, <1>3 DEF Inode
<1>5. Used' = Used \cup {h}
  BY <1>1, <1>3, <1>4 DEF Used
<1>6. /\ EntrySize * Cardinality(Used) \in Nat
      /\ EntrySize * Cardinality(Used \cup {h}) = EntrySize * Cardinality(Used) + EntrySize
  <2>1. Used \in SUBSET Handle /\ h \in Handle \ Used
    BY <1>1 DEF Used
  <2> QED
    BY <2>1, UsedCounts
<1>7. \A g \in Handle : tree[g].size \in Nat
  BY <1>1 DEF Inode
<1>8. MaxFileSize \in Nat /\ EntrySize \in Nat
  BY SizesAreNaturals
<1> QED
  BY <1>1, <1>4, <1>5, <1>6, <1>7, <1>8 DEF SizesInv

\* A write stays within the blocks.
LEMMA WrittenSizes ==
  ASSUME TypeOK, SizesInv, NEW h \in Handle, NEW offset \in Nat, NEW count \in Nat,
         Written(h, offset, count)
  PROVE  SizesInv' /\ SizeAfter(h, offset, count) \in 0 .. SizeLimit
<1>1. tree \in [Handle -> Inode] /\ tree[h] \in Inode /\ tree[h].size \in Nat
  BY DEF TypeOK, Inode
<1>2. SizeAfter(h, offset, count) \in Nat /\ SizeAfter(h, offset, count) <= MaxFileSize
  BY <1>1 DEF SizeAfter, Clipped, Written
<1>3. tree' = [tree EXCEPT ![h].size = SizeAfter(h, offset, count)]
  BY DEF Written
<1>4. /\ tree'[h].size = SizeAfter(h, offset, count)
      /\ \A g \in Handle \ {h} : tree'[g] = tree[g]
      /\ \A g \in Handle : tree'[g].kind = tree[g].kind
  BY <1>1, <1>3 DEF Inode
<1>5. Used' = Used
  BY <1>4 DEF Used
<1>6. EntrySize * Cardinality(Used) \in Nat /\ EntrySize * Cardinality(Handle) \in Nat
  BY UsedCounts DEF Used
<1>7. MaxFileSize \in Nat
  BY SizesAreNaturals
<1> QED
  BY <1>2, <1>4, <1>5, <1>6, <1>7 DEF SizesInv, SizeLimit

\* The tree that the client finds.
LEMMA InitSizes == Init => SizesInv
<1> SUFFICES ASSUME Init, NEW h \in Handle
             PROVE  tree[h].size <= MaxFileSize + EntrySize * Cardinality(Used)
  BY DEF SizesInv
<1>1. tree = InitTree /\ tree \in [Handle -> Inode]
  BY InitTreeIsTree DEF Init
<1>2. tree[h].kind \in {"free", "dir", "file"} /\ tree[h].size \in Nat
  BY <1>1 DEF Inode
<1> DEFINE C == {g \in Handle \ {Root} : InitTree[g].kind # "free" /\ InitTree[g].dir = h}
<1>3. C \in SUBSET Handle /\ C \in SUBSET Used /\ Used \in SUBSET Handle
  BY <1>1 DEF Used
<1>4. tree[h].kind = "dir" => tree[h].size = EntrySize * Cardinality(C)
  BY <1>1, InitTreeIsTree
<1> HIDE DEF C
<1>5. EntrySize * Cardinality(Used) \in Nat /\ MaxFileSize \in Nat
  BY <1>3, UsedCounts, SizesAreNaturals
<1>6. EntrySize * Cardinality(C) <= EntrySize * Cardinality(Used)
  <2>1. IsFiniteSet(Used)
    BY <1>3, HandlesAreFinite, FS_Subset
  <2>2. Cardinality(C) \in Nat /\ Cardinality(Used) \in Nat /\ Cardinality(C) <= Cardinality(Used)
    BY <1>3, <2>1, FS_Subset, UsedCounts
  <2>3. \A b, c \in Nat : b <= c => EntrySize * b <= EntrySize * c
    BY SizesAreNaturals
  <2> QED
    BY <2>2, <2>3
<1>7. EntrySize * Cardinality(C) \in Nat
  BY <1>3, UsedCounts
<1>8. tree[h].kind = "file" => tree[h].size <= MaxFileSize
  BY <1>1, InitTreeIsTree
<1>9. tree[h].kind = "free" => tree[h].size = 0
  BY <1>1, InitTreeIsTree DEF Free
<1> QED
  BY <1>2, <1>4, <1>5, <1>6, <1>7, <1>8, <1>9

-----------------------------------------------------------------------------
(* The steps of the library are steps of the table.                        *)

\* A call that opens a file has a slot, the size it will note is one a file can have,
\* and a call that transfers is on the first descriptor of its file.
CallInv ==
  /\ call.at \in {"open", "open_dir", "create"} => Open_files < MAX_OPEN_FILES
  /\ call.at = "create" => call.fsize \in 0 .. SizeLimit
  /\ call.at \in {"read", "write"} => \E p : FirstAt(files, call.node, p)

TableInv == IInv /\ SizesInv /\ ListInv /\ CallInv

\* The types that the lemmas about the list need.
LEMMA FilesType ==
  ASSUME IInv
  PROVE  /\ files \in QueueType
         /\ \A n \in Allocated(files) : n \in Node /\ files.fd[n] \in Descriptor
BY DEF IInv, TypeOK, QueueType, Allocated

\* A read chunk moves the read offset of one descriptor towards the known size.
LEMMA ReadChunkMoves ==
  ASSUME IInv, ReadChunk
  PROVE  /\ call.at = "read" /\ tree' = tree /\ Open_files' = Open_files
         /\ call'.at \in {"idle", "read"}
         /\ call'.at = "read" => call'.node = call.node
         /\ \E to \in files.fd[call.node].read_offset .. files.fd[call.node].size :
              files' = [files EXCEPT !.fd[call.node] =
                          [files.fd[call.node] EXCEPT !.read_offset = to]]
<1> DEFINE n == call.node
           fd == files.fd[n]
           nread == Delivered(fd.fileId, fd.read_offset, Smaller(MAX_READ_DATA, call.left))
<1>1. call.at = "read"
  BY DEF ReadChunk
<1>2. /\ n \in Allocated(files) /\ n \in Node /\ fd \in Descriptor
      /\ fd.fileId \in Handle /\ fd.size \in Nat /\ fd.read_offset \in Nat
      /\ tree[fd.fileId].size \in Nat
      /\ call.left \in Nat \ {0} /\ call.again \in {0, 1}
  BY <1>1, TransferFacts
<1>3. fd.read_offset + call.left <= fd.size
  BY <1>1, <1>2 DEF IInv, Reading
<1>4. nread \in Nat /\ nread <= call.left
  BY <1>2, SizesAreNaturals DEF Delivered, Smaller
<1>5. /\ call' = Transfer("read", n, call.left - nread, 1 - call.again)
      /\ files' = [files EXCEPT !.fd[n].read_offset = @ + nread]
      /\ tree' = tree /\ Open_files' = Open_files
  BY DEF ReadChunk
<1> HIDE DEF nread
<1>6. call'.at \in {"idle", "read"} /\ (call'.at = "read" => call'.node = n)
  <2>1. call.left - nread \in Nat
    BY <1>2, <1>4
  <2>2. 1 - call.again \in {0, 1}
    BY <1>2
  <2> QED
    BY <1>2, <1>5, <2>1, <2>2, TransferShapes
<1>7. fd.read_offset + nread \in fd.read_offset .. fd.size
  BY <1>2, <1>3, <1>4
<1>8. files' = [files EXCEPT !.fd[n] = [fd EXCEPT !.read_offset = fd.read_offset + nread]]
  BY <1>5
<1> QED
  BY <1>1, <1>5, <1>6, <1>7, <1>8

\* A write chunk moves the write offset of one descriptor and notes the server's size.
LEMMA WriteChunkMoves ==
  ASSUME IInv, SizesInv, WriteChunk
  PROVE  /\ call.at = "write" /\ SizesInv' /\ Open_files' = Open_files
         /\ call'.at \in {"idle", "write"}
         /\ call'.at = "write" => call'.node = call.node
         /\ \E size \in 0 .. SizeLimit : \E to \in files.fd[call.node].write_offset .. size :
              /\ files.fd[call.node].read_offset <= size
              /\ files' = [files EXCEPT !.fd[call.node] =
                             [files.fd[call.node] EXCEPT !.size = size, !.write_offset = to]]
<1> DEFINE n == call.node
           fd == files.fd[n]
           wBytes == Smaller(MAX_WRITE_DATA, call.left)
           size == SizeAfter(fd.fileId, fd.write_offset, wBytes)
<1>1. call.at = "write"
  BY DEF WriteChunk
<1>2. /\ n \in Allocated(files) /\ n \in Node /\ fd \in Descriptor
      /\ fd.fileId \in Handle /\ fd.size \in Nat /\ fd.read_offset \in Nat
      /\ fd.write_offset \in Nat /\ tree[fd.fileId].size \in Nat
      /\ call.left \in Nat \ {0} /\ call.again \in {0, 1}
  BY <1>1, TransferFacts
<1>3. fd.read_offset <= tree[fd.fileId].size /\ fd.write_offset <= tree[fd.fileId].size
  BY <1>2 DEF IInv, OffsetsInFile, Server
<1>4. wBytes \in Nat /\ call.left - wBytes \in Nat
  BY <1>2, SizesAreNaturals DEF Smaller
<1>5. /\ Written(fd.fileId, fd.write_offset, wBytes)
      /\ files' = [files EXCEPT !.fd[n].size = size, !.fd[n].write_offset = @ + wBytes]
      /\ call' = Transfer("write", n, call.left - wBytes, 1 - call.again)
      /\ Open_files' = Open_files
  BY DEF WriteChunk
<1> HIDE DEF wBytes
<1>6. /\ TreeGrows /\ tree'[fd.fileId].size = size /\ size \in Nat
      /\ fd.write_offset + wBytes <= tree'[fd.fileId].size
  BY <1>2, <1>3, <1>4, <1>5, WrittenGrows DEF IInv
<1>7. SizesInv' /\ size \in 0 .. SizeLimit
  BY <1>2, <1>4, <1>5, WrittenSizes DEF IInv
<1> HIDE DEF size
<1>8. tree'[fd.fileId].size >= tree[fd.fileId].size
  BY <1>2, <1>6 DEF TreeGrows
<1>9. call'.at \in {"idle", "write"} /\ (call'.at = "write" => call'.node = n)
  <2>1. 1 - call.again \in {0, 1}
    BY <1>2
  <2> QED
    BY <1>2, <1>4, <1>5, <2>1, TransferShapes
<1>10. files' = [files EXCEPT !.fd[n] = [fd EXCEPT !.size = size,
                                                   !.write_offset = fd.write_offset + wBytes]]
  <2>1. files \in QueueType
    BY FilesType
  <2> QED
    BY <1>2, <1>5, <2>1 DEF QueueType, Descriptor
<1>11. /\ fd.write_offset + wBytes \in fd.write_offset .. size
       /\ fd.read_offset <= size
  BY <1>2, <1>3, <1>4, <1>6, <1>8
<1> QED
  BY <1>1, <1>5, <1>7, <1>9, <1>10, <1>11

\* A step that leaves the list alone.
LEMMA ListStays ==
  ASSUME ListInv, UNCHANGED <<files, Open_files>>
  PROVE  ListInv' /\ TableOf(files') = TableOf(files)
BY DEF ListInv

\* The place of a node in the list is its place in the table.
LEMMA FirstInTable ==
  ASSUME ListInv, files \in QueueType, NEW n, NEW p, FirstAt(files, n, p)
  PROVE  /\ p \in Table!FirstOf(files.fd[n].fileId)
         /\ p \in 1 .. Len(TableOf(files))
         /\ TableOf(files)[p] = files.fd[n]
<1> DEFINE w == Walk(files)
           T == TableOf(files)
<1>1. /\ p \in 1 .. Len(w) /\ w[p] = n
      /\ \A j \in 1 .. p - 1 : files.fd[w[j]].fileId # files.fd[n].fileId
  BY DEF FirstAt
<1>2. /\ Len(w) \in Nat /\ T \in Seq(Descriptor) /\ Len(T) = Len(w)
      /\ \A i \in 1 .. Len(w) : T[i] = files.fd[w[i]]
  BY ListFacts DEF ListInv
<1>3. T[p] = files.fd[n] /\ p \in DOMAIN T
  BY <1>1, <1>2
<1>4. \A j \in 1 .. p - 1 : T[j].fileId # files.fd[n].fileId
  <2> SUFFICES ASSUME NEW j \in 1 .. p - 1 PROVE T[j].fileId # files.fd[n].fileId
    OBVIOUS
  <2>1. j \in 1 .. Len(w)
    BY <1>1, <1>2
  <2> QED
    BY <1>1, <1>2, <2>1
<1>5. Table!FirstOf(files.fd[n].fileId) =
        {i \in DOMAIN T : /\ T[i].fileId = files.fd[n].fileId
                          /\ \A j \in 1 .. i - 1 : T[j].fileId # files.fd[n].fileId}
  BY DEF Table!FirstOf, TableOf
<1> HIDE DEF T
<1>6. p \in Table!FirstOf(files.fd[n].fileId)
  BY <1>3, <1>4, <1>5
<1> QED
  BY <1>1, <1>2, <1>3, <1>6 DEF T

\* A step that leaves the list alone is none of the table.
LEMMA QuietStep ==
  ASSUME TableInv, IInv', SizesInv', CallInv', UNCHANGED <<files, Open_files>>
  PROVE  TableInv' /\ TableOf(files') = TableOf(files)
BY ListStays DEF TableInv

\* AddDescriptor opens a file in the table.
LEMMA OpenStep ==
  ASSUME TableInv, IInv', SizesInv', Open_files < MAX_OPEN_FILES,
         NEW h \in Handle, NEW fsize \in 0 .. SizeLimit, AddDescriptor(h, fsize)
  PROVE  TableInv' /\ Table!Next
<1>1. files \in QueueType /\ ListInv
  BY FilesType DEF TableInv
<1>2. fsize \in Nat
  BY SizesBounded DEF TableInv, IInv
<1>3. /\ ListInv'
      /\ TableOf(files') = Append(TableOf(files), [fileId |-> h, size |-> fsize,
                                                   read_offset |-> 0, write_offset |-> 0])
  BY <1>1, <1>2, TableOpens
<1>4. Len(TableOf(files)) < MAX_OPEN_FILES
  BY <1>1, ListFacts DEF ListInv
<1>5. Table!Open(h, fsize)
  BY <1>3, <1>4 DEF Table!Open, TableOf
<1>6. Table!Next
  BY <1>5 DEF Table!Next, SizeLimit
<1>7. call' = Idle
  BY DEF AddDescriptor
<1>8. CallInv'
  BY <1>7 DEF CallInv, Idle
<1> QED
  BY <1>3, <1>6, <1>8 DEF TableInv

\* my_close closes the first descriptor of the file.
LEMMA CloseStep ==
  ASSUME TableInv, IInv', my_close
  PROVE  TableInv' /\ Table!Next
<1>1. PICK id \in Handle, n \in Allocated(files) :
        n = queue_node_get(files, id) /\ files' \in queue_node_remove(files, n)
  BY DEF my_close
<1>2. files \in QueueType /\ ListInv /\ n \in Node
  BY FilesType DEF TableInv
<1>3. PICK p : FirstAt(files, n, p) /\ files.fd[n].fileId = id
  BY <1>1, <1>2, GetFinds DEF ListInv
<1>4. Open_files' = Open_files - 1 /\ tree' = tree /\ call' = call /\ call = Idle
  BY DEF my_close
<1>5. ListInv' /\ TableOf(files') = Closed(TableOf(files), p)
  BY <1>1, <1>2, <1>3, <1>4, TableCloses
<1>6. p \in Table!FirstOf(id) /\ p \in 1 .. Len(TableOf(files))
  BY <1>2, <1>3, FirstInTable
<1>7. TableOf(files) \in Seq(Descriptor)
  BY <1>2, ListFacts DEF ListInv
<1>8. TableOf(files') = Table!RemoveAt(TableOf(files), p)
  BY <1>5, <1>6, <1>7, RemoveAtCloses
<1>9. Table!Close(id)
  BY <1>6, <1>8 DEF Table!Close, TableOf
<1>10. SizesInv'
  BY <1>4 DEF TableInv, SizesInv, Used
<1>11. CallInv'
  BY <1>4 DEF CallInv, Idle
<1> QED
  BY <1>5, <1>9, <1>10, <1>11 DEF Table!Next, TableInv

\* A read chunk is a read of the table.
LEMMA ReadStep ==
  ASSUME TableInv, IInv', ReadChunk
  PROVE  TableInv' /\ Table!Next
<1> DEFINE n == call.node
           fd == files.fd[n]
<1>1. files \in QueueType /\ ListInv /\ IInv
  BY FilesType DEF TableInv
<1>2. /\ call.at = "read" /\ tree' = tree /\ Open_files' = Open_files
      /\ call'.at \in {"idle", "read"}
      /\ call'.at = "read" => call'.node = n
  BY <1>1, ReadChunkMoves
<1>3. PICK to \in fd.read_offset .. fd.size :
        files' = [files EXCEPT !.fd[n] = [fd EXCEPT !.read_offset = to]]
  BY <1>1, ReadChunkMoves
<1>4. /\ n \in Allocated(files) /\ fd \in Descriptor
      /\ fd.fileId \in Handle /\ fd.size \in Nat /\ fd.read_offset \in Nat
  BY <1>1, <1>2, TransferFacts
<1> DEFINE d == [fd EXCEPT !.read_offset = to]
<1>5. d \in Descriptor /\ d.fileId = fd.fileId
  BY <1>4 DEF Descriptor
<1>6. PICK p : FirstAt(files, n, p)
  BY <1>2 DEF TableInv, CallInv
<1>7. files' = [files EXCEPT !.fd[n] = d]
  BY <1>3
<1> HIDE DEF d
<1>8. /\ ListInv'
      /\ TableOf(files') = [TableOf(files) EXCEPT ![p] = d]
      /\ FirstAt(files', n, p)
  BY <1>1, <1>2, <1>4, <1>5, <1>6, <1>7, TableMoves
<1>9. p \in Table!FirstOf(fd.fileId) /\ TableOf(files)[p] = fd
  BY <1>1, <1>6, FirstInTable
<1>10. TableOf(files') = [TableOf(files) EXCEPT ![p].read_offset = to]
  BY <1>8, <1>9 DEF d
<1>11. \E id \in Handle : Table!Read(id)
  <2>1. PICK id \in Handle : id = fd.fileId
    BY <1>4
  <2>2. Table!Read(id)
    BY <1>9, <1>10, <2>1 DEF Table!Read, TableOf
  <2> QED
    BY <2>2
<1>12. SizesInv'
  BY <1>2 DEF TableInv, SizesInv, Used
<1>13. CallInv'
  BY <1>2, <1>8 DEF CallInv
<1>14. Table!Next
  BY <1>11 DEF Table!Next
<1> QED
  BY <1>8, <1>12, <1>13, <1>14 DEF TableInv

\* A write chunk is a write of the table.
LEMMA WriteStep ==
  ASSUME TableInv, IInv', WriteChunk
  PROVE  TableInv' /\ Table!Next
<1> DEFINE n == call.node
           fd == files.fd[n]
<1>1. files \in QueueType /\ ListInv /\ IInv /\ SizesInv
  BY FilesType DEF TableInv
<1>2. /\ call.at = "write" /\ SizesInv' /\ Open_files' = Open_files
      /\ call'.at \in {"idle", "write"}
      /\ call'.at = "write" => call'.node = n
  BY <1>1, WriteChunkMoves
<1>3. PICK size \in 0 .. SizeLimit : \E to \in fd.write_offset .. size :
        /\ fd.read_offset <= size
        /\ files' = [files EXCEPT !.fd[n] = [fd EXCEPT !.size = size, !.write_offset = to]]
  BY <1>1, WriteChunkMoves
<1>4. PICK to \in fd.write_offset .. size :
        /\ fd.read_offset <= size
        /\ files' = [files EXCEPT !.fd[n] = [fd EXCEPT !.size = size, !.write_offset = to]]
  BY <1>3
<1>5. /\ n \in Allocated(files) /\ fd \in Descriptor
      /\ fd.fileId \in Handle /\ fd.write_offset \in Nat /\ fd.read_offset \in Nat
  BY <1>1, <1>2, TransferFacts
<1>6. size \in Nat /\ to \in Nat
  BY <1>1, <1>5, SizesBounded DEF IInv
<1> DEFINE d == [fd EXCEPT !.size = size, !.write_offset = to]
<1>7. d \in Descriptor /\ d.fileId = fd.fileId
  BY <1>5, <1>6 DEF Descriptor
<1>8. PICK p : FirstAt(files, n, p)
  BY <1>2 DEF TableInv, CallInv
<1>9. files' = [files EXCEPT !.fd[n] = d]
  BY <1>4
<1> HIDE DEF d
<1>10. /\ ListInv'
       /\ TableOf(files') = [TableOf(files) EXCEPT ![p] = d]
       /\ FirstAt(files', n, p)
  BY <1>1, <1>2, <1>5, <1>7, <1>8, <1>9, TableMoves
<1>11. /\ p \in Table!FirstOf(fd.fileId) /\ TableOf(files)[p] = fd
       /\ p \in 1 .. Len(TableOf(files))
  BY <1>1, <1>8, FirstInTable
<1>12. TableOf(files) \in Seq(Descriptor)
  BY <1>1, ListFacts DEF ListInv
<1>13. TableOf(files') = [TableOf(files) EXCEPT ![p].write_offset = to, ![p].size = size]
  <2>1. [fd EXCEPT !.write_offset = to, !.size = size] = d
    BY <1>5 DEF d, Descriptor
  <2>2. [TableOf(files) EXCEPT ![p].write_offset = to, ![p].size = size]
          = [TableOf(files) EXCEPT ![p] = [fd EXCEPT !.write_offset = to, !.size = size]]
    BY <1>5, <1>11, <1>12 DEF Descriptor
  <2> QED
    BY <1>10, <2>1, <2>2
<1>14. \E id \in Handle : Table!Write(id, size)
  <2>1. PICK id \in Handle : id = fd.fileId
    BY <1>5
  <2>2. Table!Write(id, size)
    BY <1>4, <1>11, <1>13, <2>1 DEF Table!Write, TableOf
  <2> QED
    BY <2>2
<1>15. CallInv'
  BY <1>2, <1>10 DEF CallInv
<1>16. Table!Next
  BY <1>14 DEF Table!Next, SizeLimit
<1> QED
  BY <1>2, <1>10, <1>15, <1>16 DEF TableInv

\* A step that changes neither the list nor the tree.
LEMMA SameSizes ==
  ASSUME SizesInv, tree' = tree
  PROVE  SizesInv'
BY DEF SizesInv, Used

\* Every step is one of the table or none.
LEMMA StepOfTable ==
  ASSUME TableInv, [Next]_vars
  PROVE  TableInv' /\ (Table!Next \/ TableOf(files') = TableOf(files))
<1>1. IInv /\ IInv' /\ SizesInv /\ TypeOK
  BY StepKeeps DEF TableInv, IInv
<1>2. call \in Call /\ \A h \in Handle : tree[h].size \in 0 .. SizeLimit
  BY <1>1, SizesBounded DEF TypeOK
<1>3. CASE my_open
  <2>1. call'.at = "open" /\ Open_files < MAX_OPEN_FILES
    BY <1>3 DEF my_open
  <2>2. UNCHANGED <<tree, files, Open_files>>
    BY <1>3 DEF my_open
  <2>3. CallInv'
    BY <2>1, <2>2 DEF CallInv
  <2> QED
    BY <1>1, <2>2, <2>3, SameSizes, QuietStep
<1>4. CASE OpenFound
  <2>1. PICK h \in Handle : AddDescriptor(h, tree[h].size)
    BY <1>4 DEF OpenFound
  <2>2. tree' = tree /\ Open_files < MAX_OPEN_FILES
    BY <1>4 DEF OpenFound, TableInv, CallInv
  <2>3. tree[h].size \in 0 .. SizeLimit /\ SizesInv'
    BY <1>1, <1>2, <2>2, SameSizes
  <2> QED
    BY <1>1, <2>1, <2>2, <2>3, OpenStep
<1>5. CASE OpenNotFound
  <2>1. call \in [at : {"open", "open_dir"}, path : Paths, create : BOOLEAN]
    BY <1>2, <1>5, CallShapes DEF OpenNotFound
  <2>2. call'.at = "open_dir" /\ Open_files < MAX_OPEN_FILES
    BY <1>5, <2>1 DEF OpenNotFound, TableInv, CallInv
  <2>3. UNCHANGED <<tree, files, Open_files>>
    BY <1>5 DEF OpenNotFound
  <2>4. CallInv'
    BY <2>2, <2>3 DEF CallInv
  <2> QED
    BY <1>1, <2>3, <2>4, SameSizes, QuietStep
<1>6. CASE OpenDirectory
  <2> DEFINE Continue(dir, fsize) ==
        IF call.create
        THEN [at |-> "create", path |-> call.path, fsize |-> fsize,
              dir |-> IF Len(Tokens[call.path]) = 1 THEN Root ELSE dir]
        ELSE Idle
  <2>1. UNCHANGED <<tree, files, Open_files>> /\ Open_files < MAX_OPEN_FILES
    BY <1>6 DEF OpenDirectory, TableInv, CallInv
  <2>2. 0 \in 0 .. SizeLimit
    BY <1>1, SizesBounded
  <2>3. \E dir, fsize : fsize \in 0 .. SizeLimit /\ call' = Continue(dir, fsize)
    <3>1. \/ \E d \in Handle : call' = Continue(d, tree[d].size)
          \/ call' = Continue(NoHandle, 0)
      BY <1>6 DEF OpenDirectory
    <3> HIDE DEF Continue
    <3> QED
      BY <1>2, <2>2, <3>1
  <2>4. ASSUME NEW dir, NEW fsize \in 0 .. SizeLimit
        PROVE  /\ Continue(dir, fsize).at \in {"create", "idle"}
               /\ Continue(dir, fsize).at = "create" => Continue(dir, fsize).fsize = fsize
    BY DEF Idle
  <2>5. call'.at \in {"create", "idle"} /\ (call'.at = "create" => call'.fsize \in 0 .. SizeLimit)
    <3> HIDE DEF Continue
    <3> QED
      BY <2>3, <2>4
  <2>6. CallInv'
    BY <2>1, <2>5 DEF CallInv, SizeLimit
  <2> QED
    BY <1>1, <2>1, <2>6, SameSizes, QuietStep
<1>7. CASE OpenCreate
  <2>1. PICK h \in Handle : /\ Made("file", call.dir, newfilename[call.path], h)
                            /\ AddDescriptor(h, call.fsize)
    BY <1>7 DEF OpenCreate
  <2>2. call.fsize \in 0 .. SizeLimit /\ Open_files < MAX_OPEN_FILES
    BY <1>7 DEF OpenCreate, TableInv, CallInv
  <2>3. SizesInv'
    BY <1>1, <2>1, MadeSizes
  <2> QED
    BY <1>1, <2>1, <2>2, <2>3, OpenStep
<1>8. CASE my_read
  <2>1. PICK id \in Handle, count \in Counts, n \in Allocated(files) :
          /\ n = queue_node_get(files, id)
          /\ call' = Transfer("read", n, Smaller(count, files.fd[n].size - files.fd[n].read_offset), 0)
    BY <1>8 DEF my_read
  <2>2. UNCHANGED <<tree, files, Open_files>> /\ n \in Node
    BY <1>1, <1>8, FilesType DEF my_read
  <2>3. \E p : FirstAt(files, n, p)
    BY <2>1, <2>2, GetFinds DEF TableInv, ListInv
  <2>4. call'.at \in {"idle", "read"} /\ (call'.at = "read" => call'.node = n)
    BY <2>1 DEF Transfer, Idle
  <2>5. CallInv'
    BY <2>2, <2>3, <2>4 DEF CallInv
  <2> QED
    BY <1>1, <2>2, <2>5, SameSizes, QuietStep
<1>9. CASE my_write
  <2>1. PICK id \in Handle, count \in Counts, n \in Allocated(files) :
          n = queue_node_get(files, id) /\ call' = Transfer("write", n, count, 0)
    BY <1>9 DEF my_write
  <2>2. UNCHANGED <<tree, files, Open_files>> /\ n \in Node
    BY <1>1, <1>9, FilesType DEF my_write
  <2>3. \E p : FirstAt(files, n, p)
    BY <2>1, <2>2, GetFinds DEF TableInv, ListInv
  <2>4. call'.at \in {"idle", "write"} /\ (call'.at = "write" => call'.node = n)
    BY <2>1 DEF Transfer, Idle
  <2>5. CallInv'
    BY <2>2, <2>3, <2>4 DEF CallInv
  <2> QED
    BY <1>1, <2>2, <2>5, SameSizes, QuietStep
<1>10. CASE my_mkdir \/ MkdirNotFound \/ MkdirDirectory \/ CallFails
  <2>1. UNCHANGED <<tree, files, Open_files>>
    BY <1>10 DEF my_mkdir, MkdirNotFound, MkdirDirectory, CallFails
  <2>2. call'.at \in {"mkdir", "mkdir_dir", "make", "idle"}
    <3>1. CASE MkdirNotFound
      <4>1. call \in [at : {"mkdir", "mkdir_dir"}, path : Paths]
        BY <1>2, <3>1, CallShapes DEF MkdirNotFound
      <4> QED
        BY <3>1, <4>1 DEF MkdirNotFound
    <3> QED
      BY <1>10, <3>1 DEF my_mkdir, MkdirDirectory, CallFails, Idle
  <2>3. CallInv'
    BY <2>2 DEF CallInv
  <2> QED
    BY <1>1, <2>1, <2>3, SameSizes, QuietStep
<1>11. CASE MkdirMake
  <2>1. PICK h \in Handle : Made("dir", call.dir, newfilename[call.path], h)
    BY <1>11 DEF MkdirMake
  <2>2. SizesInv'
    BY <1>1, <2>1, MadeSizes
  <2>3. CallInv' /\ UNCHANGED <<files, Open_files>>
    BY <1>11 DEF MkdirMake, CallInv, Idle
  <2> QED
    BY <1>1, <2>2, <2>3, QuietStep
<1>12. CASE OtherClient
  <2>1. UNCHANGED <<files, Open_files, call>>
    BY <1>12 DEF OtherClient
  <2>2. PICK h \in Handle :
          \/ \E kind \in {"file", "dir"}, dir \in Handle, name \in OtherNames :
               Made(kind, dir, name, h)
          \/ \E count \in 1 .. MAX_WRITE_DATA : Written(h, tree[h].size, count)
    BY <1>12 DEF OtherClient
  <2>3. SizesInv'
    <3>1. CASE \E kind \in {"file", "dir"}, dir \in Handle, name \in OtherNames :
                 Made(kind, dir, name, h)
      BY <1>1, <3>1, MadeSizes
    <3>2. CASE \E count \in 1 .. MAX_WRITE_DATA : Written(h, tree[h].size, count)
      <4>1. tree[h].size \in Nat /\ \A count \in 1 .. MAX_WRITE_DATA : count \in Nat
        BY <1>1, SizesAreNaturals DEF TypeOK, Inode
      <4> QED
        BY <1>1, <3>2, <4>1, WrittenSizes
    <3> QED
      BY <2>2, <3>1, <3>2
  <2>4. CallInv'
    BY <2>1 DEF TableInv, CallInv, SizeLimit
  <2> QED
    BY <1>1, <2>1, <2>3, <2>4, QuietStep
<1>13. CASE UNCHANGED vars
  <2>1. UNCHANGED <<tree, files, Open_files, call>>
    BY <1>13 DEF vars
  <2>2. CallInv'
    BY <2>1 DEF TableInv, CallInv, SizeLimit
  <2> QED
    BY <1>1, <2>1, <2>2, SameSizes, QuietStep
<1>14. CASE my_close
  BY <1>1, <1>14, CloseStep
<1>15. CASE ReadChunk
  BY <1>1, <1>15, ReadStep
<1>16. CASE WriteChunk
  BY <1>1, <1>16, WriteStep
<1> QED
  BY <1>3, <1>4, <1>5, <1>6, <1>7, <1>8, <1>9, <1>10, <1>11, <1>12, <1>13, <1>14,
     <1>15, <1>16 DEF Next, Answer

\* The empty list is the empty table.
LEMMA InitOfTable == Init => TableInv /\ Table!Init
<1> SUFFICES ASSUME Init PROVE TableInv /\ Table!Init
  OBVIOUS
<1>1. Linked(files, <<>>)
  BY DEF Init, EmptyQueue, Linked, Allocated
<1>2. Walk(files) = <<>>
  BY <1>1, WalkIsList
<1>3. ListInv
  BY <1>1, <1>2 DEF ListInv, Init
<1>4. TableOf(files) = <<>>
  BY <1>2 DEF TableOf
<1>5. Table!Init
  BY <1>4 DEF Table!Init, TableOf
<1>6. CallInv
  BY DEF CallInv, Init, Idle
<1> QED
  BY <1>3, <1>5, <1>6, InitEstablishes, InitSizes DEF TableInv

\* The invariant of the list holds at all times.
THEOREM ListInvariance == Spec => []TableInv
<1>1. Init => TableInv
  BY InitOfTable
<1>2. TableInv /\ [Next]_vars => TableInv'
  BY StepOfTable
<1> QED
  BY <1>1, <1>2, PTL DEF Spec

\* Open_files, which limits my_open, counts the descriptors in use, and the list
\* that every call walks has each of them once and ends at last (myfs.c:64, 139-140,
\* 239-246, queue.c:39-56, 80-160).
THEOREM CountIsRight == Spec => []ListMatchesCount
<1>1. TableInv => ListMatchesCount
  <2> SUFFICES ASSUME TableInv PROVE ListMatchesCount
    OBVIOUS
  <2> DEFINE w == Walk(files)
  <2>1. Linked(files, w) /\ Open_files = Len(w)
    BY DEF TableInv, ListInv
  <2>2. w \in Seq(Node) /\ Len(w) \in Nat /\ DOMAIN w = 1 .. Len(w)
    BY <2>1, LinkedNodes
  <2>3. Cardinality(Allocated(files)) = Len(w)
    BY <2>1, LinkedCounts
  <2>4. {w[k] : k \in DOMAIN w} = Allocated(files)
    BY <2>1, <2>2 DEF Linked
  <2>5. w = <<>> <=> Len(w) = 0
    BY <2>2
  <2>6. files.last = IF w = <<>> THEN NoNode ELSE w[Len(w)]
    BY <2>1, <2>5 DEF Linked
  <2> QED
    BY <2>1, <2>3, <2>4, <2>6 DEF ListMatchesCount
<1> QED
  BY <1>1, ListInvariance, PTL

\* The linked list of open files implements a table in the order of opening: calls reach
\* the first descriptor of a file, and closing one neither moves nor changes another
\* (myfs.c:112-142, 153-246, queue.c:39-56, 80-160).
THEOREM ListImplementsTable == Spec => ImplementsTable
<1>1. Init => Table!Init
  BY InitOfTable
<1>2. TableInv /\ [Next]_vars =>
        [Table!Next]_[k \in DOMAIN Walk(files) |-> files.fd[Walk(files)[k]]]
  BY StepOfTable DEF TableOf
<1> QED
  BY <1>1, <1>2, ListInvariance, PTL DEF Spec, ImplementsTable, Table!Spec

=============================================================================
