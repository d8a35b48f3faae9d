------------------------------ MODULE OpenFiles ------------------------------
(***************************************************************************)
(* The client file library (snfs_lib/myfs.c): open files with a read and a *)
(* write offset on top of remote calls.  A call of the library is several  *)
(* remote calls, and between two of them other clients change the server's *)
(* files.  The server is modelled by what the stubs of snfs_api.c get from *)
(* its handlers (snfs_server/snfs.c), each answered from the current tree; *)
(* that the real one may answer from stale caches is the matter of         *)
(* FileSystem.  The library has no locks: one thread calls it.             *)
(*                                                                         *)
(* Strings are sequences of characters where myfs.c takes them apart: the  *)
(* directory and the file name of a path are computed as it does it.       *)
(***************************************************************************)
EXTENDS DescriptorQueue, Integers, SequencesExt

CONSTANTS
  Handle,           \* inode numbers, the root's first
  Root,
  InitTree,         \* the server's inodes when the client starts
  Paths,            \* the path names the client passes to the library
  OtherNames,       \* the names under which other clients create
  Names,            \* the names that directory entries can have
  Counts,           \* the byte counts the client passes to the library
  MAX_OPEN_FILES,
  MAX_READ_DATA,    \* bytes in one read answer
  MAX_WRITE_DATA,   \* bytes in one write request
  MAX_FILE_NAME_SIZE,
  MaxFileSize,      \* bytes the block numbers of an inode reach
  EntrySize         \* bytes of a directory entry

ASSUME RootIsHandle == Root \in Handle
ASSUME HandlesAreFinite == IsFiniteSet(Handle)
ASSUME SizesAreNaturals ==
  /\ MAX_OPEN_FILES \in Nat /\ MaxFileSize \in Nat /\ EntrySize \in Nat
  /\ MAX_READ_DATA \in Nat \ {0} /\ MAX_WRITE_DATA \in Nat \ {0}
ASSUME CountsAreNaturals == Counts \subseteq Nat

VARIABLES
  tree,        \* the server's inodes: kind, directory, name and size
  files,       \* Open_files_list
  Open_files,  \* how many files are open
  call         \* the library call in progress and what it has computed

vars == <<tree, files, Open_files, call>>

-----------------------------------------------------------------------------
\* Path names.

\* The pieces strtok(path, "/") cuts.
Cut(path) ==
  SelectSeq(FoldLeft(LAMBDA ts, c : IF c = "/" THEN Append(ts, <<>>)
                                    ELSE [ts EXCEPT ![Len(ts)] = Append(@, c)],
                     << <<>> >>, path),
            LAMBDA t : t # <<>>)

InRoot(path) == Len(Cut(path)) = 1

\* strncpy without a terminator: what is longer in the buffer stays behind s.
Overlay(buffer, s) == s \o SubSeq(buffer, Len(s) + 1, Len(buffer))

\* Every piece in turn is copied over the one before it.
newfilename ==
  [path \in Paths |->
     LET name == FoldLeft(Overlay, <<>>, Cut(path))
     IN  IF InRoot(path) THEN Overlay(name, Tail(path)) ELSE name]

newdirname ==
  [path \in Paths |->
     IF InRoot(path) THEN path
     ELSE SubSeq(path, 1, Len(path) - (Len(newfilename[path]) + 1))]

\* The pieces of the path names that are looked up.
Tokens == [path \in Paths \cup {newdirname[p] : p \in Paths} |-> Cut(path)]

\* The test of the last character (line[i] with i = strlen) looks at the
\* terminator and never fails: a path may end in "/".
myparse(path) ==
  /\ path # <<>> /\ path[1] = "/"
  /\ \A i \in 1 .. Len(path) - 1 : <<path[i], path[i + 1]>> # <<"/", "/">>
  /\ \A i \in DOMAIN Tokens[path] : Len(Tokens[path][i]) <= MAX_FILE_NAME_SIZE - 1

ASSUME NamesOccur ==
  OtherNames \subseteq Names /\ \A path \in Paths : newfilename[path] \in Names

-----------------------------------------------------------------------------
\* The server, as the remote calls see it.

Inode == [kind : {"free", "dir", "file"}, dir : Handle, name : Names \cup {<<>>}, size : Nat]

Free == [kind |-> "free", dir |-> Root, name |-> <<>>, size |-> 0]

\* A directory is as large as its entries, a file no larger than its blocks.
ASSUME InitTreeIsTree ==
  /\ InitTree \in [Handle -> Inode]
  /\ \A h \in Handle : InitTree[h].kind = "free" => InitTree[h] = Free
  /\ \A h \in Handle : InitTree[h].kind = "file" => InitTree[h].size <= MaxFileSize
  /\ \A h \in Handle : InitTree[h].kind = "dir" =>
       InitTree[h].size = EntrySize * Cardinality({g \in Handle \ {Root} :
                            InitTree[g].kind # "free" /\ InitTree[g].dir = h})

Child(dir, name) ==
  {h \in Handle \ {Root} : /\ tree[h].kind # "free"
                           /\ tree[h].dir = dir
                           /\ tree[h].name = name}

\* The inodes a look-up of the path ends at: one, or none if it fails.
Resolve(path) ==
  LET tokens == Tokens[path]
      found[i \in 0 .. Len(tokens)] ==
        IF i = 0 THEN {Root}
        ELSE UNION {Child(d, tokens[i]) : d \in {h \in found[i - 1] : tree[h].kind = "dir"}}
  IN  found[Len(tokens)]

\* The handle a failed look-up leaves in *file: the server cleared its answer.
NoHandle == 0

\* fs_create and fs_mkdir on a name that is new in an existing directory.
Made(kind, dir, name, h) ==
  /\ dir \in Handle
  /\ tree[dir].kind = "dir"
  /\ name # <<>>
  /\ Child(dir, name) = {}
  /\ tree[h].kind = "free"
  /\ \A g \in Handle : g < h => tree[g].kind # "free"
  /\ tree' = [tree EXCEPT ![h] = [kind |-> kind, dir |-> dir, name |-> name, size |-> 0],
                          ![dir].size = @ + EntrySize]

\* What a read of count bytes at the offset finds: nothing behind the end.
Delivered(h, offset, count) ==
  IF offset >= tree[h].size THEN 0
  ELSE IF count < tree[h].size - offset THEN count ELSE tree[h].size - offset

\* fs_write moves an offset behind the end of the file to the end.
Clipped(h, offset) == IF offset > tree[h].size THEN tree[h].size ELSE offset

SizeAfter(h, offset, count) ==
  IF Clipped(h, offset) + count > tree[h].size THEN Clipped(h, offset) + count
  ELSE tree[h].size

\* A write that the file has room for.
Written(h, offset, count) ==
  /\ tree[h].kind = "file"
  /\ SizeAfter(h, offset, count) <= MaxFileSize
  /\ tree' = [tree EXCEPT ![h].size = SizeAfter(h, offset, count)]

\* What other clients do to the tree between two remote calls of this one.
OtherClient ==
  /\ \E h \in Handle :
       \/ \E kind \in {"file", "dir"}, dir \in Handle, name \in OtherNames :
            Made(kind, dir, name, h)
       \/ \E count \in 1 .. MAX_WRITE_DATA : Written(h, tree[h].size, count)
  /\ UNCHANGED <<files, Open_files, call>>

\* An open file, as the library knows it.
Descriptor == [fileId : Handle, size : Nat, read_offset : Nat, write_offset : Nat]

ASSUME NoFdIsNoDescriptor == NoFd \notin Descriptor

-----------------------------------------------------------------------------
\* my_open: look the path up; if that fails look its directory up; create.

Idle == [at |-> "idle"]

my_open ==
  /\ call = Idle
  /\ Open_files < MAX_OPEN_FILES
  /\ \E path \in Paths, create \in BOOLEAN :
       /\ myparse(path)
       /\ call' = [at |-> "open", path |-> path, create |-> create]
  /\ UNCHANGED <<tree, files, Open_files>>

\* The end of my_open: a descriptor of its own for every opening.
AddDescriptor(h, fsize) ==
  /\ \E n \in Node \ Allocated(files) :
       /\ n = CHOOSE m \in Node : m \notin Allocated(files)
       /\ files' = queue_enqueue(files, n, [fileId |-> h, size |-> fsize,
                                            read_offset |-> 0, write_offset |-> 0])
  /\ Open_files' = Open_files + 1
  /\ call' = Idle

OpenFound ==
  /\ call.at = "open"
  /\ \E h \in Handle : h \in Resolve(call.path) /\ AddDescriptor(h, tree[h].size)
  /\ UNCHANGED tree

\* A look-up fails when the name is not there, or in the remote call.
OpenNotFound ==
  /\ call.at = "open"
  /\ call' = [call EXCEPT !.at = "open_dir"]
  /\ UNCHANGED <<tree, files, Open_files>>

\* The look-up of the directory: its size takes the place of the file's.
OpenDirectory ==
  /\ call.at = "open_dir"
  /\ LET Continue(dir, fsize) ==
           IF call.create
           THEN [at |-> "create", path |-> call.path, fsize |-> fsize,
                 dir |-> IF Len(Tokens[call.path]) = 1 THEN Root ELSE dir]
           ELSE Idle
     IN  \/ \E d \in Handle : /\ d \in Resolve(newdirname[call.path])
                              /\ call' = Continue(d, tree[d].size)
         \/ call' = Continue(NoHandle, 0)
  /\ UNCHANGED <<tree, files, Open_files>>

OpenCreate ==
  /\ call.at = "create"
  /\ \E h \in Handle : /\ Made("file", call.dir, newfilename[call.path], h)
                       /\ AddDescriptor(h, call.fsize)

-----------------------------------------------------------------------------
\* my_read and my_write: one remote call per chunk.

Smaller(i, j) == IF i < j THEN i ELSE j

\* Mutant: one more remote call after the last byte.
TransferOnceMore(at, n, left, again) ==
  IF left < 0 THEN Idle ELSE [at |-> at, node |-> n, left |-> left, again |-> again]

\* The call returns when nothing is left to transfer.  again changes with
\* every remote call: asking once more is a step, also when nothing came.
Transfer(at, n, left, again) ==
  IF left = 0 THEN Idle ELSE [at |-> at, node |-> n, left |-> left, again |-> again]

\* Mutant: numBytes is not cut to what is left of the file.
my_readUncut ==
  /\ call = Idle
  /\ \E id \in Handle, count \in Counts, n \in Allocated(files) :
       /\ n = queue_node_get(files, id)
       /\ files.fd[n].read_offset # files.fd[n].size
       /\ call' = Transfer("read", n, count, 0)
  /\ UNCHANGED <<tree, files, Open_files>>

\* size - read_offset is unsigned; OffsetsInFile says it does not wrap.
my_read ==
  /\ call = Idle
  /\ \E id \in Handle, count \in Counts, n \in Allocated(files) :
       LET fd == files.fd[n]
       IN  /\ n = queue_node_get(files, id)
           /\ fd.read_offset # fd.size
           /\ call' = Transfer("read", n, Smaller(count, fd.size - fd.read_offset), 0)
  /\ UNCHANGED <<tree, files, Open_files>>

ReadChunk ==
  /\ call.at = "read"
  /\ LET fd == files.fd[call.node]
         nread == Delivered(fd.fileId, fd.read_offset, Smaller(MAX_READ_DATA, call.left))
     IN  /\ tree[fd.fileId].kind = "file"
         /\ files' = [files EXCEPT !.fd[call.node].read_offset = @ + nread]
         /\ call' = Transfer("read", call.node, call.left - nread, 1 - call.again)
  /\ UNCHANGED <<tree, Open_files>>

my_write ==
  /\ call = Idle
  /\ \E id \in Handle, count \in Counts, n \in Allocated(files) :
       /\ n = queue_node_get(files, id)
       /\ call' = Transfer("write", n, count, 0)
  /\ UNCHANGED <<tree, files, Open_files>>

\* Mutant: the offset moves by what is still to be written, not by the chunk.
WriteChunkWholeCount ==
  /\ call.at = "write"
  /\ LET fd == files.fd[call.node]
         wBytes == Smaller(MAX_WRITE_DATA, call.left)
     IN  /\ Written(fd.fileId, fd.write_offset, wBytes)
         /\ files' = [files EXCEPT
              !.fd[call.node].size = SizeAfter(fd.fileId, fd.write_offset, wBytes),
              !.fd[call.node].write_offset = @ + call.left]
         /\ call' = Transfer("write", call.node, call.left - wBytes, 1 - call.again)
  /\ UNCHANGED Open_files

WriteChunk ==
  /\ call.at = "write"
  /\ LET fd == files.fd[call.node]
         wBytes == Smaller(MAX_WRITE_DATA, call.left)
     IN  /\ Written(fd.fileId, fd.write_offset, wBytes)
         /\ files' = [files EXCEPT
              !.fd[call.node].size = SizeAfter(fd.fileId, fd.write_offset, wBytes),
              !.fd[call.node].write_offset = @ + wBytes]
         /\ call' = Transfer("write", call.node, call.left - wBytes, 1 - call.again)
  /\ UNCHANGED Open_files

\* Mutant: the slot is not given back.
my_closeUncounted ==
  /\ call = Idle
  /\ \E id \in Handle, n \in Allocated(files) :
       /\ n = queue_node_get(files, id)
       /\ files' \in queue_node_remove(files, n)
  /\ UNCHANGED <<tree, Open_files, call>>

my_close ==
  /\ call = Idle
  /\ \E id \in Handle, n \in Allocated(files) :
       /\ n = queue_node_get(files, id)
       /\ files' \in queue_node_remove(files, n)
  /\ Open_files' = Open_files - 1
  /\ UNCHANGED <<tree, call>>

-----------------------------------------------------------------------------
\* my_mkdir: fails if the path exists; else as my_open creates a file.

my_mkdir ==
  /\ call = Idle
  /\ \E path \in Paths : myparse(path) /\ call' = [at |-> "mkdir", path |-> path]
  /\ UNCHANGED <<tree, files, Open_files>>

MkdirNotFound ==
  /\ call.at = "mkdir"
  /\ IF Len(Tokens[call.path]) = 1
     THEN call' = [at |-> "make", path |-> call.path, dir |-> Root]
     ELSE call' = [call EXCEPT !.at = "mkdir_dir"]
  /\ UNCHANGED <<tree, files, Open_files>>

MkdirDirectory ==
  /\ call.at = "mkdir_dir"
  /\ \E d \in Handle : /\ d \in Resolve(newdirname[call.path])
                       /\ call' = [at |-> "make", path |-> call.path, dir |-> d]
  /\ UNCHANGED <<tree, files, Open_files>>

MkdirMake ==
  /\ call.at = "make"
  /\ \E h \in Handle : Made("dir", call.dir, newfilename[call.path], h)
  /\ call' = Idle
  /\ UNCHANGED <<files, Open_files>>

\* The remote call in progress fails, in the stub or in the server, or finds
\* what it must not: the library call returns -1 and keeps what the chunks
\* before it have done to the offsets.
CallFails ==
  /\ call.at \in {"create", "read", "write", "mkdir", "mkdir_dir", "make"}
  /\ call' = Idle
  /\ UNCHANGED <<tree, files, Open_files>>

-----------------------------------------------------------------------------

Init ==
  /\ tree = InitTree
  /\ files = EmptyQueue
  /\ Open_files = 0
  /\ call = Idle

\* The steps of a library call once it is made.
Answer ==
  \/ OpenFound \/ OpenNotFound \/ OpenDirectory \/ OpenCreate
  \/ ReadChunk \/ WriteChunk
  \/ MkdirNotFound \/ MkdirDirectory \/ MkdirMake
  \/ CallFails

Next ==
  \/ my_open \/ my_read \/ my_write \/ my_close \/ my_mkdir
  \/ Answer
  \/ OtherClient

Spec == Init /\ [][Next]_vars

\* A library call that is in progress gets its answers; they may be refusals
\* at any time, and nothing makes an answer come with more bytes.
FairSpec == Spec /\ WF_vars(Answer)

-----------------------------------------------------------------------------

Call ==
  {Idle}
  \cup [at : {"open", "open_dir"}, path : Paths, create : BOOLEAN]
  \cup [at : {"create"}, path : Paths, fsize : Nat, dir : Handle \cup {NoHandle}]
  \cup [at : {"read", "write"}, node : Node, left : Nat \ {0}, again : {0, 1}]
  \cup [at : {"mkdir", "mkdir_dir"}, path : Paths]
  \cup [at : {"make"}, path : Paths, dir : Handle]

\* Every variable has its type; a transfer in progress is one of an open file
\* (the caller cannot close it meanwhile), and more is left of it than nothing.
TypeOK ==
  /\ tree \in [Handle -> Inode]
  /\ files \in [first : Node \cup {NoNode}, last : Node \cup {NoNode},
                next : [Node -> Node \cup {NoNode}],
                fd : [Node -> Descriptor \cup {NoFd}]]
  /\ Open_files \in Int
  /\ call \in Call
  /\ call.at \in {"read", "write"} => call.node \in Allocated(files)

\* An open file is read only up to the size the library knows, so that the
\* unsigned size - read_offset of my_read does not wrap, and is written only
\* from an offset the server's file reaches: fs_write would move an offset
\* behind the end, and the bytes would land where the library did not send
\* them.  Both rest on sizes that never shrink, whatever other clients do.
OffsetsInFile ==
  \A n \in Allocated(files) :
    /\ files.fd[n].read_offset <= files.fd[n].size
    /\ files.fd[n].write_offset <= tree[files.fd[n].fileId].size

\* Open_files, which limits my_open, counts what the list holds: the walk
\* from first meets every descriptor in use once and ends at last.
ListMatchesCount ==
  LET w == Walk(files)
  IN  /\ Open_files = Len(w) /\ Open_files = Cardinality(Allocated(files))
      /\ {w[k] : k \in DOMAIN w} = Allocated(files)
      /\ files.last = IF w = <<>> THEN NoNode ELSE w[Len(w)]

\* The list of open files is a table in opening order, whatever is closed in
\* its middle or at its end, and a call reaches the first descriptor of a file.
Table == INSTANCE DescriptorTable WITH
  table <- [k \in DOMAIN Walk(files) |-> files.fd[Walk(files)[k]]],
  Sizes <- 0 .. MaxFileSize + EntrySize * Cardinality(Handle)

ImplementsTable == Table!Spec

\* A read returns if the file has the bytes the descriptor says it has, and so
\* does every other call.
Covered == call.at = "read" => LET fd == files.fd[call.node]
                               IN  fd.size <= tree[fd.fileId].size

CoveredCallReturns == (call # Idle /\ Covered) ~> (call = Idle)

\* myfs.h on my_read: it returns the bytes read, 0 at the end of the file, or
\* -1 if an error occurred.
ReadReturns == (call.at = "read") ~> (call = Idle)

=============================================================================
