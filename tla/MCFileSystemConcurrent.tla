----------------------- MODULE MCFileSystemConcurrent -----------------------
(* Instances of FileSystemConcurrent for TLC. *)
EXTENDS FileSystemConcurrent, TLC

CONSTANTS name1, name2, name3, name4, p1, p2

\* The threads of the pool are interchangeable.
WorkerSymmetry == Permutations(Workers)

NewName(in, named, as) == [op |-> "create", dir |-> in, name |-> named, type |-> as]

\* The root has two full pages, with directory 2, the empty directory 3 and the
\* files 4 and 5.  Directory 2 has file 6 and room.  Both pages of the root are
\* cached as they were with one entry.
FullRoot ==
    <<NewName(Root, name1, "dir"), NewName(Root, name2, "dir"), NewName(Root, name3, "file"),
      NewName(Root, name4, "file"), NewName(2, name1, "file")>>

\* What clients ask for.  Look-ups: of a name on a later page, and of a name
\* below the root that may be created meanwhile.  Creations: in a page with
\* room, and in two directories that need a block.  Transfers: of one file with
\* one and two blocks.
FewRequests ==
    {[op |-> "lookup", path |-> path] : path \in {<<name3>>, <<name1, name3>>}}
    \cup {NewName(2, name3, "dir"), NewName(3, name1, "file"), NewName(Root, name2, "file")}
    \cup {[op |-> "write", n |-> 6, off |-> 0, cnt |-> cnt] : cnt \in {2, 4}}
    \cup {[op |-> "read", n |-> 6, off |-> 0, cnt |-> 4]}
=============================================================================
