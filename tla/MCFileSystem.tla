---------------------------- MODULE MCFileSystem ----------------------------
(* Instances of FileSystem for TLC. *)
EXTENDS FileSystem, TLC

CONSTANTS name1, name2

NewName(in, named, as) == [op |-> "create", dir |-> in, name |-> named, type |-> as]

\* Nothing but the root.
NoSetup == << >>

\* Directory 2 and file 3 in the root, whose page is cached with the first.
DirAndFile == <<NewName(Root, name1, "dir"), NewName(Root, name2, "file")>>
=============================================================================
