---------------------------- MODULE MCOpenFiles ----------------------------
(***************************************************************************)
(* Instances of OpenFiles: the server has a directory d with a file f in   *)
(* it, and the client also uses a path whose directory, dd, it has not.    *)
(***************************************************************************)
EXTENDS OpenFiles

MCPaths == { <<"/", "d">>, <<"/", "d", "/", "f">>, <<"/", "d", "d", "/", "f">> }

MCNames == { <<"f">>, <<"d">>, <<"f", "d">> }

MCInitTree ==
  << [kind |-> "dir",  dir |-> 1, name |-> <<>>,      size |-> 2],
     [kind |-> "dir",  dir |-> 1, name |-> <<"d">>,   size |-> 2],
     [kind |-> "file", dir |-> 2, name |-> <<"f">>,   size |-> 0],
     [kind |-> "free", dir |-> 1, name |-> <<>>,      size |-> 0] >>

MCOtherNames == { <<"f">> }
=============================================================================
