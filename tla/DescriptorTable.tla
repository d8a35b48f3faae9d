--------------------------- MODULE DescriptorTable ---------------------------
(***************************************************************************)
(* What the client library promises about open files: a bounded table of   *)
(* descriptors in the order they were opened.  A call names a file by its  *)
(* identifier and reaches the descriptor that was opened first under it;   *)
(* the others are neither moved nor changed.                               *)
(***************************************************************************)
EXTENDS Naturals, Sequences, SequencesExt

CONSTANTS
  Handle,          \* the identifiers of files
  Sizes,           \* the sizes a file can have
  MAX_OPEN_FILES

VARIABLE table

Init == table = <<>>

\* The position of the descriptor that calls on the identifier reach.
FirstOf(id) == {i \in DOMAIN table : /\ table[i].fileId = id
                                     /\ \A j \in 1 .. i - 1 : table[j].fileId # id}

Open(id, size) ==
  /\ Len(table) < MAX_OPEN_FILES
  /\ table' = Append(table, [fileId |-> id, size |-> size,
                             read_offset |-> 0, write_offset |-> 0])

\* A chunk arrives: the read offset never passes the size.
Read(id) ==
  \E i \in FirstOf(id) : \E to \in table[i].read_offset .. table[i].size :
    table' = [table EXCEPT ![i].read_offset = to]

\* A chunk is written: the new size covers it, and all that was read before.
Write(id, size) ==
  \E i \in FirstOf(id) : \E to \in table[i].write_offset .. size :
    /\ table[i].read_offset <= size
    /\ table' = [table EXCEPT ![i].write_offset = to, ![i].size = size]

Close(id) == \E i \in FirstOf(id) : table' = RemoveAt(table, i)

Next ==
  \E id \in Handle :
    \/ \E size \in Sizes : Open(id, size) \/ Write(id, size)
    \/ Read(id)
    \/ Close(id)

Spec == Init /\ [][Next]_table
=============================================================================
