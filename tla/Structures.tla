----------------------------- MODULE Structures -----------------------------
(***************************************************************************)
(* The linked list with its free list and the buffer, side by side: what   *)
(* the messages and the tables of the library are kept in.                 *)
(***************************************************************************)
EXTENDS LinkedList, Membuffer

structVars == <<listVars, bufVars>>

ListUsed   == ListStep /\ UNCHANGED bufVars
BufferUsed == BufferStep /\ UNCHANGED listVars
StructuresSpec == ListInit /\ BufferInit /\ [][ListUsed \/ BufferUsed]_structVars

\* The list's, its free list's and the buffer's fields have the values that
\* LinkedList.h, FreeList.h and membuffer.h declare.
FieldsOK ==
  /\ prev \in [AllNodes -> Links] /\ nxt \in [AllNodes -> Links]
  /\ size \in 0 .. Cardinality(Nodes) /\ freeLen \in 0 .. Cardinality(Nodes)
  /\ owned \subseteq Nodes /\ freeHead \in Nodes \cup {NilNode}
  /\ length \in 0 .. MaxLength /\ capacity \in 0 .. 2 * (MaxLength + SizeInc)

\* The list with its free list and the buffer are sound after every operation,
\* also after one whose allocation failed: links agree both ways, every node is
\* in the list or free, ListFind finds the first match, and the buffer has its
\* bytes (those that a delete could not take off among them), its terminator and
\* room for both.
StructuresSound == FieldsOK /\ LinksAgree /\ NodesAccounted /\ FindsFirst /\ BufferHolds
=============================================================================
