------------------------------ MODULE ListSpec ------------------------------
(***************************************************************************)
(* What LinkedList.h promises: a sequence of items, into which an item can *)
(* be put at any place and from which one can be taken at any place.       *)
(***************************************************************************)
EXTENDS Naturals, Sequences, SequencesExt

CONSTANT Items
VARIABLE seq

Init   == seq = <<>>
Put    == \E k \in 1 .. Len(seq) + 1, i \in Items : seq' = InsertAt(seq, k, i)
Take   == \E k \in 1 .. Len(seq) : seq' = RemoveAt(seq, k)
Clear  == seq' = <<>>
Spec   == Init /\ [][Put \/ Take \/ Clear]_seq
=============================================================================
