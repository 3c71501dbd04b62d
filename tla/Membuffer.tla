----------------------------- MODULE Membuffer ------------------------------
(***************************************************************************)
(* membuffer.c: a buffer that grows and shrinks.  mem is what buf points   *)
(* to, capacity + 1 cells, or the empty sequence for NULL; cells that      *)
(* nothing was written to hold Junk.  text is what the buffer should hold. *)
(***************************************************************************)
EXTENDS Integers, Sequences

CONSTANTS Texts,     \* what can be put into it
          SizeInc,   \* size_inc, MEMBUF_DEF_SIZE_INC
          MaxLength  \* bound on its length

ASSUME MembufferAssumption ==
  /\ SizeInc \in Nat \ {0} /\ MaxLength \in Nat
  /\ \A s \in Texts : s \in Seq({ s[k] : k \in 1 .. Len(s) }) /\ Len(s) <= MaxLength

VARIABLES mem, length, capacity, text
bufVars == <<mem, length, capacity, text>>

Junk == "junk"
Nul  == "NUL"

\* membuffer_init.
BufferInit == mem = <<>> /\ length = 0 /\ capacity = 0 /\ text = <<>>

Larger(a, b) == IF a > b THEN a ELSE b
\* realloc to n + 1 cells.
Realloc(n) == [k \in 1 .. n + 1 |-> IF k <= Len(mem) THEN mem[k] ELSE Junk]

\* membuffer_set_size: the memory and the capacity it may leave; when the first
\* realloc fails it tries the smallest size.  When that fails too nothing is
\* changed, and membuffer_assign and membuffer_insert return the error.
SetSize(n) ==
  IF n >= length
  THEN IF n <= capacity THEN {<<mem, capacity>>}
       ELSE { <<Realloc(a), a>> : a \in {Larger(SizeInc, n - length) + capacity, n} }
  ELSE IF capacity - n <= SizeInc THEN {<<mem, capacity>>}
       ELSE { <<Realloc(a), a>> : a \in {n + SizeInc, n} }

\* memcpy or memmove of s to position i (from 0), and a terminator.
Copy(m, i, s)   == [k \in 1 .. Len(m) |-> IF k > i /\ k <= i + Len(s) THEN s[k - i] ELSE m[k]]
Terminate(m, i) == [m EXCEPT ![i + 1] = Nul]

\* membuffer_destroy, which is also membuffer_assign of NULL.
MembufferDestroy == mem' = <<>> /\ length' = 0 /\ capacity' = 0 /\ text' = <<>>

\* membuffer_assign.  Nothing is copied, and nothing terminated, for no bytes.
MembufferAssign(s) ==
  \E r \in SetSize(Len(s)) :
    /\ mem' = IF s = <<>> THEN r[1] ELSE Terminate(Copy(r[1], 0, s), Len(s))
    /\ capacity' = r[2] /\ length' = Len(s) /\ text' = s

\* The data right of the place moves first.
Inserted(m, i, s) ==
  Copy(Copy(m, i + Len(s), SubSeq(m, i + 1, length)), i, s)

\* membuffer_insert; membuffer_append is the case i = length.
MembufferInsert(s, i) ==
  /\ i <= length /\ s # <<>> /\ length + Len(s) <= MaxLength
  /\ \E r \in SetSize(length + Len(s)) :
       /\ mem' = Terminate(Inserted(r[1], i, s), length + Len(s))
       /\ capacity' = r[2]
  /\ length' = length + Len(s)
  /\ text' = SubSeq(text, 1, i) \o s \o SubSeq(text, i + 1, Len(text))

\* The number of bytes membuffer_delete takes.
Deleted(i, n) == IF i + n > length THEN length - i ELSE n

\* The bytes after the deleted ones are moved to their place.
Closed(i, d) == Copy(mem, i, SubSeq(mem, i + d + 1, length))

\* Then the memory shrinks.
Trim(i, n) ==
  LET new == length - Deleted(i, n)
  IN  /\ \E r \in SetSize(new) :
           /\ mem' = Terminate(SubSeq(Closed(i, Deleted(i, n)), 1, r[2] + 1), new)
           /\ capacity' = r[2]
      /\ length' = new
      /\ text' = SubSeq(text, 1, i) \o SubSeq(text, i + n + 1, Len(text))

\* Or both reallocs fail: the length stays, so the buffer has as many of its
\* last bytes twice as should have been deleted.  Nobody is told.
TrimFails(i, n) ==
  LET d == Deleted(i, n)
  IN  /\ d > 0 /\ capacity - (length - d) > SizeInc
      /\ mem' = Closed(i, d)
      /\ text' = SubSeq(text, 1, i) \o SubSeq(text, i + d + 1, Len(text))
                   \o SubSeq(text, Len(text) - d + 1, Len(text))
      /\ UNCHANGED <<length, capacity>>

\* membuffer_delete.
MembufferDelete(i, n) == length # 0 /\ i <= length /\ (Trim(i, n) \/ TrimFails(i, n))

\* membuffer_detach gives the memory away.
MembufferDetach == mem' = <<>> /\ length' = 0 /\ capacity' = 0 /\ text' = <<>>

\* membuffer_attach of a string that was allocated with its terminator.
MembufferAttach(s) ==
  /\ mem' = Append(s, Nul) /\ length' = Len(s) /\ capacity' = Len(s) /\ text' = s

BufferStep ==
  \/ \E s \in Texts : \/ MembufferAssign(s) \/ MembufferAttach(s)
                      \/ \E i \in 0 .. length : MembufferInsert(s, i)
  \/ \E i \in 0 .. length, n \in 0 .. MaxLength : MembufferDelete(i, n)
  \/ MembufferDetach
  \/ MembufferDestroy

----------------------------------------------------------------------------
\* The buffer holds what the operations should leave in it, in memory that is
\* large enough, and ends with a terminator whenever it holds something, whether
\* realloc gave the size asked for first, the smallest one, or none: then a delete
\* leaves the bytes that TrimFails says, and no others.
BufferHolds ==
  /\ length <= capacity
  /\ mem = <<>> \/ Len(mem) = capacity + 1
  /\ length = Len(text) /\ SubSeq(mem, 1, length) = text
  /\ length > 0 => mem[length + 1] = Nul
=============================================================================
