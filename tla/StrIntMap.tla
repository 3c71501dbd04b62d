----------------------------- MODULE StrIntMap ------------------------------
(***************************************************************************)
(* strintmap.c: the tables of names and numbers that the HTTP parser looks *)
(* methods, headers and status codes up in.  A name is a sequence of       *)
(* numbers, its character codes; a table is a sequence of [name, id].      *)
(***************************************************************************)
EXTENDS Integers, Sequences

\* The case of a letter: codes above 100 are capitals.
Lower(c) == IF c > 100 THEN c - 100 ELSE c

\* memptr_cmp and memptr_cmp_nocase: negative, zero or positive.
MemptrCmp(m, s, sensitive) ==
  LET code(c) == IF sensitive THEN c ELSE Lower(c)
      at(x, i) == IF i <= Len(x) THEN code(x[i]) ELSE 0
      diffs == { i \in 1 .. Len(m) : at(m, i) # at(s, i) }
  IN  IF diffs # {} THEN LET i == CHOOSE d \in diffs : \A e \in diffs : d <= e
                         IN  at(m, i) - at(s, i)
      ELSE IF Len(m) < Len(s) THEN -1 ELSE 0

\* One round of the search between top and bot, which each round makes smaller.
Halve(name, table, sensitive, s) ==
  LET mid == (s.top + s.bot) \div 2
      Compared(cmp) == IF cmp > 0 THEN [s EXCEPT !.top = mid + 1]
                       ELSE IF cmp < 0 THEN [s EXCEPT !.bot = mid - 1]
                       ELSE [s EXCEPT !.found = mid]
  IN  IF s.found >= 0 \/ s.top > s.bot THEN s
      ELSE Compared(MemptrCmp(name, table[mid + 1].name, sensitive))
Search(name, table, sensitive) ==
  LET after[n \in 0 .. Len(table)] ==
        IF n = 0 THEN [top |-> 0, bot |-> Len(table) - 1, found |-> -1]
        ELSE Halve(name, table, sensitive, after[n - 1])
  IN  after

\* map_str_to_int: the index (from 0) of a name, or -1.
MapStrToInt(name, table, sensitive) == Search(name, table, sensitive)[Len(table)].found

\* map_int_to_str: the first index of a number, or -1.
MapIntToStr(id, table) ==
  LET hits == { i \in 1 .. Len(table) : table[i].id = id }
  IN  IF hits = {} THEN -1 ELSE (CHOOSE i \in hits : \A j \in hits : i <= j) - 1

----------------------------------------------------------------------------
\* The tables are in order; two names are the same when neither comes first.
InOrder(table, sensitive) ==
  \A i, j \in 1 .. Len(table) : i < j => MemptrCmp(table[i].name, table[j].name, sensitive) < 0
SameName(m, s, sensitive) == MemptrCmp(m, s, sensitive) = 0 /\ MemptrCmp(s, m, sensitive) = 0

\* In a table in order, map_str_to_int finds the name if it is there and nothing
\* else, with and without regard to case, and map_int_to_str goes back to a name
\* with the same number.
NameFound(name, table, sensitive) ==
  LET i == MapStrToInt(name, table, sensitive)
      j == MapIntToStr(table[i + 1].id, table)
  IN  IF \E k \in 1 .. Len(table) : SameName(name, table[k].name, sensitive)
      THEN /\ i \in 0 .. Len(table) - 1 /\ SameName(name, table[i + 1].name, sensitive)
           /\ j \in 0 .. i /\ table[j + 1].id = table[i + 1].id
      ELSE i = -1
=============================================================================
