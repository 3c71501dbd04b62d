---------------------------- MODULE HttpScanner ----------------------------
(***************************************************************************)
(* The scanner of httpparser.c: tokens, and the formats of match() and     *)
(* matchstr().                                                             *)
(*                                                                         *)
(* A text is a sequence of symbols.  A symbol stands for a character or    *)
(* for a few characters of one class (the two halves of a name, a status   *)
(* code), so that a message can break inside a name.  Letter case is       *)
(* abstracted away.  Positions count from 0, as in the code: the symbol at *)
(* the cursor is buf[cursor + 1].                                          *)
(***************************************************************************)
EXTENDS Integers, Sequences
LOCAL INSTANCE SequencesExt

CONSTANT IntBits      \* the width of an int (32 in the code)
\* The second conjunct follows from the first; the provers know no powers.
ASSUME IntBitsAssumption == IntBits \in Nat \ {0} /\ 2^IntBits \in Nat \ {0}

Digits == [ s \in {"0", "1", "2", "4", "a"} |->
              CASE s = "0" -> 0 [] s = "1" -> 1 [] s = "2" -> 2 [] s = "4" -> 4 [] s = "a" -> 10 ]

\* The character classes that scanner_get_token tells apart.
Class(c) ==
  CASE c \in {"SP", "HT"}                      -> "ws"
    [] c = "CR"                                -> "cr"
    [] c = "LF"                                -> "lf"
    [] c = "QUOTE"                             -> "quote"
    [] c \in {":", "/", ";", ",", "BACKSLASH"} -> "separator"
    [] c = "CTRL"                              -> "control"
    [] c = "HIGH"                              -> "high"     \* outside ASCII
    [] OTHER                                   -> "identifier"

IsQdtextChar(c) == Class(c) # "control"

(***************************************************************************)
(* Results.  Every operator of the scanner yields its status and the       *)
(* cursor; what it matched, if anything, is in val.                        *)
(***************************************************************************)
Result(status, cursor, val) == [status |-> status, cursor |-> cursor, val |-> val]
Token(cursor, type, length) ==
  [status |-> "OK", cursor |-> cursor + length, type |-> type, length |-> length]
NoToken(status, cursor) ==
  [status |-> status, cursor |-> cursor, type |-> "none", length |-> 0]

\* The first position at or after i where P no longer holds, at most n.
RunEnd(buf, i, P(_)) ==
  CHOOSE j \in i .. Len(buf) :
    /\ \A k \in i .. j - 1 : P(buf[k + 1])
    /\ j = Len(buf) \/ ~P(buf[j + 1])

\* The end of a quoted string whose text starts at i: its status, and the
\* position after the closing quote.
QuotedFrom(buf) ==
  LET from[i \in 0 .. Len(buf) + 1] ==
        IF i >= Len(buf) THEN Result("INCOMPLETE", i, <<>>)
        ELSE IF buf[i + 1] = "QUOTE" THEN Result("OK", i + 1, <<>>)
        ELSE IF buf[i + 1] = "BACKSLASH" THEN from[i + 2]
        ELSE IF IsQdtextChar(buf[i + 1]) THEN from[i + 1]
        ELSE Result("FAILURE", i, <<>>)
  IN  from
QuotedEnd(buf, i) == QuotedFrom(buf)[i]

\* scanner_get_token.  all is scanner->entire_msg_loaded.
\* A run of one class ends at end; more of it may follow what is loaded.
RunToken(cursor, type, end, n, all) ==
  IF ~all /\ end = n THEN NoToken("INCOMPLETE", cursor) ELSE Token(cursor, type, end - cursor)
CrToken(buf, cursor) ==
  IF cursor + 1 = Len(buf) THEN NoToken("INCOMPLETE", cursor)
  ELSE IF buf[cursor + 2] = "LF" THEN Token(cursor, "crlf", 2)
                                 ELSE Token(cursor, "control", 1)
QuotedToken(cursor, end) ==
  IF end.status = "OK" THEN Token(cursor, "quoted", end.cursor - cursor)
                       ELSE NoToken(end.status, cursor)
TokenOf(buf, cursor, all, c) ==
  CASE c \in {"identifier", "ws"} ->
         RunToken(cursor, c, RunEnd(buf, cursor, LAMBDA s : Class(s) = c), Len(buf), all)
    [] c = "cr"    -> CrToken(buf, cursor)
    [] c = "lf"    -> Token(cursor, "crlf", 1)
    [] c = "quote" -> QuotedToken(cursor, QuotedEnd(buf, cursor + 1))
    [] c \in {"separator", "control"} -> Token(cursor, c, 1)
    [] c = "high"  -> NoToken("FAILURE", cursor)
GetToken(buf, cursor, all) ==
  IF cursor = Len(buf) THEN NoToken("INCOMPLETE", cursor)
  ELSE TokenOf(buf, cursor, all, Class(buf[cursor + 1]))

----------------------------------------------------------------------------
\* The first token at or after cursor that is not OK or has a type of Stop.
UntilFrom(buf, all, Stop) ==
  LET from[c \in 0 .. Len(buf)] ==
        LET Go(t) == IF t.status = "OK" /\ t.type \notin Stop THEN from[t.cursor]
                     ELSE Result(t.status, c, <<>>)
        IN  Go(GetToken(buf, c, all))
  IN  from
UntilToken(buf, cursor, all, Stop) == UntilFrom(buf, all, Stop)[cursor]

\* skip_blank_lines.  What was skipped stays skipped on INCOMPLETE.
SkipBlankLines(buf, cursor, all) ==
  UntilToken(buf, cursor, all, {"identifier", "quoted", "separator", "control"})

\* skip_lws: runs of white space, each perhaps after a line end.
AfterLineEnd(buf, all, t) ==
  IF t.status = "OK" /\ t.type = "crlf" THEN GetToken(buf, t.cursor, all) ELSE t
LwsFrom(buf, all) ==
  LET from[c \in 0 .. Len(buf)] ==
        LET Go(t) == IF t.status = "OK" /\ t.type = "ws" THEN from[t.cursor]
                     ELSE Result(IF t.status = "INCOMPLETE" /\ all THEN "OK" ELSE t.status,
                                 c, <<>>)
        IN  Go(AfterLineEnd(buf, all, GetToken(buf, c, all)))
  IN  from
SkipLws(buf, cursor, all) == LwsFrom(buf, all)[cursor]

\* match_non_ws_string (%S).
MatchNonWsString(buf, cursor, all) ==
  LET To(e) == IF e.status = "OK" \/ (e.status = "INCOMPLETE" /\ all)
               THEN Result(IF e.cursor = cursor THEN "NO_MATCH" ELSE "OK",
                           e.cursor, SubSeq(buf, cursor + 1, e.cursor))
               ELSE Result(e.status, cursor, <<>>)
  IN  To(UntilToken(buf, cursor, all, {"ws", "crlf"}))

\* read_until_crlf (%L).
ReadUntilCrlf(buf, cursor, all) ==
  LET To(e) == Result(e.status, e.cursor, SubSeq(buf, cursor + 1, e.cursor))
  IN  To(UntilToken(buf, cursor, all, {"crlf"}))

\* A text without the white space and line ends at its end.
TrimRight(s) ==
  LET keep == { i \in 1 .. Len(s) : Class(s[i]) \notin {"ws", "cr", "lf"} }
  IN  SubSeq(s, 1, CHOOSE n \in 0 .. Len(s) :
                     /\ keep \subseteq 1 .. n
                     /\ n = 0 \/ n \in keep)

\* Where a raw value ends: at the first line end that no white space follows.
\* A token has to follow the line end before this is known.
AfterNextToken(buf, cursor, all) == GetToken(buf, GetToken(buf, cursor, all).cursor, all)
RawFrom(buf, all) ==
  LET from[c \in 0 .. Len(buf)] ==
        LET Go(end, next) ==
              IF end.status # "OK" THEN end
              ELSE IF next.status # "OK" THEN Result(next.status, end.cursor, <<>>)
              ELSE IF next.type = "ws" THEN from[next.cursor]
              ELSE end
            To(end) == Go(end, AfterNextToken(buf, end.cursor, all))
        IN  To(UntilToken(buf, c, all, {"crlf"}))
  IN  from
RawValueEnd(buf, cursor, all) == RawFrom(buf, all)[cursor]

\* match_raw_value (%R).
MatchRawValue(buf, cursor, all) ==
  LET To(e) == IF e.status = "OK"
               THEN Result("OK", e.cursor, TrimRight(SubSeq(buf, cursor + 1, e.cursor)))
               ELSE Result(e.status, cursor, <<>>)
  IN  To(RawValueEnd(buf, cursor, all))

\* strtol on a whole text: -1 unless all of it is digits of the base; and the
\* conversion of the number to an int.
NumberUpTo(s, base) ==
  LET upto[k \in 0 .. Len(s)] == IF k = 0 THEN 0 ELSE upto[k - 1] * base + Digits[s[k]]
  IN  upto
ToLong(s, base) ==
  IF s # <<>> /\ \A i \in 1 .. Len(s) : s[i] \in DOMAIN Digits /\ Digits[s[i]] < base
  THEN NumberUpTo(s, base)[Len(s)]
  ELSE -1
ToInt(n) == n % 2^IntBits

\* match_int (%d and %x).
MatchInt(buf, cursor, all, base) ==
  LET Number(t, num) ==
        IF t.status # "OK" THEN Result(t.status, cursor, <<>>)
        ELSE IF t.type # "identifier" \/ num < 0 THEN Result("NO_MATCH", cursor, <<>>)
        ELSE Result("OK", t.cursor, ToInt(num))
      Of(t) == Number(t, ToLong(SubSeq(buf, cursor + 1, t.cursor), base))
  IN  Of(GetToken(buf, cursor, all))

\* match_char.
MatchChar(buf, cursor, c) ==
  IF cursor >= Len(buf) THEN Result("INCOMPLETE", cursor, <<>>)
  ELSE Result(IF buf[cursor + 1] = c THEN "OK" ELSE "NO_MATCH", cursor + 1, <<>>)

\* A format that asks for one token of a type (%s, %c, %q and a tab).
MatchType(buf, cursor, all, type) ==
  LET Of(t) == Result(IF t.status = "OK" /\ t.type # type THEN "NO_MATCH" ELSE t.status,
                      t.cursor, SubSeq(buf, cursor + 1, t.cursor))
  IN  Of(GetToken(buf, cursor, all))

\* Optional white space (%w).
MatchOptionalWs(buf, cursor, all) ==
  LET Of(t) == Result(t.status, IF t.type = "ws" THEN t.cursor ELSE cursor, <<>>)
  IN  Of(GetToken(buf, cursor, all))

\* One directive of a format.
TypeFor(d) == CASE d = "%s" -> "identifier" [] d = "%c" -> "crlf" [] d = "\t" -> "ws"
MatchOne(buf, cursor, all, d) ==
  CASE d = "%R"  -> MatchRawValue(buf, cursor, all)
    [] d \in {"%s", "%c", "\t"} -> MatchType(buf, cursor, all, TypeFor(d))
    [] d \in {"%d", "%x"}       -> MatchInt(buf, cursor, all, IF d = "%d" THEN 10 ELSE 16)
    [] d = "%S"  -> MatchNonWsString(buf, cursor, all)
    [] d = "%L"  -> ReadUntilCrlf(buf, cursor, all)
    [] d = "%w"  -> MatchOptionalWs(buf, cursor, all)
    [] d = "LWS" -> SkipLws(buf, cursor, all)
    [] d = "%0"  -> Result(IF cursor = Len(buf) THEN "OK" ELSE "NO_MATCH", cursor, <<>>)
    [] OTHER     -> MatchChar(buf, cursor, d)

Capturing == {"%R", "%s", "%d", "%x", "%S", "%L"}

\* vfmatch: the directives in order while they match.  val collects what the
\* capturing ones matched; on failure the cursor is restored.
MatchNext(buf, all, d, r) ==
  LET With(m) == IF m.status # "OK" THEN m
                 ELSE Result("OK", m.cursor, IF d \in Capturing THEN Append(r.val, m.val) ELSE r.val)
  IN  IF r.status = "OK" THEN With(MatchOne(buf, r.cursor, all, d)) ELSE r
MatchAfter(buf, cursor, all, fmt) ==
  LET after[n \in 0 .. Len(fmt)] ==
        IF n = 0 THEN Result("OK", cursor, <<>>) ELSE MatchNext(buf, all, fmt[n], after[n - 1])
  IN  after
MatchFrom(buf, cursor, all, fmt) ==
  LET Restored(r) == IF r.status = "OK" THEN r ELSE Result(r.status, cursor, <<>>)
  IN  Restored(MatchAfter(buf, cursor, all, fmt)[Len(fmt)])

Match(buf, cursor, fmt) == MatchFrom(buf, cursor, FALSE, fmt)

\* matchstr: a whole text at once.
MatchStr(str, fmt) == MatchFrom(str, 0, TRUE, fmt)

\* raw_to_int and raw_find_str.
RawToInt(raw, base) == LET n == ToLong(raw, base) IN IF n < 0 THEN -1 ELSE n
RawFindStr(raw, str) ==
  \E i \in 1 .. Len(raw) - Len(str) + 1 : SubSeq(raw, i, i + Len(str) - 1) = str
=============================================================================
