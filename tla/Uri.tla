-------------------------------- MODULE Uri ---------------------------------
(***************************************************************************)
(* uri.c: parsing a URI, resolving a relative one, removing dots and       *)
(* escapes.  A string is a sequence of one-letter strings; only the        *)
(* letters that the instances use are listed in the character classes.     *)
(* What getaddrinfo and inet_pton answer is a parameter, net, with         *)
(*   addrs : the families getaddrinfo finds, none when it fails            *)
(*   pton  : whether inet_pton takes the address.                          *)
(***************************************************************************)
EXTENDS Integers, Sequences, SequencesExt

Digit  == {"0", "1", "2", "5", "6", "8"}
Alpha  == {"a", "b", "c", "h", "t", "p", "x"}
XDigit == Digit \cup {"a", "b", "c"}
Alnum  == Digit \cup Alpha
Mark       == {"-", "_", ".", "!", "~", "*", "'", "(", ")"}             \* MARK
Reserved   == {";", "/", "?", ":", "@", "&", "=", "+", "$", ",", "{", "}"} \* RESERVED
Unreserved == Alnum \cup Mark

At(s, i)   == IF i \in 1 .. Len(s) THEN s[i] ELSE "NUL"
From(s, i) == SubSeq(s, i, Len(s))
\* is_escaped.
IsEscaped(s, i) == At(s, i) = "%" /\ At(s, i + 1) \in XDigit /\ At(s, i + 2) \in XDigit

\* The first position from i on where P does not hold.
RECURSIVE Skip(_, _, _)
Skip(P(_, _), s, i) == IF i <= Len(s) /\ P(s, i) THEN Skip(P, s, i + 1) ELSE i

\* parse_uric: the longest run of uric characters from i on.
UricChar(s, i) == s[i] \in Unreserved \cup Reserved \/ (i + 2 <= Len(s) /\ IsEscaped(s, i))
ParseUric(s, i) == SubSeq(s, i, Skip(UricChar, s, i) - 1)

\* parse_scheme: "" unless a colon ends it.
SchemeChar(s, i) == s[i] \in Alnum \cup {"+", "-", "."}
ParseScheme(s) ==
  LET e == Skip(SchemeChar, s, 2)
  IN  IF At(s, 1) \in Alpha /\ At(s, e) = ":" THEN SubSeq(s, 1, e - 1) ELSE <<>>

(***************************************************************************)
(* parse_hostport.                                                         *)
(***************************************************************************)
InvalidUrl == [size |-> -1, port |-> 0]

NameChar(s, i)  == s[i] \in Alnum \cup {".", "-"}
NotBracket(s, i) == s[i] # "]"
DigitChar(s, i) == s[i] \in Digit

DigitVal == [d \in Digit |-> CASE d = "0" -> 0 [] d = "1" -> 1 [] d = "2" -> 2
                               [] d = "5" -> 5 [] d = "6" -> 6 [] OTHER -> 8]
\* (unsigned short)atoi
Port(ds) == FoldLeft(LAMBDA n, d : 10 * n + DigitVal[d], 0, ds) % 65536

\* From where the port may start, at i after its colon, or none.
ParsePort(s, i, hasPort, ok) ==
  LET e    == Skip(DigitChar, s, i)
      port == IF hasPort THEN Port(SubSeq(s, i, e - 1)) ELSE 80
  IN  IF port = 0 \/ ~ok THEN InvalidUrl
      ELSE [size |-> (IF hasPort THEN e ELSE i) - 1, port |-> port]

\* A host name: the loop over the addresses goes one on before it ends, so an
\* address that is the last of the list counts as none.
Resolved(addrs) ==
  \E k \in 1 .. Len(addrs) - 1 : /\ addrs[k] \in {"inet", "inet6"}
                                 /\ \A j \in 1 .. k - 1 : addrs[j] = "other"

\* The address is IPv4 when a digit follows its last dot.
IsInet4(name) == \E d \in 1 .. Len(name) : /\ name[d] = "." /\ At(name, d + 1) \in Digit
                                           /\ \A e \in d + 1 .. Len(name) : name[e] # "."
ParseHostport(s, net) ==
  IF At(s, 1) = "["
  THEN LET c == Skip(NotBracket, s, 2)
           hasPort == At(s, c + 1) = ":"
       IN  IF c > Len(s) THEN InvalidUrl
           ELSE ParsePort(s, IF hasPort THEN c + 2 ELSE c + 1, hasPort, net.pton)
  ELSE LET c == Skip(NameChar, s, 1)
           name == SubSeq(s, 1, c - 1)
           hasPort == At(s, c) = ":"
       IN  IF ~IsInet4(name) /\ ~Resolved(net.addrs) THEN InvalidUrl
           ELSE ParsePort(s, IF hasPort THEN c + 1 ELSE c, hasPort, IsInet4(name) => net.pton)

\* parse_uri.
NoUri == [ok |-> FALSE]
UriParts(s, scheme, hostport, port, p, path) ==
  [ ok       |-> TRUE,
    type     |-> IF scheme = <<>> THEN "RELATIVE" ELSE "ABSOLUTE",
    pathType |-> IF At(path, 1) = "/" THEN "ABS_PATH"
                 ELSE IF scheme = <<>> THEN "REL_PATH" ELSE "OPAQUE_PART",
    scheme   |-> scheme,
    hostport |-> hostport,
    port     |-> port,
    path     |-> path,
    fragment |-> IF At(s, p + Len(path)) = "#" THEN ParseUric(s, p + Len(path) + 1) ELSE <<>> ]
AfterHost(s, scheme, h, host) ==
  IF host.size < 0 THEN NoUri
  ELSE UriParts(s, scheme, SubSeq(s, h, h + host.size - 1), host.port,
                h + host.size, ParseUric(s, h + host.size))
AfterScheme(s, net, scheme) ==
  LET h == IF scheme = <<>> THEN 1 ELSE Len(scheme) + 2    \* after the colon
  IN  IF At(s, h) = "/" /\ At(s, h + 1) = "/"
      THEN AfterHost(s, scheme, h + 2, ParseHostport(From(s, h + 2), net))
      ELSE UriParts(s, scheme, <<>>, 0, h, ParseUric(s, h))
ParseUri(s, net) == AfterScheme(s, net, ParseScheme(s))

DotAt(s, i) == s[i] = "." /\ (i = 1 \/ s[i - 1] = "/")
EndsAt(s, i) == i > Len(s) \/ s[i] = "/"

Dots(ok, out, fits) == [ok |-> ok, out |-> out, fits |-> fits]
AtLeast(n, k) == IF n < k THEN k ELSE n
RECURSIVE DotsLoop(_, _, _, _, _)
DotsLoop(s, i, out, segs, peak) ==
  IF i > Len(s) THEN Dots(TRUE, out, peak <= Len(s))
  ELSE IF s[i] \in {"?", "#"} THEN Dots(TRUE, out \o From(s, i), peak <= Len(s))
  ELSE IF DotAt(s, i) /\ EndsAt(s, i + 1) THEN DotsLoop(s, i + 2, out, segs, peak)
  ELSE IF DotAt(s, i) /\ At(s, i + 1) = "." /\ EndsAt(s, i + 2)
  THEN IF Len(segs) > 1
       THEN DotsLoop(s, i + 3, SubSeq(out, 1, segs[Len(segs) - 1]), Front(segs), peak)
       ELSE Dots(FALSE, out, peak <= Len(s))
  ELSE LET more == IF s[i] = "/" THEN Append(segs, Len(out) + 1) ELSE segs
       IN  DotsLoop(s, i + 1, Append(out, s[i]), more, AtLeast(Len(more), peak))
RemoveDots(s, mem) == IF mem THEN DotsLoop(s, 1, <<>>, <<>>, 1) ELSE Dots(FALSE, s, TRUE)

(***************************************************************************)
(* replace_escaped and remove_escaped_chars, in place.                     *)
(***************************************************************************)
Unhex(a, b) == CASE a = "2" /\ b = "5" -> "%" [] a = "5" /\ b = "2" -> "R"
                 [] a = "5" /\ b = "5" -> "U" [] OTHER -> "quote"
ReplaceEscaped(s, i) ==
  IF IsEscaped(s, i) THEN SubSeq(s, 1, i - 1) \o <<Unhex(s[i + 1], s[i + 2])>> \o From(s, i + 3)
                     ELSE s
RECURSIVE EscapesLoop(_, _)
EscapesLoop(s, i) == IF i > Len(s) THEN s ELSE EscapesLoop(ReplaceEscaped(s, i), i + 1)

RemoveEscapedChars(s) == EscapesLoop(s, 1)

\* parse_uri_and_unescape: each part on its own, within its own length.
ParseUriAndUnescape(s, net) ==
  LET Of(u) == IF ~u.ok THEN u
               ELSE [u EXCEPT !.path = RemoveEscapedChars(@), !.fragment = RemoveEscapedChars(@)]
  IN  Of(ParseUri(s, net))

\* http_FixUrl and http_FixStrUrl of httpreadwrite.c: a URL that a request can
\* be sent to.
FixUrl(u) ==
  IF u.scheme # <<"h", "t", "t", "p">> \/ u.hostport = <<>> THEN NoUri
  ELSE [u EXCEPT !.path = IF @ = <<>> THEN <<"/">> ELSE @]
FixStrUrl(s, net) == LET Of(u) == IF u.ok THEN FixUrl(u) ELSE NoUri IN Of(ParseUri(s, net))

(***************************************************************************)
(* resolve_rel_url, for a base and a relative URL that are both given:     *)
(* out is the string, or Null, used the bytes of it that were written to   *)
(* on the way, which must fit into what was allocated, and fits what       *)
(* remove_dots says.  mallocs is how many of the two allocations succeed.  *)
(***************************************************************************)
NullIf(fits) == [ok |-> FALSE, out |-> <<>>, used |-> 0, fits |-> fits]
Null         == NullIf(TRUE)
Url(s, used) == [ok |-> TRUE, out |-> s, used |-> used, fits |-> TRUE]
Allocated(base, rel) == Len(base) + Len(rel) + 2

LastSlash(p) == IF \E i \in 1 .. Len(p) : p[i] = "/"
                THEN CHOOSE i \in 1 .. Len(p) : p[i] = "/" /\ \A j \in i + 1 .. Len(p) : p[j] # "/"
                ELSE 0
NotQuery(s, i) == s[i] # "?"

\* The relative URL is copied over the base path from its last slash on, without
\* a terminator: what the base path has after it stays.
Overwrite(p, k, rel) == SubSeq(p, 1, k) \o rel \o From(p, k + Len(rel) + 1)

Merged(prefix, o, r) ==
  IF r.ok THEN [Url(prefix \o r.out, Len(prefix) + Len(o)) EXCEPT !.fits = r.fits]
  ELSE NullIf(r.fits)
MergePath(prefix, path, rel, mallocs) ==
  LET Over(p) == Overwrite(p, LastSlash(p), rel)
      With(o) == Merged(prefix, o, RemoveDots(o, mallocs > 1))
  IN  With(Over(SubSeq(path, 1, Skip(NotQuery, path, 1) - 1)))

Resolve(base, rel, b, r, mallocs) ==
  LET schemed  == b.scheme \o <<":">>
      prefix   == IF b.hostport = <<>> THEN schemed ELSE schemed \o <<"/", "/">> \o b.hostport
      basePath == IF b.path = <<>> THEN <<"/">> ELSE b.path
  IN  CASE mallocs = 0 \/ ~r.ok       -> Null
        [] mallocs > 0 /\ r.ok /\ r.type = "ABSOLUTE" -> Url(rel, Len(rel))
        [] OTHER ->
             IF ~b.ok \/ b.type # "ABSOLUTE" THEN Null
             ELSE IF rel = <<>> THEN Url(base, Len(base))
             ELSE IF r.hostport # <<>> THEN Url(schemed \o rel, Len(schemed \o rel))
             ELSE IF r.pathType = "ABS_PATH" THEN Url(prefix \o rel, Len(prefix \o rel))
             ELSE MergePath(prefix, basePath, rel, mallocs)
ResolveRelUrl(base, rel, net, mallocs) ==
  Resolve(base, rel, ParseUri(base, net), ParseUri(rel, net), mallocs)
=============================================================================
