------------------------------- MODULE MCData -------------------------------
(***************************************************************************)
(* The data structures and the pure functions the library is built on,     *)
(* side by side: a behaviour exercises the linked list, or the buffer, or  *)
(* picks inputs for the functions of uri.c and strintmap.c and compares    *)
(* them with what they should compute.                                     *)
(***************************************************************************)
EXTENDS Structures, Uri, StrIntMap

CONSTANTS MaxPath    \* length of the paths that remove_dots is tried on

VARIABLES part,      \* which of them this behaviour is about
          input      \* the input picked, [of, ...]
vars == <<listVars, bufVars, part, input>>

NoInput == [of |-> "nothing"]

MCTexts == { <<>>, <<"a">>, <<"b", "c">> }

Strings(S, n) == UNION { [1 .. k -> S] : k \in 0 .. n }
Joined(ss)    == FoldLeft(LAMBDA x, y : x \o y, <<>>, ss)

\* Paths for remove_dots, and strings to unescape.  No path is empty.
Paths    == Strings({"/", ".", "a", "?"}, MaxPath) \ {<<>>}
FewPaths == { <<"/">>, <<"/", "a", "/", ".", ".">> }
Escapes  == Strings({"%", "2", "5"}, MaxPath)

\* URIs put together from pieces.
Schemes   == { <<>>, <<"h", "t", "t", "p">>, <<"a", "+", "1">> }
Hosts     == { <<>>, <<"h", ".", "x">>, <<"1", ".", "2">>, <<"[", "2", ":", ":", "5", "]">> }
Ports     == { <<>>, <<"8", "0">>, <<"6", "5", "5", "6", "1">>, <<"0">>, <<"5", "x">> }
UriPaths  == { <<>>, <<"/">>, <<"/", "a", "?", "b">>, <<"/", "%", "2", "5">> }
Fragments == { <<>>, <<"b">> }
Networks  == { [addrs |-> a, pton |-> p] :
                 a \in {<<>>, <<"inet">>, <<"inet", "inet6">>, <<"other", "inet">>,
                        <<"other", "inet6", "other">>, <<"other", "other">>},
                 p \in BOOLEAN }
Pieces == [scheme : Schemes, host : Hosts, port : Ports, path : UriPaths, fragment : Fragments]
Assemble(u) ==
  Joined(<< IF u.scheme = <<>> THEN <<>> ELSE u.scheme \o <<":">>,
            IF u.host = <<>> THEN <<>> ELSE <<"/", "/">> \o u.host,
            IF u.host = <<>> \/ u.port = <<>> THEN <<>> ELSE <<":">> \o u.port,
            u.path,
            IF u.fragment = <<>> THEN <<>> ELSE <<"#">> \o u.fragment >>)

\* Bases and relative URLs.
GoodNet == [addrs |-> <<"inet", "inet">>, pton |-> TRUE]
Bases == { <<"h", ":", "/", "/", "h">> \o p :
             p \in { <<>>, <<"/">>, <<"/", "a">>, <<"/", "a", "/", "b", "c">>, <<"/", "a", "/", "?", "/">> } }
Rels  == Strings({"/", ".", "b"}, 4)

\* Sorted tables of names.
Codes == {1, 2, 101}
Names == { s \in Strings(Codes, 2) : s # <<>> }
Numbered(t) == [i \in 1 .. Len(t) |-> [name |-> t[i], id |-> i % 2]]
SortedTables(sensitive) ==
  { t \in { Numbered(t) : t \in UNION { [1 .. n -> Names] : n \in 0 .. 3 } } :
      InOrder(t, sensitive) }

Init == /\ ListInit /\ BufferInit /\ input = NoInput
        /\ part \in {"list", "buffer", "functions"}

ListPart   == part = "list" /\ ListUsed /\ UNCHANGED <<part, input>>
BufferPart == part = "buffer" /\ BufferUsed /\ UNCHANGED <<part, input>>
Pick(i)    == part = "functions" /\ input = NoInput /\ input' = i
              /\ UNCHANGED <<listVars, bufVars, part>>
PickDots     == \/ \E s \in Paths : Pick([of |-> "dots", s |-> s, mem |-> TRUE])
                \/ \E s \in FewPaths : Pick([of |-> "dots", s |-> s, mem |-> FALSE])
PickEscapes  == \E s \in Escapes : Pick([of |-> "escapes", s |-> s])
PickUri      == \E u \in Pieces, n \in Networks : Pick([of |-> "uri", u |-> u, net |-> n])
PickRelative == \E b \in Bases, r \in Rels : \E m \in IF Len(r) <= 1 THEN 0 .. 2 ELSE {2} :
                  Pick([of |-> "resolve", b |-> b, r |-> r, mallocs |-> m])
PickName     == \E c \in BOOLEAN : \E t \in SortedTables(c), n \in Names :
                  Pick([of |-> "table", t |-> t, n |-> n, c |-> c])

Next == \/ ListPart \/ BufferPart
        \/ PickDots \/ PickEscapes \/ PickUri \/ PickRelative \/ PickName
Spec == Init /\ [][Next]_vars

----------------------------------------------------------------------------
\* What remove_dots should do, segment by segment: "." goes, ".." takes the
\* segment before it along, and fails where there is none but the root.  The last
\* segment before a query is not looked at.
Segments(p) == LET cuts == SelectSeq([i \in 1 .. Len(p) |-> i], LAMBDA i : p[i] = "/")
                   lo(k) == IF k = 1 THEN 1 ELSE cuts[k - 1] + 1
                   hi(k) == IF k > Len(cuts) THEN Len(p) ELSE cuts[k] - 1
               IN  [k \in 1 .. Len(cuts) + 1 |-> SubSeq(p, lo(k), hi(k))]
WithoutDots(s) ==
  LET q      == Skip(NotQuery, s, 1)
      segs   == Segments(SubSeq(s, 1, q - 1))
      last   == Len(segs)
      step(x, k) ==
        CASE ~x.ok -> x
          [] k = last /\ q <= Len(s)        -> [x EXCEPT !.tail = segs[k]]
          [] segs[k] = <<".">>              -> x
          [] segs[k] = <<".", ".">>         -> IF Len(x.kept) > 1
                                               THEN [x EXCEPT !.kept = Front(@)]
                                               ELSE [x EXCEPT !.ok = FALSE]
          [] k = last                       -> [x EXCEPT !.tail = segs[k]]
          [] OTHER                          -> [x EXCEPT !.kept = Append(@, segs[k] \o <<"/">>)]
      r == FoldLeft(step, [ok |-> TRUE, kept |-> <<>>, tail |-> <<>>],
                    [k \in 1 .. last |-> k])
  IN  [ok |-> r.ok, out |-> Joined(r.kept) \o r.tail \o From(s, q)]

\* remove_dots, which copies within one buffer and remembers where segments
\* start, removes what resolving the segments one by one removes, and fails for
\* the same paths or without memory; and the places it remembers fit into what
\* it has allocated for them.
DotsRemoved ==
  LET Agrees(r, e) == r.fits /\ r.ok = (input.mem /\ e.ok) /\ (r.ok => r.out = e.out)
  IN  input.of = "dots" => Agrees(RemoveDots(input.s, input.mem), WithoutDots(input.s))

RECURSIVE Unescaped(_)
Unescaped(s) ==
  IF s = <<>> THEN <<>>
  ELSE IF IsEscaped(s, 1) THEN <<Unhex(s[2], s[3])>> \o Unescaped(From(s, 4))
  ELSE <<s[1]>> \o Unescaped(From(s, 2))
\* remove_escaped_chars decodes every escape of the string once, and what it has
\* decoded is never decoded again, although it shortens the string as it goes;
\* parse_uri_and_unescape does so with the path and the fragment of a URI.
EscapesRemovedOnce ==
  LET Agrees(r, e) == /\ e.ok = r.ok
                      /\ r.ok => e.path = Unescaped(r.path) /\ e.fragment = Unescaped(r.fragment)
  IN  /\ input.of = "escapes" => RemoveEscapedChars(input.s) = Unescaped(input.s)
      /\ input.of = "uri" => Agrees(ParseUri(Assemble(input.u), input.net),
                                    ParseUriAndUnescape(Assemble(input.u), input.net))

\* Whether the host of a URI is to be accepted: it is an address and inet_pton
\* takes it, or a name for which the resolver finds an IPv4 or IPv6 address, and
\* its port is not 0.
IsName(u) == u.host # <<>> /\ u.host[1] \notin {"[", "1"}
HostAccepted(u, net) ==
  \/ u.host = <<>>
  \/ /\ u.port = <<>> \/ Port(SubSeq(u.port, 1, Skip(DigitChar, u.port, 1) - 1)) # 0
     /\ IF IsName(u) THEN \E k \in 1 .. Len(net.addrs) : net.addrs[k] # "other"
        ELSE net.pton

\* The case that parse_hostport gets wrong, where it refuses a name for which it
\* "Didn't find an AF_INET or AF_INET6 address.": the first address that it can
\* use is the last one of the resolver's list.
OnlyTheLast(u, net) ==
  /\ IsName(u) /\ net.addrs # <<>> /\ Last(net.addrs) # "other"
  /\ \A k \in 1 .. Len(net.addrs) - 1 : net.addrs[k] = "other"

\* A URI is taken apart into the pieces it was put together from, and refused
\* exactly when its host is not to be accepted, but for a name with a usable
\* address at the end of the list only.  http_FixStrUrl lets those through that
\* name a host for http, with a path that is never empty.
UriTakenApart ==
  LET \* rest is what follows the digits of the port
      Agrees(u, rest, r, f) ==
        /\ r.ok = HostAccepted(u, input.net)
        /\ r.ok =>
             /\ r.scheme = u.scheme /\ r.path = rest \o u.path /\ r.fragment = u.fragment
             /\ r.hostport = IF u.host = <<>> THEN <<>>
                             ELSE IF u.port = <<>> THEN u.host
                             ELSE u.host \o <<":">> \o SubSeq(u.port, 1, Len(u.port) - Len(rest))
             /\ r.type = IF u.scheme = <<>> THEN "RELATIVE" ELSE "ABSOLUTE"
        /\ f.ok = (r.ok /\ Len(u.scheme) = 4 /\ u.host # <<>>)
        /\ f.ok => f.path = IF rest \o u.path = <<>> THEN <<"/">> ELSE rest \o u.path
      Parsed(u, s) == Agrees(u, IF u.host = <<>> THEN <<>> ELSE From(u.port, Skip(DigitChar, u.port, 1)),
                             ParseUri(s, input.net), FixStrUrl(s, input.net))
  IN  input.of = "uri" /\ ~OnlyTheLast(input.u, input.net) => Parsed(input.u, Assemble(input.u))

Resolution == ResolveRelUrl(input.b, input.r, GoodNet, input.mallocs)

\* A relative path is resolved as RFC 2396 says: it replaces what follows the
\* last slash of the base's path, and dots are removed; ".." too, of which uri.h
\* says "The resolution of '..' is NOT implemented".  NULL is returned where that
\* fails or memory runs out.  A relative path shorter than what it replaces is
\* left out: the code leaves the end of that behind it.
PathOf(b)  == LET p == SubSeq(b, 6, Skip(NotQuery, b, 1) - 1) IN IF p = <<>> THEN <<"/">> ELSE p
Replaced(b) == From(PathOf(b), LastSlash(PathOf(b)) + 1)
ResolvedRight ==
  LET base == SubSeq(PathOf(input.b), 1, LastSlash(PathOf(input.b)))
      Agrees(merged, result) ==
        /\ result.ok = (merged.ok /\ input.mallocs = 2)
        /\ result.ok => result.out = SubSeq(input.b, 1, 5) \o merged.out
  IN  /\ input.of = "resolve" /\ Len(input.r) >= Len(Replaced(input.b))
      /\ At(input.r, 1) # "/" /\ input.r # <<>>
      => Agrees(WithoutDots(base \o input.r), Resolution)

\* resolve_rel_url stays inside the string it has allocated, with its terminator,
\* and gives remove_dots a path whose segments fit.
ResolveFits ==
  LET Fits(r) == /\ r.used + 1 <= Allocated(input.b, input.r) /\ Len(r.out) <= r.used
                 /\ r.fits
  IN  input.of = "resolve" => Fits(Resolution)

\* The tables are searched right (NameFound).
NamesFound == input.of = "table" => NameFound(input.n, input.t, input.c)

=============================================================================
