---------------------------- MODULE HttpParser ----------------------------
(***************************************************************************)
(* The HTTP parser of httpparser.c.  A parser is a record with the fields  *)
(* of http_parser_t and of its http_message_t; an operation yields a       *)
(* status and the parser it leaves.  Allocation does not fail here.        *)
(***************************************************************************)
EXTENDS HttpScanner
LOCAL INSTANCE SequencesExt

CRLF == <<"CR", "LF">>

\* Http_Method_Table, Http_Header_Names: the names the model uses.
HttpMethodTable ==
  [ GET |-> <<"GE", "T">>, HEAD |-> <<"HE", "AD">>, POST |-> <<"PO", "ST">>,
    NOTIFY |-> <<"NO", "TIFY">>, MSEARCH |-> <<"M-", "SEARCH">>,
    SUBSCRIBE |-> <<"SUB", "SCRIBE">> ]
HttpHeaderNames ==
  [ CONTENT_LENGTH |-> <<"CL">>, TRANSFER_ENCODING |-> <<"TE">>,
    CONTENT_TYPE |-> <<"CT">>, SOAPACTION |-> <<"SA">>, HOST |-> <<"HO", "ST">> ]
Http    == <<"HTT", "P">>
Chunked == <<"chu", "nked">>
BadUrl  == "unresolvable"      \* a host for which parse_uri fails
ParseUriFails(url) == BadUrl \in ToSet(url)

\* parser_init, with what parser_request_init and parser_response_init add.
ParserInit(is_request, request_method) ==
  [ buf |-> <<>>, cursor |-> 0,
    position |-> IF is_request THEN "REQUEST_LINE" ELSE "RESPONSE_LINE",
    ent_position |-> "DETERMINE_READ_METHOD",
    is_request |-> is_request, request_method |-> request_method,
    method |-> "UNKNOWN", url |-> <<>>, version |-> <<0, 0>>,
    status_code |-> 0, headers |-> <<>>,
    content_length |-> 0, chunk_size |-> 0,
    entity_start |-> 0, entity_length |-> 0, amount_discarded |-> 0,
    http_error_code |-> "BAD_REQUEST", valid_ssdp_notify_hack |-> FALSE ]

Outcome(status, p) == [status |-> status, p |-> p]
Failed(p, code)    == Outcome("FAILURE", [p EXCEPT !.http_error_code = code])

\* httpmsg_find_hdr and httpmsg_find_hdr_str: the position of a header, or 0.
FindHdr(p, name) ==
  LET found == { i \in 1 .. Len(p.headers) : p.headers[i].name = name }
  IN  IF found = {} THEN 0 ELSE CHOOSE i \in found : \A j \in found : i <= j
HdrValue(p, name) == p.headers[FindHdr(p, name)].value

\* The body as the parser's user sees it.
Entity(p) ==
  SubSeq(p.buf, p.entity_start + 1, p.entity_start + p.entity_length - p.amount_discarded)

\* membuffer_delete on the message.
Delete(buf, index, num) == SubSeq(buf, 1, index) \o SubSeq(buf, index + num + 1, Len(buf))

----------------------------------------------------------------------------
(***************************************************************************)
(* Start lines.                                                            *)
(***************************************************************************)
\* The conversions %d of sscanf, each after optional white space: the number
\* at i and the position after it, or -1.
ScanInt(line, i) ==
  LET To(b, e) == [value |-> ToLong(SubSeq(line, b + 1, e), 10), next |-> e]
      At(b)    == To(b, RunEnd(line, b, LAMBDA c : c \in DOMAIN Digits))
  IN  At(RunEnd(line, i, LAMBDA c : Class(c) = "ws"))

\* "%d . %d" and "%d . %d %d": the numbers scanned, and where the last ends.
Scanned(line, major, dot, minor, code) ==
  IF major.value < 0 \/ dot = Len(line) \/ line[dot + 1] # "." \/ minor.value < 0
  THEN [nums |-> <<>>, next |-> 0]
  ELSE IF code.value < 0 THEN [nums |-> <<major.value, minor.value>>, next |-> minor.next]
  ELSE [nums |-> <<major.value, minor.value, code.value>>, next |-> code.next]
ScanVersion(line) ==
  LET Third(major, dot, minor) == Scanned(line, major, dot, minor, ScanInt(line, minor.next))
      Second(major, dot) == Third(major, dot, ScanInt(line, dot + 1))
      First(major) == Second(major, RunEnd(line, major.next, LAMBDA c : Class(c) = "ws"))
  IN  First(ScanInt(line, 0))

MethodOf(str) ==
  IF \E m \in DOMAIN HttpMethodTable : HttpMethodTable[m] = str
  THEN CHOOSE m \in DOMAIN HttpMethodTable : HttpMethodTable[m] = str
  ELSE "not found"

\* The HTTP/0.9 form of a request line, "GET url".
SimpleGet(p, method, url) ==
  IF method = "not found" THEN Failed(p, "NOT_IMPLEMENTED")
  ELSE IF method # "GET" THEN Failed(p, "BAD_REQUEST")
  ELSE IF ParseUriFails(url)
  THEN Outcome("FAILURE", [p EXCEPT !.method = "SIMPLEGET", !.url = url])
  ELSE Outcome("SUCCESS", [p EXCEPT !.method = "SIMPLEGET", !.url = url,
                                    !.position = "COMPLETE"])

\* A request line with a version.
FullRequest(p, method, nums) ==
  IF ParseUriFails(p.url) THEN Outcome("FAILURE", p)
  ELSE IF method = "not found" THEN Failed(p, "NOT_IMPLEMENTED")
  ELSE IF Len(nums) < 2 \/ (nums[1] = 1 /\ nums[2] < 1 /\ method = "MSEARCH")
  THEN Failed(p, "HTTP_VERSION_NOT_SUPPORTED")
  ELSE Outcome("OK", [p EXCEPT !.method = method, !.position = "HEADERS",
                               !.version = <<nums[1], nums[2]>>])

\* Blank lines before a start line are skipped.
SkippedBlank(p) ==
  LET At(b) == Outcome(b.status, [p EXCEPT !.cursor = b.cursor])
  IN  At(SkipBlankLines(p.buf, p.cursor, FALSE))

\* The two forms of a request line, given how they match.
FullLine(p, m) ==
  IF m.status # "OK" THEN Outcome(m.status, p)
  ELSE FullRequest([p EXCEPT !.cursor = m.cursor, !.url = m.val[2]],
                   MethodOf(m.val[1]), ScanVersion(m.val[3]).nums)
SimpleLine(p, m) ==
  IF m.status = "OK"
  THEN SimpleGet([p EXCEPT !.cursor = m.cursor], MethodOf(m.val[1]), m.val[2])
  ELSE FullLine(p, Match(p.buf, p.cursor, <<"%s", "\t", "%S", "\t">> \o Http
                                            \o <<"%w", "/", "%w", "%L", "%c">>))
RequestAt(o) ==
  IF o.status # "OK" THEN o
  ELSE SimpleLine(o.p, Match(o.p.buf, o.p.cursor, <<"%s", "\t", "%S", "%w", "%c">>))
ParseRequestline(p) == RequestAt(SkippedBlank(p))

\* A status line: version, code and, after white space, a reason.
ScanStatus(p, line, scan) ==
  LET q == [p EXCEPT !.version = <<scan.nums[1], scan.nums[2]>>, !.status_code = scan.nums[3]]
  IN  IF Len(scan.nums) # 3 THEN Outcome("FAILURE", p)
      ELSE IF scan.next < Len(line) /\ Class(line[scan.next + 1]) = "ws"
      THEN Outcome("OK", [q EXCEPT !.position = "HEADERS"])
      ELSE Outcome("FAILURE", q)
StatusMatched(p, m) ==
  IF m.status # "OK" THEN Outcome(m.status, p)
  ELSE ScanStatus([p EXCEPT !.cursor = m.cursor], m.val[1], ScanVersion(m.val[1]))
ResponseAt(o) ==
  IF o.status # "OK" THEN o
  ELSE StatusMatched(o.p, Match(o.p.buf, o.p.cursor, Http \o <<"%w", "/", "%w", "%L", "%c">>))
ParseResponseline(p) == ResponseAt(SkippedBlank(p))

----------------------------------------------------------------------------
(***************************************************************************)
(* Headers.                                                                *)
(***************************************************************************)
\* A header is added, or its value joined to that of the first one of its
\* name.  An empty value is stored as a NUL.
AddHeader(p, name, value) ==
  LET i == FindHdr(p, name)
      q == [p EXCEPT !.method = IF name = HttpHeaderNames.SOAPACTION
                                THEN "SOAPMETHOD_POST" ELSE @]
  IN  IF i = 0
      THEN [q EXCEPT !.headers = Append(@, [name  |-> name,
                                            value |-> IF value = <<>> THEN <<"NUL">> ELSE value])]
      ELSE IF value = <<>> THEN q
      ELSE [q EXCEPT !.headers[i].value = @ \o <<",", "SP">> \o value]

\* One header, given its first token and how the rest matches.
HeaderMatched(p, name, m) ==
  IF m.status # "OK" THEN Outcome(m.status, p)
  ELSE Outcome("CONTINUE_1", AddHeader([p EXCEPT !.cursor = m.cursor], name, m.val[1]))
HeaderAt(p, t) ==
  IF t.status # "OK" THEN Outcome(t.status, p)
  ELSE IF t.type = "crlf"
  THEN IF p.is_request /\ p.method = "POST"
       THEN Outcome("SUCCESS", [p EXCEPT !.cursor = t.cursor, !.position = "COMPLETE"])
       ELSE Outcome("OK", [p EXCEPT !.cursor = t.cursor, !.position = "ENTITY"])
  ELSE IF t.type # "identifier"
  THEN Outcome("FAILURE", [p EXCEPT !.cursor = t.cursor])
  ELSE HeaderMatched(p, SubSeq(p.buf, p.cursor + 1, t.cursor),
                     Match(p.buf, t.cursor, <<"LWS", ":", "LWS", "%R", "%c">>))
ParseHeader(o) ==
  IF o.status = "CONTINUE_1" THEN HeaderAt(o.p, GetToken(o.p.buf, o.p.cursor, FALSE)) ELSE o

\* parser_parse_headers: after n headers.  There are no more than symbols.
HeadersAfter(p) ==
  LET after[n \in 0 .. Len(p.buf) + 1] ==
        IF n = 0 THEN Outcome("CONTINUE_1", p) ELSE ParseHeader(after[n - 1])
  IN  after
ParseHeaders(p) == HeadersAfter(p)[Len(p.buf) + 1]

----------------------------------------------------------------------------
(***************************************************************************)
(* The entity.                                                             *)
(***************************************************************************)
NoBodyMethods   == {"HEAD", "GET", "SUBSCRIBE", "UNSUBSCRIBE", "MSEARCH"}
NoBodyResponses == {"HEAD", "MSEARCH", "SUBSCRIBE", "UNSUBSCRIBE", "NOTIFY"}

GetEntityReadMethod(p0) ==
  LET p    == [p0 EXCEPT !.entity_length = 0, !.entity_start = p0.cursor]
      te   == HttpHeaderNames.TRANSFER_ENCODING
      cl   == HttpHeaderNames.CONTENT_LENGTH
      none == IF p.is_request THEN p.method \in NoBodyMethods
              ELSE \/ p.status_code \in {204, 304} \cup 100 .. 199
                   \/ p.request_method \in NoBodyResponses
  IN  IF none THEN Outcome("SUCCESS", [p EXCEPT !.position = "COMPLETE"])
      ELSE IF FindHdr(p, te) # 0 /\ RawFindStr(HdrValue(p, te), Chunked)
      THEN Outcome("CONTINUE_1", [p EXCEPT !.ent_position = "USING_CHUNKED"])
      ELSE IF FindHdr(p, cl) # 0
      THEN Outcome("CONTINUE_1", [p EXCEPT !.ent_position = "USING_CLEN",
                                           !.content_length = ToInt(RawToInt(HdrValue(p, cl), 10))])
      ELSE IF p.is_request
      THEN Failed([p EXCEPT !.valid_ssdp_notify_hack = @ \/ p.method = "NOTIFY"],
                  "LENGTH_REQUIRED")
      ELSE Outcome("CONTINUE_1", [p EXCEPT !.ent_position = "UNTIL_CLOSE"])

ParseEntityUsingClen(p) ==
  LET have == Len(p.buf) - p.entity_start + p.amount_discarded
  IN  IF have < p.content_length
      THEN Outcome("INCOMPLETE", [p EXCEPT !.entity_length = have])
      ELSE Outcome("SUCCESS", [p EXCEPT !.entity_length = p.content_length,
                                        !.position = "COMPLETE"])

\* The line that announces a chunk is removed from the message.
Announced(p, chunk_size) ==
  IF chunk_size = 0
  THEN [p EXCEPT !.chunk_size = 0, !.ent_position = "CHUNKY_HEADERS",
                 !.entity_length = p.cursor - p.entity_start + p.amount_discarded]
  ELSE [p EXCEPT !.chunk_size = chunk_size, !.ent_position = "CHUNKY_BODY"]
ParseChunkyEntity(p) ==
  LET Line(m) == IF m.status # "OK" THEN Outcome(m.status, p)
                 ELSE Outcome("CONTINUE_1",
                        Announced([p EXCEPT !.buf = Delete(@, p.cursor, m.cursor - p.cursor)],
                                  m.val[1]))
  IN  Line(Match(p.buf, p.cursor, <<"%x", "%L", "%c">>))

\* The line end after a chunk is removed once the whole chunk is there.
ParseChunkyBodyMutant(p) ==
  LET end     == p.cursor + p.chunk_size
      Line(m) == IF m.status # "OK" THEN Outcome(m.status, [p EXCEPT !.cursor = end])
                 ELSE Outcome("CONTINUE_1",
                        [p EXCEPT !.buf = Delete(@, end, m.cursor - end), !.cursor = end,
                                  !.entity_length = @ + p.chunk_size,
                                  !.ent_position = "USING_CHUNKED"])
  IN  IF Len(p.buf) < end THEN Outcome("INCOMPLETE", p) ELSE Line(Match(p.buf, end, <<"%c">>))

ParseChunkyBody(p) ==
  LET end     == p.cursor + p.chunk_size
      Line(m) == IF m.status # "OK" THEN Outcome(m.status, p)
                 ELSE Outcome("CONTINUE_1",
                        [p EXCEPT !.buf = Delete(@, end, m.cursor - end), !.cursor = end,
                                  !.entity_length = @ + p.chunk_size,
                                  !.ent_position = "USING_CHUNKED"])
  IN  IF Len(p.buf) < end THEN Outcome("INCOMPLETE", p) ELSE Line(Match(p.buf, end, <<"%c">>))

\* The headers after the last chunk.  Those parsed by an earlier call stay in
\* the buffer, behind the entity.
ParseChunkyHeaders(p) ==
  LET Trailer(h) ==
        IF h.status # "OK" THEN h
        ELSE Outcome("SUCCESS",
               [h.p EXCEPT !.position = "COMPLETE", !.cursor = p.cursor,
                           !.buf = Delete(@, p.cursor, h.p.cursor - p.cursor)])
  IN  Trailer(ParseHeaders(p))

ParseEntityUntilClose(p) ==
  Outcome("INCOMPLETE_ENTITY",
    [p EXCEPT !.entity_length = Len(p.buf) - p.entity_start + p.amount_discarded,
              !.cursor = Len(p.buf)])

EntityPart(p) ==
  CASE p.ent_position = "USING_CLEN"            -> ParseEntityUsingClen(p)
    [] p.ent_position = "USING_CHUNKED"         -> ParseChunkyEntity(p)
    [] p.ent_position = "CHUNKY_BODY"           -> ParseChunkyBody(p)
    [] p.ent_position = "CHUNKY_HEADERS"        -> ParseChunkyHeaders(p)
    [] p.ent_position = "UNTIL_CLOSE"           -> ParseEntityUntilClose(p)
    [] p.ent_position = "DETERMINE_READ_METHOD" -> GetEntityReadMethod(p)
ParseEntityPart(o) == IF o.status = "CONTINUE_1" THEN EntityPart(o.p) ELSE o

\* parser_parse_entity: after n parts.  Of a chunk, its line and its body each
\* take symbols out of the message; the way to read and the headers after the
\* last chunk are two parts more.
EntityAfter(p) ==
  LET after[n \in 0 .. Len(p.buf) + 2] ==
        IF n = 0 THEN Outcome("CONTINUE_1", p) ELSE ParseEntityPart(after[n - 1])
  IN  after
ParseEntity(p) == EntityAfter(p)[Len(p.buf) + 2]

----------------------------------------------------------------------------
\* parser_parse: the parts of a message one after another, from the one that
\* the parser is in, while each is complete; and parser_append.
Lined(p) ==
  CASE p.position = "REQUEST_LINE"           -> ParseRequestline(p)
    [] p.position = "RESPONSE_LINE"          -> ParseResponseline(p)
    [] p.position \in {"HEADERS", "ENTITY"} -> Outcome("OK", p)
Headed(o)  == IF o.status = "OK" /\ o.p.position = "HEADERS" THEN ParseHeaders(o.p) ELSE o
Entered(o) == IF o.status = "OK" /\ o.p.position = "ENTITY" THEN ParseEntity(o.p) ELSE o
Parse(p)   == Entered(Headed(Lined(p)))

ParserAppend(p, data) == Parse([p EXCEPT !.buf = @ \o data])
=============================================================================
