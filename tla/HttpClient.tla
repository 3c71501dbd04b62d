---------------------------- MODULE HttpClient ----------------------------
(***************************************************************************)
(* The HTTP exchanges of httpreadwrite.c above sock.c and the parser:      *)
(*                                                                         *)
(*   http_RequestAndResponse (SOAP, GENA, http_Download),                  *)
(*   http_RecvMessage for a request, as a server calls it (the server that *)
(*   would is left out of the build, the code is not),                     *)
(*   http_OpenHttpGet, http_OpenHttpGetEx, http_ReadHttpGet,               *)
(*   http_CancelHttpGet and http_CloseHttpGet,                             *)
(*   http_OpenHttpPost, http_WriteHttpPost and http_CloseHttpPost.         *)
(*                                                                         *)
(* One thread runs a call at a time; another may cancel a get.  The peer   *)
(* sends a message in fragments of any size, may close early, and may stay *)
(* silent.                                                                 *)
(***************************************************************************)
EXTENDS HttpParser, FiniteSets
LOCAL INSTANCE SequencesExt

CONSTANTS Responses,       \* what a server may answer
          FewResponses,    \* and to a post or a request for a range
          Requests,        \* what a client of the mini server may send
          Bodies,          \* what the application writes in one call
          ReadSizes,       \* what it asks for in one call
          Timeouts,        \* the timeout argument of a call, in seconds
          MaxContentLength,\* g_maxContentLength
          MaxBody,         \* bound on what is written to one post
          MaxCalls         \* bound on the calls that begin an exchange

ASSUME ClientAssumption ==
  /\ ReadSizes \subseteq Nat /\ Timeouts \subseteq Nat
  /\ MaxContentLength \in Nat /\ MaxBody \in Nat /\ MaxCalls \in Nat
  /\ \A m \in Responses \cup FewResponses \cup Requests : m \in Seq({ m[k] : k \in 1 .. Len(m) })

VARIABLES
  pc,      \* where the running call is, or "idle"
  op,      \* the call
  parser,  \* the parser of the message that is received
  status,  \* what the parser said last
  wire,    \* what the peer has sent and the socket has not delivered
  eof,     \* the peer has closed its side
  sock,    \* "none", "up", or "down": open, but connect failed
  left,    \* *timeoutSecs
  handle,  \* "none", "get" or "post": what the application holds
  kind,    \* handle->contentLength of a post: a length, or how it is told
  cancel,  \* handle->cancel
  asked,   \* *size: what http_ReadHttpGet was asked for
  ret,     \* the result of the last call
  calls,   \* exchanges begun
  recd,    \* history: what was received
  got,     \* history: what http_ReadHttpGet handed over
  sent,    \* history: what was written to the peer
  body,    \* history: what the application wrote
  intact,  \* history: no write failed
  out      \* what the running http_WriteHttpPost writes

vars == <<pc, op, parser, status, wire, eof, sock, left, handle, kind, cancel,
          asked, ret, calls, recd, got, sent, body, intact, out>>
net  == <<wire, eof, recd>>
app  == <<handle, kind, cancel, asked, calls, got>>
post == <<sent, body, intact, out>>

----------------------------------------------------------------------------
(***************************************************************************)
(* http_MakeMessage: a message is put together from pieces.  D, C, U, S    *)
(* and G are headers whose text does not matter here.                      *)
(***************************************************************************)
Field(name, value) == name \o <<":", "SP">> \o value \o CRLF
Decimal(n) == IF n < 10 THEN <<ToString(n)>> ELSE <<"1", ToString(n - 10)>>
Hex(n)     == IF n < 10 THEN <<ToString(n)>> ELSE <<"a">>       \* up to 10
Piece(c) ==
  CASE c[1] = "Q" -> HttpMethodTable[c[2]] \o <<"SP", "/", "u", "SP">> \o Http
                       \o <<"/", "1", ".", "1">> \o CRLF
    [] c[1] = "R" -> Http \o <<"/", "1", ".", "1", "SP">> \o c[2] \o <<"SP", "reason">> \o CRLF
    [] c[1] = "H" -> Field(HttpHeaderNames.HOST, <<"h">>)
    [] c[1] = "T" -> Field(HttpHeaderNames.CONTENT_TYPE, <<"t", "/", "x">>)
    [] c[1] = "N" -> Field(HttpHeaderNames.CONTENT_LENGTH, Decimal(c[2]))
    [] c[1] = "K" -> Field(HttpHeaderNames.TRANSFER_ENCODING, Chunked)
    [] c[1] \in {"D", "C", "U", "S", "G"} -> Field(<<c[1]>>, <<"v">>)
    [] c[1] = "c" -> CRLF
    [] c[1] = "b" -> c[2]
MakeMessage(fmt) == FlattenSeq([ i \in 1 .. Len(fmt) |-> Piece(fmt[i]) ])

\* MakeGetMessage and MakeGetMessageEx; MakePostMessage.
MakeGetMessage   == MakeMessage(<< <<"Q", "GET">>, <<"H">>, <<"D">>, <<"C">>, <<"U">>, <<"c">> >>)
MakeGetMessageEx == MakeMessage(<< <<"Q", "GET">>, <<"H">>, <<"G">>, <<"D">>, <<"C">>,
                                   <<"U">>, <<"c">> >>)
Kinds == { <<"CLEN", Len(d)>> : d \in Bodies } \cup {<<"CHUNKED", 0>>, <<"UNTIL_CLOSE", 0>>}
MakePostMessage(k) ==
  MakeMessage(<< <<"Q", "POST">>, <<"H">>, <<"D">>, <<"C">>, <<"U">>, <<"T">> >>
              \o (CASE k[1] = "CLEN"    -> << <<"N", k[2]>> >>
                    [] k[1] = "CHUNKED" -> << <<"K">> >>
                    [] OTHER            -> <<>>)
              \o << <<"c">> >>)
\* The request of a call, and the method its response is parsed for.
RequestOf == [ Request |-> MakeGetMessage, Get |-> MakeGetMessage, GetEx |-> MakeGetMessageEx ]

----------------------------------------------------------------------------
(***************************************************************************)
(* sock.c.  A read delivers some bytes, or 0 when the peer has closed, or  *)
(* fails.  Seconds pass while it waits: select returns when the time is    *)
(* over, and the clock may have advanced once more.  With *timeoutSecs at  *)
(* 0 select waits for ever.                                                *)
(***************************************************************************)
TimePasses(timeout) == left' \in IF timeout = 0 THEN {0} ELSE -1 .. timeout

SockData(n) ==
  /\ left >= 0 /\ sock = "up"
  /\ n \in 1 .. Len(wire)
  /\ wire' = SubSeq(wire, n + 1, Len(wire))
  /\ recd' = recd \o SubSeq(wire, 1, n)
  /\ TimePasses(left)
  /\ UNCHANGED eof

SockEof ==
  /\ left >= 0 /\ sock = "up"
  /\ wire = <<>> /\ eof
  /\ TimePasses(left)
  /\ UNCHANGED net

\* The call ends without data.  Only a call that has time left can time out.
SockFails(r) ==
  /\ \/ r = "TIMEDOUT" /\ left # 0
     \/ r = "SOCKET_ERROR" /\ left >= 0
  /\ UNCHANGED <<wire, eof, recd, left>>

\* sock_write writes everything or fails.  It waits for a peer that does not
\* take what is written: in select without a time limit when *timeoutSecs is
\* 0, and in send, on a blocking socket, whatever the limit is.
SockWrite(data) ==
  \/ /\ left >= 0 /\ sock = "up"
     /\ sent' = sent \o data
     /\ TimePasses(left)
     /\ UNCHANGED intact
  \/ /\ intact' = FALSE
     /\ UNCHANGED <<sent, left>>
MayBlock == left >= 0 /\ sock = "up"

----------------------------------------------------------------------------
Init ==
  /\ pc = "idle" /\ op = "none" /\ parser = ParserInit(FALSE, "GET") /\ status = "none"
  /\ wire = <<>> /\ eof = FALSE /\ sock = "none" /\ left = 0
  /\ handle = "none" /\ kind = <<"none", 0>> /\ cancel = FALSE /\ asked = 0 /\ ret = "none"
  /\ calls = 0 /\ recd = <<>> /\ got = <<>>
  /\ sent = <<>> /\ body = <<>> /\ intact = TRUE /\ out = <<>>

\* A call returns r, with the socket as s.
Return(r, s) == /\ pc' = "idle" /\ ret' = r /\ sock' = s

\* A call that begins an exchange: http_RequestAndResponse, http_OpenHttpGet,
\* http_OpenHttpGetEx or http_OpenHttpPost.  The peer will answer m.
Begin(o, m, k) ==
  /\ pc = "idle" /\ handle = "none" /\ calls < MaxCalls
  /\ pc' = "connect" /\ op' = o /\ kind' = k /\ calls' = calls + 1
  /\ left' \in Timeouts
  /\ parser' = ParserInit(FALSE, IF o = "Post" THEN "POST" ELSE "GET")
  /\ status' = "none"
  /\ wire' = m /\ eof' = FALSE /\ recd' = <<>>
  /\ cancel' = FALSE /\ asked' = 0 /\ got' = <<>>
  /\ sent' = <<>> /\ body' = <<>> /\ intact' = TRUE /\ out' = <<>> /\ ret' = "none"
  /\ sock' = "none" /\ UNCHANGED handle

RequestAndResponse(m) == Begin("Request", m, <<"none", 0>>)
OpenHttpGet(m)        == Begin("Get", m, <<"none", 0>>)
OpenHttpGetEx(m)      == Begin("GetEx", m, <<"none", 0>>)
OpenHttpPost(m, k)    == Begin("Post", m, k)

\* http_RecvMessage for a request, on an accepted connection.
BeginServe(m) ==
  /\ pc = "idle" /\ handle = "none" /\ calls < MaxCalls
  /\ pc' = "recv" /\ op' = "Serve" /\ calls' = calls + 1
  /\ left' \in Timeouts /\ sock' = "up"
  /\ parser' = ParserInit(TRUE, "UNKNOWN") /\ status' = "none"
  /\ wire' = m /\ eof' = FALSE /\ recd' = <<>> /\ got' = <<>>
  /\ sent' = <<>> /\ body' = <<>> /\ intact' = TRUE /\ out' = <<>> /\ ret' = "none"
  /\ UNCHANGED <<handle, kind, cancel, asked>>

\* socket and private_connect, of http_Connect and of the calls that do the
\* same on their own.  Check_Connect_And_Wait_Connection reports
\* success when connect failed with another error than EINPROGRESS.
PrivateConnect == {"up", "down", "fails"}
Connect ==
  /\ pc = "connect"
  /\ \/ Return("SOCKET_ERROR", "none") /\ UNCHANGED left       \* no socket
     \/ /\ "fails" \in PrivateConnect
        /\ Return("SOCKET_CONNECT", "none") /\ UNCHANGED left  \* sock_destroy
     \/ /\ sock' \in PrivateConnect \ {"fails"}
        /\ pc' = "send"
        /\ UNCHANGED <<ret, left>>
  /\ UNCHANGED <<op, parser, status, net, app, post>>

\* http_SendMessage(..., "b", ...): a failed write is reported as success.
\* An opened post has a handle now; the others read the answer.
SendMessage ==
  /\ pc = "send"
  /\ SockWrite(IF op = "Post" THEN MakePostMessage(kind) ELSE RequestOf[op])
  /\ IF op = "Post"
     THEN /\ Return("SUCCESS", sock) /\ handle' = "post"
     ELSE /\ pc' = IF op = "Request" THEN "recv" ELSE "line"
          /\ UNCHANGED <<ret, sock, handle>>
  /\ UNCHANGED <<op, parser, status, net, kind, cancel, asked, calls, got, body, out>>

(***************************************************************************)
(* http_RecvMessage.                                                       *)
(***************************************************************************)
\* The callers close the socket; http_CloseHttpPost frees its handle.
RecvReturnsMutant(r) ==
  /\ Return(r, sock)
  /\ handle' = "none"
  /\ UNCHANGED <<kind, cancel, asked, calls, got>>

RecvReturns(r) ==
  /\ Return(r, "none")
  /\ handle' = "none"
  /\ UNCHANGED <<kind, cancel, asked, calls, got>>

RecvData ==
  /\ pc = "recv"
  /\ \E n \in 1 .. Len(wire) :
       /\ SockData(n)
       /\ \E o \in {ParserAppend(parser, SubSeq(wire, 1, n))} :
              /\ parser' = o.p /\ status' = o.status
              /\ CASE o.status = "SUCCESS" ->
                        RecvReturns(IF MaxContentLength > 0 /\ o.p.content_length > MaxContentLength
                                    THEN "OUTOF_BOUNDS" ELSE "SUCCESS")
                   [] o.status \in {"FAILURE", "NO_MATCH"} -> RecvReturns("BAD_HTTPMSG")
                   [] OTHER -> UNCHANGED <<pc, ret, sock, app>>
  /\ UNCHANGED <<op, post>>

\* The peer closed: fine only for a message that ends so.
RecvEof ==
  /\ pc = "recv"
  /\ SockEof
  /\ RecvReturns(IF status = "INCOMPLETE_ENTITY" THEN "SUCCESS" ELSE "BAD_HTTPMSG")
  /\ UNCHANGED <<op, parser, status, post>>

RecvFails(r) ==
  /\ pc = "recv"
  /\ SockFails(r) /\ RecvReturns(r)
  /\ UNCHANGED <<op, parser, status, post>>

(***************************************************************************)
(* http_Download: what it makes of the response that                       *)
(* http_RequestAndResponse got it.  The document is moved to the start of  *)
(* the message, which then is cut to its length.  An error reply that has  *)
(* a body sets the length and not the document.                            *)
(***************************************************************************)
NoDocument == <<"NULL">>
Download(p) ==
  [ length   |-> p.entity_length,
    document |-> IF p.entity_length = 0 \/ p.status_code # 200 THEN NoDocument
                 ELSE SubSeq(p.buf, p.entity_start + 1, p.entity_start + p.entity_length),
    ret      |-> IF p.status_code = 200 THEN 0 ELSE p.status_code ]

(***************************************************************************)
(* http_OpenHttpGet: ReadResponseLineAndHeaders, then                      *)
(* parser_get_entity_read_method.                                          *)
(***************************************************************************)
\* ReadResponseLineAndHeaders on what is there: the line, then the headers.
HeadersOf(l) == IF l.status # "OK" THEN l ELSE ParseHeaders(l.p)
LineAndHeaders(p) ==
  HeadersOf(IF p.position = "RESPONSE_LINE" THEN ParseResponseline(p) ELSE Outcome("OK", p))

\* An open that got no good response leaves its socket open.
OpenFails == /\ Return("BAD_RESPONSE", sock) /\ UNCHANGED app

OpenData ==
  /\ pc = "line"
  /\ \E n \in 1 .. Len(wire) :
       /\ SockData(n)
       /\ \E o \in {LineAndHeaders([parser EXCEPT !.buf = @ \o SubSeq(wire, 1, n)])} :
              /\ status' = o.status
              /\ CASE o.status = "OK" ->
                        /\ parser' = GetEntityReadMethod(o.p).p
                        /\ Return("SUCCESS", sock) /\ handle' = "get"
                        /\ UNCHANGED <<kind, cancel, asked, calls, got>>
                   [] o.status = "INCOMPLETE" ->
                        /\ parser' = o.p
                        /\ UNCHANGED <<pc, ret, sock, app>>
                   [] OTHER -> parser' = o.p /\ OpenFails
  /\ UNCHANGED <<op, post>>

OpenEof ==
  /\ pc = "line"
  /\ SockEof /\ OpenFails
  /\ UNCHANGED <<op, parser, status, post>>

OpenSockFails(r) ==
  /\ pc = "line"
  /\ SockFails(r) /\ OpenFails
  /\ UNCHANGED <<op, parser, status, post>>

(***************************************************************************)
(* http_ReadHttpGet.                                                       *)
(***************************************************************************)
GoodEntity == {"INCOMPLETE_ENTITY", "SUCCESS", "INCOMPLETE"}

\* The condition of the loop that reads more, with cancel as it is when it is
\* looked at: a cancel does not end a read that has begun.
More(p, n) == /\ p.amount_discarded + n > p.entity_length
              /\ ~cancel
              /\ p.position # "COMPLETE"
ReadOn(p, n) == pc' = IF More(p, n) THEN "read" ELSE "body"

\* What was received already is parsed first.
ReadHttpGet(n) ==
  /\ pc = "idle" /\ handle = "get"
  /\ asked' = n /\ left' \in Timeouts
  /\ \E o \in {IF parser.position # "COMPLETE" THEN ParseEntity(parser)
               ELSE Outcome("SUCCESS", parser)} :
       /\ parser' = o.p /\ status' = o.status
       /\ IF o.status \in GoodEntity
          THEN ReadOn(o.p, n) /\ UNCHANGED ret
          ELSE ret' = "BAD_RESPONSE" /\ UNCHANGED pc
  /\ UNCHANGED <<op, net, sock, handle, kind, cancel, calls, got, post>>

ReadData ==
  /\ pc = "read"
  /\ \E n \in 1 .. Len(wire) :
       /\ SockData(n)
       /\ \E o \in {ParseEntity([parser EXCEPT !.buf = @ \o SubSeq(wire, 1, n)])} :
              /\ parser' = o.p /\ status' = o.status
              /\ IF o.status \in GoodEntity
                 THEN ReadOn(o.p, asked) /\ UNCHANGED ret
                 ELSE pc' = "idle" /\ ret' = "BAD_RESPONSE"
  /\ UNCHANGED <<op, sock, app, post>>

ReadEofMutant ==
  /\ pc = "read"
  /\ SockEof
  /\ UNCHANGED <<pc, ret, parser, op, status, sock, app, post>>

ReadEof ==
  /\ pc = "read"
  /\ SockEof
  /\ IF status = "INCOMPLETE_ENTITY"
     THEN /\ parser' = [parser EXCEPT !.position = "COMPLETE"]
          /\ pc' = "body" /\ UNCHANGED ret
     ELSE /\ pc' = "idle" /\ ret' = "BAD_HTTPMSG"
          /\ parser' = [parser EXCEPT !.http_error_code = "BAD_REQUEST"]
  /\ UNCHANGED <<op, status, sock, app, post>>

ReadFails(r) ==
  /\ pc = "read"
  /\ SockFails(r)
  /\ ret' = r /\ pc' = "idle"
  /\ UNCHANGED <<op, parser, status, sock, app, post>>

\* What is handed over is deleted from the message and counted as discarded.
HandOverKeepsMutant(p, n) == [p EXCEPT !.amount_discarded = @ + n]

HandOverScansMutant(p, n) ==
  [p EXCEPT !.buf = Delete(@, p.entity_start, n), !.amount_discarded = @ + n]

\* The cursor moves back for the sake of chunks.  Within a body that
\* Content-Length delimits it may so fall below 0, where a size_t wraps around.
HandOver(p, n) ==
  [p EXCEPT !.buf = Delete(@, p.entity_start, n), !.cursor = @ - n,
            !.amount_discarded = @ + n]

Deliver ==
  LET n == IF parser.amount_discarded + asked > parser.entity_length
           THEN parser.entity_length - parser.amount_discarded ELSE asked
  IN  /\ pc = "body"
      /\ pc' = "idle"
      /\ IF cancel
         THEN ret' = "CANCELED" /\ UNCHANGED <<parser, got>>
         ELSE /\ ret' = "SUCCESS"
              /\ got' = got \o SubSeq(parser.buf, parser.entity_start + 1,
                                      parser.entity_start + n)
              /\ parser' = HandOver(parser, n)
      /\ UNCHANGED <<op, status, net, sock, left, handle, kind, cancel, asked, calls, post>>

\* http_CancelHttpGet, by another thread.
CancelHttpGet ==
  /\ handle = "get" /\ ~cancel
  /\ cancel' = TRUE
  /\ UNCHANGED <<pc, op, parser, status, net, sock, left, handle, kind, asked, ret,
                 calls, got, post>>

CloseHttpGet ==
  /\ pc = "idle" /\ handle = "get"
  /\ handle' = "none" /\ Return("SUCCESS", "none")
  /\ UNCHANGED <<op, parser, status, net, left, kind, cancel, asked, calls, got, post>>

\* http_HttpGetProgress: the length so far, and the total.
Progress == <<parser.entity_length, parser.content_length>>

(***************************************************************************)
(* http_WriteHttpPost and http_CloseHttpPost.                              *)
(***************************************************************************)
\* A chunk is its length, its data and a line end.
Framed(data) ==
  IF kind[1] # "CHUNKED" THEN data
  ELSE IF data = <<>> THEN <<>>
  ELSE Hex(Len(data)) \o CRLF \o data \o CRLF

WriteHttpPost(data) ==
  /\ pc = "idle" /\ handle = "post"
  /\ Len(body) + Len(data) <= MaxBody
  /\ pc' = "write" /\ out' = data /\ left' \in Timeouts
  /\ UNCHANGED <<op, parser, status, net, sock, app, ret, sent, body, intact>>

\* Its sock_write returns.
WriteReturns ==
  /\ pc = "write"
  /\ SockWrite(Framed(out))
  /\ body' = body \o out /\ out' = <<>>
  /\ pc' = "idle" /\ ret' = IF intact' THEN "SUCCESS" ELSE "SOCKET_ERROR"
  /\ UNCHANGED <<op, parser, status, net, sock, app>>

LastChunk == <<"0">> \o CRLF \o CRLF

\* A chunked post is ended by a last chunk, then the answer is read.
CloseHttpPost ==
  /\ pc = "idle" /\ handle = "post"
  /\ left' \in Timeouts
  /\ parser' = ParserInit(FALSE, "POST") /\ status' = "none"
  /\ op' = "ClosePost" /\ pc' = IF kind[1] = "CHUNKED" THEN "last" ELSE "recv"
  /\ UNCHANGED <<net, sock, app, ret, post>>

\* The sock_write of the last chunk returns; whether it failed does not matter.
LastReturns ==
  /\ pc = "last"
  /\ SockWrite(LastChunk)
  /\ pc' = "recv"
  /\ UNCHANGED <<op, parser, status, net, sock, app, ret, body, out>>

(***************************************************************************)
(* The peer.                                                               *)
(***************************************************************************)
PeerCloses ==
  /\ pc # "idle" \/ handle # "none"
  /\ ~eof /\ eof' = TRUE
  /\ wire' \in {wire, <<>>}              \* what is not sent yet may never be
  /\ UNCHANGED <<pc, op, parser, status, sock, left, app, ret, recd, post>>

Next ==
  \/ \E m \in Responses : RequestAndResponse(m) \/ OpenHttpGet(m)
  \/ \E m \in FewResponses : OpenHttpGetEx(m) \/ \E k \in Kinds : OpenHttpPost(m, k)
  \/ \E m \in Requests : BeginServe(m)
  \/ Connect \/ SendMessage
  \/ RecvData \/ RecvEof \/ OpenData \/ OpenEof
  \/ \E n \in ReadSizes : ReadHttpGet(n)
  \/ ReadData \/ ReadEof \/ Deliver
  \/ \E r \in {"TIMEDOUT", "SOCKET_ERROR"} : RecvFails(r) \/ OpenSockFails(r) \/ ReadFails(r)
  \/ CancelHttpGet \/ CloseHttpGet
  \/ \E d \in Bodies : WriteHttpPost(d)
  \/ WriteReturns \/ CloseHttpPost \/ LastReturns
  \/ PeerCloses

(***************************************************************************)
(* The thread of a call runs on.  A read returns when there is data, when  *)
(* the peer has closed, when its time is over, and at once on a socket     *)
(* that never was connected; nothing makes the peer send or close.  A      *)
(* write returns at once on such a socket, and nothing makes a connected   *)
(* peer take what is written.                                              *)
(* ReadsData is what RecvData, OpenData and ReadData have in common.       *)
(***************************************************************************)
ReadsData ==
  /\ pc \in {"recv", "line", "read"}
  /\ \E n \in 1 .. Len(wire) : SockData(n)
GivesUp(r) == RecvFails(r) \/ OpenSockFails(r) \/ ReadFails(r)
Fairness ==
  /\ WF_vars(Connect) /\ WF_vars(Deliver)
  /\ WF_vars(~MayBlock /\ (SendMessage \/ WriteReturns \/ LastReturns))
  /\ WF_net(ReadsData)
  /\ WF_vars(RecvEof \/ OpenEof \/ ReadEof)
  /\ WF_vars(GivesUp("TIMEDOUT")) /\ WF_vars(sock = "down" /\ GivesUp("SOCKET_ERROR"))

Spec     == Init /\ [][Next]_vars
FairSpec == Spec /\ Fairness

----------------------------------------------------------------------------
\* The variables have the values that the calls and the handles of
\* httpreadwrite.c give them.
TypeOK ==
  /\ pc \in {"idle", "connect", "send", "recv", "line", "read", "body", "write", "last"}
  /\ op \in {"none", "Request", "Get", "GetEx", "Post", "ClosePost", "Serve"}
  /\ sock \in {"none", "up", "down"} /\ left \in Int
  /\ handle \in {"none", "get", "post"} /\ kind \in Kinds \cup {<<"none", 0>>}
  /\ eof \in BOOLEAN /\ cancel \in BOOLEAN /\ intact \in BOOLEAN
  /\ calls \in 0 .. MaxCalls /\ asked \in ReadSizes \cup {0}

\* What the message received so far says when it arrives in one piece.
Whole == ParserAppend(ParserInit(parser.is_request, parser.request_method), recd)
\* What a caller of http_RecvMessage can see of a parsed message.
Seen(p) == << p.position, p.method, p.url, p.version, p.status_code, p.headers, Entity(p),
              p.content_length, p.http_error_code, p.valid_ssdp_notify_hack >>

\* A request line "GET url" with white space before its line end is rejected
\* when its CR arrives without the LF: parser_parse_requestline then tries the
\* form with a version on it.
SplitSimpleGet ==
  /\ parser.position = "REQUEST_LINE"
  /\ Len(recd) > 1 /\ Last(recd) = "CR" /\ Class(recd[Len(recd) - 1]) = "ws"

(***************************************************************************)
(* How a message is cut into reads does not matter: however                *)
(* http_RecvMessage got it, the parser's verdict and the message are what  *)
(* one parser_append of all of it would give.  The parser deletes chunk    *)
(* lines and keeps its cursor between reads, so this takes every cut of    *)
(* every message.                                                          *)
(***************************************************************************)
FragmentsInvisible ==
  LET Agrees(o) == status = o.status /\ Seen(parser) = Seen(o.p)
  IN  op \in {"Request", "Serve", "ClosePost"} /\ recd # <<>> /\ ~SplitSimpleGet => Agrees(Whole)

(***************************************************************************)
(* A message is parsed right: how it was received does not matter.         *)
(***************************************************************************)
MessagesRight == TypeOK /\ FragmentsInvisible

(***************************************************************************)
(* What http_ReadHttpGet has handed over is the beginning of the body, in  *)
(* order and without gaps, whatever the sizes asked for, the chunks and    *)
(* the reads; when it has handed over all it has of a message that is      *)
(* complete, it is the whole body.                                         *)
(***************************************************************************)
GotIsBody ==
  LET Agrees(entity) ==
        /\ IsPrefix(got, entity)
        /\ (pc = "idle" /\ parser.position = "COMPLETE"
              /\ parser.amount_discarded = parser.entity_length) => got = entity
  IN  handle = "get" => Agrees(Entity(Whole.p))

(***************************************************************************)
(* The document that http_Download gets from a response that was received  *)
(* in full is its body, and what its memmove and realloc rely on holds:    *)
(* the entity lies inside the message and is shorter (the assertion        *)
(* msg_length > *doc_length).  A reply with another status than 200 yields *)
(* no document.                                                            *)
(***************************************************************************)
DocumentIsBody ==
  LET Agrees(d, p) ==
        /\ parser.entity_start + d.length <= Len(parser.buf) /\ d.length < Len(parser.buf)
        /\ d.document # NoDocument <=> (p.status_code = 200 /\ Entity(p) # <<>>)
        /\ d.document # NoDocument => d.ret = 0 /\ d.document = Entity(p)
  IN  op = "Request" /\ pc = "idle" /\ ret = "SUCCESS" => Agrees(Download(parser), Whole.p)

(***************************************************************************)
(* The parser stays inside the message, whatever is received and however   *)
(* it is cut, while http_ReadHttpGet deletes from it what it hands over:   *)
(* the scanner's cursor is in the buffer, or the body is one that          *)
(* Content-Length delimits and nothing is scanned any more; the entity     *)
(* lies inside the buffer, with no more of it discarded than there is; and *)
(* the parser's loops end.  What http_HttpGetProgress tells follows: a     *)
(* length of at least what was handed over and at most the total.          *)
(***************************************************************************)
ParserStaysInside ==
  /\ parser.ent_position # "USING_CLEN" => parser.cursor \in 0 .. Len(parser.buf)
  /\ parser.amount_discarded \in 0 .. parser.entity_length
  /\ parser.entity_start + parser.entity_length - parser.amount_discarded \in 0 .. Len(parser.buf)
  /\ status # "CONTINUE_1"
  /\ handle = "get" => /\ Len(got) <= Progress[1]
                       /\ parser.ent_position = "USING_CLEN" => Progress[1] <= Progress[2]

\* The parser stops after the headers of a post, and then reads its body.
BodyRead(o)  == o.status = "SUCCESS" /\ Entity(o.p) = body
BodyBegun(o) == o.status = "SUCCESS" /\ BodyRead(ParseEntity(o.p))

(***************************************************************************)
(* A post is written as the library itself would read it: when no write    *)
(* failed, the parser finds in what was sent the body the application      *)
(* wrote, once the post is closed (chunked) or the announced length has    *)
(* been written.                                                           *)
(***************************************************************************)
PostReadBack ==
  LET written == \/ op = "ClosePost" /\ kind[1] = "CHUNKED" /\ pc # "last"
                 \/ handle = "post" /\ kind = <<"CLEN", Len(body)>>
  IN  intact /\ written => BodyBegun(ParserAppend(ParserInit(TRUE, "UNKNOWN"), sent))

(***************************************************************************)
(* Bodies arrive: what is handed over piece by piece, what is downloaded   *)
(* and what a post writes agree with the body of the message.              *)
(***************************************************************************)
BodiesArrive == GotIsBody /\ DocumentIsBody /\ PostReadBack

(***************************************************************************)
(* Between calls a socket is open exactly while the application holds a    *)
(* handle: every way out of a call closes the socket it opened, but for an *)
(* http_OpenHttpGet or http_OpenHttpGetEx that reports a bad response.     *)
(***************************************************************************)
LeftOpen      == op \in {"Get", "GetEx"} /\ handle = "none" /\ ret = "BAD_RESPONSE"
SocketsClosed == pc = "idle" /\ ~LeftOpen => (handle = "none") = (sock = "none")

(***************************************************************************)
(* Every call returns, however the peer cuts, delays and ends its answer   *)
(* and whenever the call is cancelled, or it waits for a peer that does    *)
(* nothing any more: one that does not take what is written, or is silent  *)
(* while the read has no time limit, because none was asked for or because *)
(* sock_read_write counted it down to exactly 0, which select takes for no *)
(* limit.                                                                  *)
(***************************************************************************)
ReadWaits   == /\ pc \in {"recv", "line", "read"}
               /\ left = 0 /\ sock = "up" /\ wire = <<>> /\ ~eof
WriteWaits  == pc \in {"send", "write", "last"} /\ MayBlock
CallsReturn == []<>(pc = "idle") \/ <>[]ReadWaits \/ <>[]WriteWaits
=============================================================================
