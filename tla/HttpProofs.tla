----------------------------- MODULE HttpProofs -----------------------------
(***************************************************************************)
(* Proofs about HttpClient and the parser and scanner below it, for any    *)
(* messages that a peer may send, cut into reads in any way: the sockets   *)
(* of the calls are closed, and the parser stays inside its message.       *)
(*                                                                         *)
(* The second goes up from the scanner.  A token, a line end or a run of   *)
(* white space ends inside the text, behind where it began; so does a      *)
(* match of a format, with numbers and texts as its values; so every part  *)
(* of a message leaves the cursor inside and behind where it was, or the   *)
(* message shorter, and the loops over headers and over the parts of an    *)
(* entity end.  Above the parser, where a call is tells which of these     *)
(* parts it may be in.                                                     *)
(***************************************************************************)
EXTENDS HttpClient, SequenceTheorems, ListLemmas

LOCAL INSTANCE SequencesExt   \* FlattenSeq, ToSet

(***************************************************************************)
(* The sockets of the HTTP calls.                                          *)
(***************************************************************************)
\* Where a call is tells what it and the application hold.
SocketInv ==
  /\ pc \in {"idle", "connect", "send", "recv", "line", "read", "body", "write", "last"}
  /\ handle \in {"none", "get", "post"}
  /\ pc = "connect" => handle = "none" /\ sock = "none"
  /\ pc \in {"send", "line"} => handle = "none"
  /\ pc \notin {"idle", "connect"} => sock # "none"
  /\ pc = "line" => op \in {"Get", "GetEx"}
  /\ pc \in {"connect", "send"} => op \in {"Request", "Get", "GetEx", "Post"}
  /\ pc \in {"read", "body"} => handle = "get"
  /\ pc \in {"write", "last"} => handle = "post"
  /\ pc = "idle" /\ handle # "none" => sock # "none"
  /\ pc = "idle" /\ handle = "none" => sock = "none" \/ LeftOpen

(* The calls that begin an exchange hold nothing yet. *)
LEMMA BeginSockets ==
    ASSUME SocketInv, NEW o \in {"Request", "Get", "GetEx", "Post"}, NEW m, NEW k, Begin(o, m, k)
    PROVE  SocketInv' /\ op' = o
BY DEF SocketInv, Begin, LeftOpen

(* http_RecvMessage returns with its socket closed. *)
LEMMA RecvSockets ==
    ASSUME SocketInv, NEW r, RecvReturns(r)
    PROVE  SocketInv'
BY DEF SocketInv, RecvReturns, Return, LeftOpen

(* Every step of a call, and of the application, keeps the sockets right. *)
LEMMA SocketStep == ASSUME SocketInv, [Next]_vars PROVE SocketInv'
<1> USE DEF SocketInv, LeftOpen, Return
<1>1. ASSUME \/ \E m \in Responses : RequestAndResponse(m) \/ OpenHttpGet(m)
             \/ \E m \in FewResponses : OpenHttpGetEx(m) \/ \E k \in Kinds : OpenHttpPost(m, k)
      PROVE  SocketInv'
  BY <1>1, BeginSockets DEF RequestAndResponse, OpenHttpGet, OpenHttpGetEx, OpenHttpPost
<1>2. ASSUME NEW m \in Requests, BeginServe(m) PROVE SocketInv'
  BY <1>2 DEF BeginServe
<1>3. CASE Connect
  <2>1. /\ pc = "connect" /\ op' = op /\ handle' = handle
        /\ \/ pc' = "idle" /\ sock' = "none"
           \/ pc' = "send" /\ sock' # "none"
    BY <1>3 DEF Connect, PrivateConnect, app
  <2>2. op \in {"Request", "Get", "GetEx", "Post"}
    BY <2>1
  <2>3. QED
    BY <2>1, <2>2
<1>4. CASE SendMessage
  BY <1>4 DEF SendMessage
<1>5. CASE RecvData
  <2>1. pc = "recv" /\ op' = op
    BY <1>5 DEF RecvData
  <2>2. (\E r : RecvReturns(r)) \/ UNCHANGED <<pc, ret, sock, app>>
    BY <1>5, Zenon DEF RecvData
  <2>3. CASE \E r : RecvReturns(r)
    BY <2>3, RecvSockets
  <2>4. CASE UNCHANGED <<pc, ret, sock, app>>
    BY <2>1, <2>4 DEF app
  <2>5. QED
    BY <2>2, <2>3, <2>4
<1>6. CASE RecvEof
  BY <1>6, RecvSockets DEF RecvEof
<1>7. CASE OpenData
  <2>1. pc = "line" /\ op' = op
    BY <1>7 DEF OpenData
  <2>2. \/ Return("SUCCESS", sock) /\ handle' = "get"
        \/ UNCHANGED <<pc, ret, sock, app>>
        \/ OpenFails
    BY <1>7, Zenon DEF OpenData
  <2>3. QED
    BY <2>1, <2>2 DEF OpenFails, app
<1>8. CASE OpenEof
  BY <1>8 DEF OpenEof, OpenFails, app
<1>9. ASSUME NEW n \in ReadSizes, ReadHttpGet(n) PROVE SocketInv'
  <2>1. /\ pc = "idle" /\ handle = "get" /\ pc' \in {"read", "body", pc}
        /\ UNCHANGED <<sock, handle>>
    BY <1>9 DEF ReadHttpGet, ReadOn
  <2>2. QED
    BY <2>1
<1>10. CASE ReadData
  <2>1. pc = "read" /\ pc' \in {"read", "body", "idle"} /\ UNCHANGED <<sock, handle>>
    BY <1>10 DEF ReadData, ReadOn, app
  <2>2. QED
    BY <2>1
<1>11. CASE ReadEof
  <2>1. pc = "read" /\ pc' \in {"body", "idle"} /\ UNCHANGED <<sock, handle>>
    BY <1>11 DEF ReadEof, app
  <2>2. QED
    BY <2>1
<1>12. CASE Deliver
  BY <1>12 DEF Deliver
<1>13. ASSUME NEW r \in {"TIMEDOUT", "SOCKET_ERROR"}, RecvFails(r) PROVE SocketInv'
  BY <1>13, RecvSockets DEF RecvFails
<1>14. ASSUME NEW r \in {"TIMEDOUT", "SOCKET_ERROR"}, OpenSockFails(r) PROVE SocketInv'
  BY <1>14 DEF OpenSockFails, OpenFails, app
<1>15. ASSUME NEW r \in {"TIMEDOUT", "SOCKET_ERROR"}, ReadFails(r) PROVE SocketInv'
  BY <1>15 DEF ReadFails, app
<1>16. CASE CancelHttpGet
  BY <1>16 DEF CancelHttpGet
<1>17. CASE CloseHttpGet
  BY <1>17 DEF CloseHttpGet
<1>18. ASSUME NEW d \in Bodies, WriteHttpPost(d) PROVE SocketInv'
  <2>1. pc = "idle" /\ handle = "post" /\ pc' = "write" /\ UNCHANGED <<op, sock, app>>
    BY <1>18 DEF WriteHttpPost
  <2>2. QED
    BY <2>1 DEF app
<1>19. CASE WriteReturns
  <2>1. pc = "write" /\ pc' = "idle" /\ UNCHANGED <<op, sock, app>>
    BY <1>19 DEF WriteReturns
  <2>2. QED
    BY <2>1 DEF app
<1>20. CASE CloseHttpPost
  <2>1. /\ pc = "idle" /\ handle = "post" /\ op' = "ClosePost" /\ pc' \in {"last", "recv"}
        /\ UNCHANGED <<sock, app>>
    BY <1>20 DEF CloseHttpPost
  <2>2. QED
    BY <2>1 DEF app
<1>21. CASE LastReturns
  <2>1. pc = "last" /\ pc' = "recv" /\ UNCHANGED <<op, sock, app>>
    BY <1>21 DEF LastReturns
  <2>2. QED
    BY <2>1 DEF app
<1>22. CASE PeerCloses
  BY <1>22 DEF PeerCloses, app
<1>23. CASE UNCHANGED vars
  BY <1>23 DEF vars
<1>24. QED
  BY <1>1, <1>2, <1>3, <1>4, <1>5, <1>6, <1>7, <1>8, <1>9, <1>10, <1>11, <1>12, <1>13, <1>14,
     <1>15, <1>16, <1>17, <1>18, <1>19, <1>20, <1>21, <1>22, <1>23 DEF Next

(***************************************************************************)
(* Whatever a peer sends, in whatever pieces, whatever fails, times out or *)
(* is cancelled: between calls a socket of httpreadwrite.c is open exactly *)
(* while the application holds the handle of a get or a post, except after *)
(* an http_OpenHttpGet or http_OpenHttpGetEx that reports a bad response.  *)
(***************************************************************************)
THEOREM SocketsAreClosed == Spec => []SocketsClosed
<1>1. Init => SocketInv
  BY DEF Init, SocketInv
<1>2. SocketInv => SocketsClosed
  BY DEF SocketInv, SocketsClosed
<1>3. QED
  BY <1>1, <1>2, SocketStep, PTL DEF Spec

-----------------------------------------------------------------------------
(***************************************************************************)
(* The scanner.  Its loops are functions of the cursor that call           *)
(* themselves further on, so they are defined, and a fact that holds at    *)
(* every place if it holds further on holds everywhere.                    *)
(***************************************************************************)

(* Induction from the end of a text to its start. *)
LEMMA DownInduction ==
    ASSUME NEW N \in Nat, NEW S, \A c \in 0 .. N : (\A d \in c + 1 .. N : d \in S) => c \in S
    PROVE  \A c \in 0 .. N : c \in S
<1> DEFINE T == {m \in Nat : \A c \in 0 .. N : c + m >= N => c \in S}
<1>1. 0 \in T
  OBVIOUS
<1>2. ASSUME NEW m \in Nat, m \in T PROVE m + 1 \in T
  <2> SUFFICES ASSUME NEW c \in 0 .. N, c + (m + 1) >= N PROVE c \in S
    OBVIOUS
  <2>1. \A d \in c + 1 .. N : d \in S
    BY <1>2
  <2>2. QED
    BY <2>1
<1>3. N \in T
  <2> HIDE DEF T
  <2> QED
    BY <1>1, <1>2, SetInduction
<1>4. QED
  BY <1>3

(* A loop over 0 .. N: it has the result res[c] where it stops, and goes   *)
(* on from c at go[c].                                                     *)
Loop(f, N, stop, res, go) == f = [c \in 0 .. N |-> IF c \in stop THEN res[c] ELSE f[go[c]]]

(* A loop that only goes on further exists. *)
LEMMA LoopExists ==
    ASSUME NEW N \in Nat, NEW stop, NEW res, NEW go,
           \A c \in 0 .. N : c \notin stop => go[c] \in c + 1 .. N
    PROVE  \E f : Loop(f, N, stop, res, go)
<1> DEFINE Eq(f, m) == f = [c \in N - m .. N |-> IF c \in stop THEN res[c] ELSE f[go[c]]]
           S == {m \in Nat : m <= N => \E f : Eq(f, m)}
<1>1. 0 \in S
  <2>1. Eq([c \in N - 0 .. N |-> res[c]], 0)
    OBVIOUS
  <2>2. QED
    BY <2>1
<1>2. ASSUME NEW m \in Nat, m \in S PROVE m + 1 \in S
  <2> SUFFICES ASSUME m + 1 <= N PROVE \E f : Eq(f, m + 1)
    <3> HIDE DEF Eq
    <3> QED
      OBVIOUS
  <2>1. PICK f : Eq(f, m)
    <3> HIDE DEF Eq
    <3> QED
      BY <1>2
  <2> DEFINE e == N - (m + 1)
             g == [c \in e .. N |-> IF c > e THEN f[c] ELSE IF c \in stop THEN res[c] ELSE f[go[c]]]
  <2>2. \A c \in e + 1 .. N : g[c] = f[c]
    OBVIOUS
  <2>3. \A c \in e .. N : g[c] = IF c \in stop THEN res[c] ELSE g[go[c]]
    <3> SUFFICES ASSUME NEW c \in e .. N PROVE g[c] = IF c \in stop THEN res[c] ELSE g[go[c]]
      OBVIOUS
    <3>1. c \notin stop => go[c] \in e + 1 .. N
      OBVIOUS
    <3>2. c \notin stop => g[go[c]] = f[go[c]]
      BY <2>2, <3>1
    <3>3. CASE c > e
      <4>1. c \in N - m .. N /\ g[c] = f[c]
        BY <3>3
      <4>2. f[c] = IF c \in stop THEN res[c] ELSE f[go[c]]
        BY <2>1, <4>1
      <4>3. QED
        BY <3>2, <4>1, <4>2
    <3>4. CASE c = e
      <4>1. g[c] = IF c \in stop THEN res[c] ELSE f[go[c]]
        BY <3>4
      <4>2. QED
        BY <3>2, <4>1
    <3>5. QED
      BY <3>3, <3>4
  <2>4. Eq(g, m + 1)
    <3>1. g = [c \in e .. N |-> g[c]]
      OBVIOUS
    <3> HIDE DEF g
    <3>2. QED
      BY <2>3, <3>1
  <2>5. QED
    <3> HIDE DEF Eq, g
    <3> QED
      BY <2>4
<1>3. \E f : Eq(f, N)
  <2> HIDE DEF Eq
  <2>1. N \in S
    <3> HIDE DEF S
    <3> QED
      BY <1>1, <1>2, SetInduction
  <2>2. QED
    BY <2>1
<1>4. PICK f : Eq(f, N)
  BY <1>3
<1>5. Loop(f, N, stop, res, go)
  BY <1>4 DEF Loop
<1>6. QED
  BY <1>5

(* The end of a quoted string, after one more of its characters. *)
LEMMA QuotedUnfolds ==
    ASSUME NEW buf, Len(buf) \in Nat
    PROVE  \A i \in 0 .. Len(buf) + 1 :
             QuotedFrom(buf)[i] =
               IF i >= Len(buf) THEN Result("INCOMPLETE", i, <<>>)
               ELSE IF buf[i + 1] = "QUOTE" THEN Result("OK", i + 1, <<>>)
               ELSE IF buf[i + 1] = "BACKSLASH" THEN QuotedFrom(buf)[i + 2]
               ELSE IF IsQdtextChar(buf[i + 1]) THEN QuotedFrom(buf)[i + 1]
               ELSE Result("FAILURE", i, <<>>)
<1> DEFINE N == Len(buf) + 1
           Goes(i) == i < Len(buf) /\ buf[i + 1] # "QUOTE"
                      /\ (buf[i + 1] = "BACKSLASH" \/ IsQdtextChar(buf[i + 1]))
           stop == {i \in 0 .. N : ~Goes(i)}
           go   == [i \in 0 .. N |-> IF buf[i + 1] = "BACKSLASH" THEN i + 2 ELSE i + 1]
           res  == [i \in 0 .. N |-> IF i >= Len(buf) THEN Result("INCOMPLETE", i, <<>>)
                                     ELSE IF buf[i + 1] = "QUOTE" THEN Result("OK", i + 1, <<>>)
                                     ELSE Result("FAILURE", i, <<>>)]
           Body(f, i) == IF i >= Len(buf) THEN Result("INCOMPLETE", i, <<>>)
                         ELSE IF buf[i + 1] = "QUOTE" THEN Result("OK", i + 1, <<>>)
                         ELSE IF buf[i + 1] = "BACKSLASH" THEN f[i + 2]
                         ELSE IF IsQdtextChar(buf[i + 1]) THEN f[i + 1]
                         ELSE Result("FAILURE", i, <<>>)
           Eq(f) == f = [i \in 0 .. N |-> Body(f, i)]
<1>1. \A f : \A i \in 0 .. N : Body(f, i) = IF i \in stop THEN res[i] ELSE f[go[i]]
  OBVIOUS
<1>2. \A i \in 0 .. N : i \notin stop => go[i] \in i + 1 .. N
  OBVIOUS
<1>3. \E f : Eq(f)
  <2>0. N \in Nat
    OBVIOUS
  <2> HIDE DEF N, stop, go, res, Body
  <2>1. PICK f : Loop(f, N, stop, res, go)
    BY <1>2, <2>0, LoopExists
  <2>2. Eq(f)
    BY <1>1, <2>1 DEF Loop
  <2>3. QED
    BY <2>2
<1>4. QuotedFrom(buf) = CHOOSE f : Eq(f)
  BY DEF QuotedFrom
<1>5. Eq(QuotedFrom(buf))
  <2> HIDE DEF Eq
  <2> QED
    BY <1>3, <1>4
<1>6. QED
  BY <1>5

(* It lies inside the text. *)
LEMMA QuotedInside ==
    ASSUME NEW buf, Len(buf) \in Nat, NEW i \in 0 .. Len(buf)
    PROVE  /\ QuotedEnd(buf, i).status \in {"OK", "INCOMPLETE", "FAILURE"}
           /\ QuotedEnd(buf, i).status = "OK" => QuotedEnd(buf, i).cursor \in i + 1 .. Len(buf)
<1> DEFINE N == Len(buf) + 1
           Q == QuotedFrom(buf)
           S == {c \in 0 .. N : /\ Q[c].status \in {"OK", "INCOMPLETE", "FAILURE"}
                                /\ Q[c].status = "OK" => Q[c].cursor \in c + 1 .. Len(buf)}
<1>1. \A c \in 0 .. N : Q[c] =
               IF c >= Len(buf) THEN Result("INCOMPLETE", c, <<>>)
               ELSE IF buf[c + 1] = "QUOTE" THEN Result("OK", c + 1, <<>>)
               ELSE IF buf[c + 1] = "BACKSLASH" THEN Q[c + 2]
               ELSE IF IsQdtextChar(buf[c + 1]) THEN Q[c + 1]
               ELSE Result("FAILURE", c, <<>>)
  BY QuotedUnfolds
<1> HIDE DEF Q
<1>2. ASSUME NEW c \in 0 .. N, \A d \in c + 1 .. N : d \in S PROVE c \in S
  <2>1. \A s, n : Result(s, n, <<>>).status = s /\ Result(s, n, <<>>).cursor = n
    BY DEF Result
  <2>2. CASE c >= Len(buf)
    BY <1>1, <2>1, <2>2
  <2>3. CASE c < Len(buf)
    <3>1. c + 1 \in S /\ c + 2 \in S
      BY <1>2, <2>3
    <3>2. \/ Q[c] = Q[c + 1] \/ Q[c] = Q[c + 2]
          \/ Q[c] = Result("OK", c + 1, <<>>) \/ Q[c] = Result("FAILURE", c, <<>>)
      BY <1>1, <2>3
    <3>3. QED
      BY <2>1, <2>3, <3>1, <3>2
  <2>4. QED
    BY <2>2, <2>3
<1>3. \A c \in 0 .. N : c \in S
  <2>1. N \in Nat
    OBVIOUS
  <2> HIDE DEF N, S
  <2> QED
    BY <1>2, <2>1, DownInduction
<1>4. QED
  BY <1>3 DEF QuotedEnd, Q

(* The end of a run of the characters of one class. *)
ClassEnd(buf, i, c) == RunEnd(buf, i, LAMBDA s : Class(s) = c)

(* It is where the run began or later, inside the text. *)
LEMMA RunInside ==
    ASSUME NEW buf, Len(buf) \in Nat, NEW i \in 0 .. Len(buf), NEW c
    PROVE  /\ ClassEnd(buf, i, c) \in i .. Len(buf)
           /\ i < Len(buf) /\ Class(buf[i + 1]) = c => ClassEnd(buf, i, c) > i
<1> DEFINE End(j) == /\ \A k \in i .. j - 1 : Class(buf[k + 1]) = c
                     /\ j = Len(buf) \/ ~(Class(buf[j + 1]) = c)
           S == {j \in i .. Len(buf) : j = Len(buf) \/ Class(buf[j + 1]) # c}
           e == ClassEnd(buf, i, c)
<1>1. e = CHOOSE j \in i .. Len(buf) : End(j)
  BY DEF RunEnd, ClassEnd
<1>2. \E j \in i .. Len(buf) : End(j)
  <2>1. S \subseteq Nat /\ Len(buf) \in S
    OBVIOUS
  <2>2. PICK j \in S : \A k \in S : j <= k
    <3> HIDE DEF S
    <3> QED
      BY <2>1, LeastElement
  <2>3. ASSUME NEW k \in i .. j - 1 PROVE Class(buf[k + 1]) = c
    <3>1. j \in i .. Len(buf)
      BY <2>2
    <3>2. k \in i .. Len(buf) /\ k < j /\ k # Len(buf)
      BY <3>1
    <3>3. k \notin S
      BY <2>2, <3>1, <3>2
    <3>4. QED
      BY <3>2, <3>3
  <2>4. j \in i .. Len(buf) /\ End(j)
    BY <2>2, <2>3
  <2>5. QED
    <3> HIDE DEF End
    <3> QED
      BY <2>4
<1>3. e \in i .. Len(buf) /\ End(e)
  <2> HIDE DEF End, e
  <2> QED
    BY <1>1, <1>2
<1>4. QED
  <2> HIDE DEF e
  <2>1. i < Len(buf) /\ Class(buf[i + 1]) = c => e > i
    BY <1>3
  <2>2. e \in i .. Len(buf)
    BY <1>3
  <2>3. QED
    BY <2>1, <2>2 DEF e

(* What GetToken yields at c, in a text of length n: a token is not empty  *)
(* and ends inside the text; without one the cursor stays.                 *)
TokenAt(t, c, n) ==
  /\ t.status \in {"OK", "INCOMPLETE", "FAILURE"}
  /\ t.cursor \in c .. n
  /\ t.status = "OK" => t.cursor > c
  /\ t.status # "OK" => t.cursor = c

(* Tokens and their absence. *)
LEMMA TokenForms ==
    /\ \A c, n \in Nat : \A type : \A l \in 1 .. n - c : TokenAt(Token(c, type, l), c, n)
    /\ \A c \in Nat : \A n \in Nat : \A s \in {"INCOMPLETE", "FAILURE"} : c <= n => TokenAt(NoToken(s, c), c, n)
<1>1. ASSUME NEW c \in Nat, NEW n \in Nat, NEW type, NEW l \in 1 .. n - c PROVE TokenAt(Token(c, type, l), c, n)
  BY DEF TokenAt, Token
<1>2. ASSUME NEW c \in Nat, NEW n \in Nat, NEW s \in {"INCOMPLETE", "FAILURE"}, c <= n PROVE TokenAt(NoToken(s, c), c, n)
  <2> DEFINE t == NoToken(s, c)
  <2>1. t.status = s /\ t.cursor = c
    BY DEF NoToken
  <2> HIDE DEF t
  <2>2. TokenAt(t, c, n)
    BY <1>2, <2>1 DEF TokenAt
  <2>3. QED
    BY <2>2 DEF t
<1>3. QED
  BY <1>1, <1>2

(* A character is of one of the classes. *)
LEMMA Classes ==
    ASSUME NEW s
    PROVE  Class(s) \in {"ws", "cr", "lf", "quote", "separator", "control", "high", "identifier"}
<1>1. CASE s \in {"SP", "HT"} \cup {"CR", "LF", "QUOTE", "CTRL", "HIGH"} \cup {":", "/", ";", ",", "BACKSLASH"}
  BY <1>1 DEF Class
<1>2. CASE s \notin {"SP", "HT"} \cup {"CR", "LF", "QUOTE", "CTRL", "HIGH"} \cup {":", "/", ";", ",", "BACKSLASH"}
  <2>1. Class(s) = "identifier"
    BY <1>2 DEF Class
  <2>2. QED
    BY <2>1
<1>3. QED
  BY <1>1, <1>2

(* scanner_get_token stays inside the text. *)
LEMMA TokenInside ==
    ASSUME NEW buf, Len(buf) \in Nat, NEW c \in 0 .. Len(buf), NEW all
    PROVE  TokenAt(GetToken(buf, c, all), c, Len(buf))
<1> DEFINE n == Len(buf)
           cl == Class(buf[c + 1])
<1>1. CASE c = n
  <2>1. TokenAt(NoToken("INCOMPLETE", c), c, n)
    BY <1>1, TokenForms
  <2>2. QED
    BY <1>1, <2>1 DEF GetToken
<1>2. CASE c # n
  <2>0. c \in Nat /\ n \in Nat /\ c < n /\ c + 1 \in 0 .. n
    BY <1>2
  <2>1. GetToken(buf, c, all) = TokenOf(buf, c, all, cl)
    BY <1>2 DEF GetToken
  <2>2. cl \in {"ws", "cr", "lf", "quote", "separator", "control", "high", "identifier"}
    BY Classes
  <2>3. NoToken("INCOMPLETE", c).status = "INCOMPLETE" /\ TokenAt(NoToken("INCOMPLETE", c), c, n)
        /\ TokenAt(NoToken("FAILURE", c), c, n)
    BY <2>0, TokenForms DEF NoToken
  <2>4. \A type : \A l \in 1 .. n - c : TokenAt(Token(c, type, l), c, n)
    BY <2>0, TokenForms
  <2>5. CASE cl \in {"identifier", "ws"}
    <3> DEFINE e == ClassEnd(buf, c, cl)
    <3>1. e \in c .. n /\ e > c
      BY <2>0, RunInside
    <3>2. TokenOf(buf, c, all, cl) = RunToken(c, cl, e, n, all)
      BY <2>5 DEF TokenOf, ClassEnd, RunEnd
    <3> HIDE DEF e
    <3>3. e - c \in 1 .. n - c
      BY <3>1, <2>0
    <3>4. QED
      BY <2>1, <2>3, <2>4, <3>2, <3>3 DEF RunToken
  <2>6. CASE cl = "cr"
    <3>1. TokenOf(buf, c, all, cl) = CrToken(buf, c)
      BY <2>6 DEF TokenOf
    <3>2. c + 1 # n => 2 \in 1 .. n - c
      BY <2>0
    <3>3. 1 \in 1 .. n - c
      BY <2>0
    <3>4. QED
      BY <2>1, <2>3, <2>4, <3>1, <3>2, <3>3 DEF CrToken
  <2>7. CASE cl = "quote"
    <3> DEFINE q == QuotedEnd(buf, c + 1)
    <3>1. TokenOf(buf, c, all, cl) = QuotedToken(c, q)
      BY <2>7 DEF TokenOf
    <3>2. /\ q.status \in {"OK", "INCOMPLETE", "FAILURE"}
          /\ q.status = "OK" => q.cursor \in c + 2 .. n
      <4> DEFINE i == c + 1
      <4>1. i \in 0 .. Len(buf)
        BY <2>0
      <4> HIDE DEF i
      <4>2. /\ QuotedEnd(buf, i).status \in {"OK", "INCOMPLETE", "FAILURE"}
            /\ QuotedEnd(buf, i).status = "OK" => QuotedEnd(buf, i).cursor \in i + 1 .. Len(buf)
        BY <4>1, QuotedInside
      <4>3. QED
        BY <4>2 DEF i
    <3> HIDE DEF q
    <3>3. q.status = "OK" => q.cursor - c \in 1 .. n - c
      BY <3>2, <2>0
    <3>4. QED
      BY <2>1, <2>3, <2>4, <3>1, <3>2, <3>3 DEF QuotedToken
  <2>8. CASE cl \in {"lf", "separator", "control"}
    <3>1. TokenOf(buf, c, all, cl) = Token(c, IF cl = "lf" THEN "crlf" ELSE cl, 1)
      BY <2>8 DEF TokenOf
    <3>2. 1 \in 1 .. n - c
      BY <2>0
    <3>3. QED
      BY <2>1, <2>4, <3>1, <3>2
  <2>9. CASE cl = "high"
    <3>1. TokenOf(buf, c, all, cl) = NoToken("FAILURE", c)
      BY <2>9 DEF TokenOf
    <3>2. QED
      BY <2>1, <2>3, <3>1
  <2>10. QED
    BY <2>2, <2>5, <2>6, <2>7, <2>8, <2>9
<1>3. QED
  BY <1>1, <1>2

(* What the loops of the scanner yield from c on: they end inside the      *)
(* text; and what a step of one yields, which goes on only further.        *)
EndAt(e, c, n)  == e.status \in {"OK", "INCOMPLETE", "FAILURE"} /\ e.cursor \in c .. n
StepAt(t, c, n) == EndAt(t, c, n) /\ (t.status = "OK" => t.cursor > c)

(* The next token of the kind looked for, after one more token. *)
LEMMA UntilUnfolds ==
    ASSUME NEW buf, Len(buf) \in Nat, NEW all, NEW Stop
    PROVE  \A c \in 0 .. Len(buf) : UntilFrom(buf, all, Stop)[c] = IF GetToken(buf, c, all).status = "OK" /\ GetToken(buf, c, all).type \notin Stop
                     THEN UntilFrom(buf, all, Stop)[GetToken(buf, c, all).cursor]
                     ELSE Result(GetToken(buf, c, all).status, c, <<>>)
<1> DEFINE N == Len(buf)
           stop == {c \in 0 .. N : ~(GetToken(buf, c, all).status = "OK" /\ GetToken(buf, c, all).type \notin Stop)}
           go   == [c \in 0 .. N |-> GetToken(buf, c, all).cursor]
           res  == [c \in 0 .. N |-> Result(GetToken(buf, c, all).status, c, <<>>)]
           Body(f, c) == IF GetToken(buf, c, all).status = "OK" /\ GetToken(buf, c, all).type \notin Stop
                     THEN f[GetToken(buf, c, all).cursor]
                     ELSE Result(GetToken(buf, c, all).status, c, <<>>)
           Eq(f) == f = [c \in 0 .. N |-> Body(f, c)]
<1>0. \A c \in 0 .. N : TokenAt(GetToken(buf, c, all), c, N)
  BY TokenInside
<1>1. \A f : \A c \in 0 .. N : Body(f, c) = IF c \in stop THEN res[c] ELSE f[go[c]]
  OBVIOUS
<1>2. \A c \in 0 .. N : c \notin stop => go[c] \in c + 1 .. N
  BY <1>0 DEF TokenAt, EndAt, StepAt
<1>3. \E f : Eq(f)
  <2>0. N \in Nat
    OBVIOUS
  <2> HIDE DEF N, stop, go, res, Body
  <2>1. PICK f : Loop(f, N, stop, res, go)
    BY <1>2, <2>0, LoopExists
  <2>2. Eq(f)
    BY <1>1, <2>1 DEF Loop
  <2>3. QED
    BY <2>2
<1>4. UntilFrom(buf, all, Stop) = CHOOSE f : Eq(f)
  BY DEF UntilFrom
<1>5. Eq(UntilFrom(buf, all, Stop))
  <2> HIDE DEF Eq
  <2> QED
    BY <1>3, <1>4
<1>6. QED
  BY <1>5

(* It lies inside the text. *)
LEMMA UntilInside ==
    ASSUME NEW buf, Len(buf) \in Nat, NEW all, NEW Stop, NEW i \in 0 .. Len(buf)
    PROVE  EndAt(UntilToken(buf, i, all, Stop), i, Len(buf))
<1> DEFINE N == Len(buf)
           U == UntilFrom(buf, all, Stop)
           t(c) == GetToken(buf, c, all)
           S == {c \in 0 .. N : EndAt(U[c], c, N)}
<1>1. \A c \in 0 .. N : U[c] = IF t(c).status = "OK" /\ t(c).type \notin Stop THEN U[t(c).cursor]
                               ELSE Result(t(c).status, c, <<>>)
  BY UntilUnfolds
<1>2. \A c \in 0 .. N : TokenAt(t(c), c, N)
  BY TokenInside
<1> HIDE DEF U, t
<1>3. ASSUME NEW c \in 0 .. N, \A d \in c + 1 .. N : d \in S PROVE c \in S
  <2>1. CASE t(c).status = "OK" /\ t(c).type \notin Stop
    <3>1. t(c).cursor \in c + 1 .. N
      BY <1>2, <2>1 DEF TokenAt
    <3>2. EndAt(U[t(c).cursor], t(c).cursor, N)
      BY <1>3, <3>1
    <3>3. QED
      BY <1>1, <2>1, <3>1, <3>2 DEF EndAt
  <2>2. CASE ~(t(c).status = "OK" /\ t(c).type \notin Stop)
    <3>1. U[c] = Result(t(c).status, c, <<>>)
      BY <1>1, <2>2
    <3>2. U[c].status = t(c).status /\ U[c].cursor = c
      BY <3>1 DEF Result
    <3>3. QED
      BY <1>2, <3>2 DEF EndAt, TokenAt
  <2>3. QED
    BY <2>1, <2>2
<1>4. \A c \in 0 .. N : c \in S
  <2> HIDE DEF S
  <2> QED
    BY <1>3, DownInduction
<1>5. QED
  BY <1>4 DEF UntilToken, U

(* The token after white space's line end, if there is one. *)
LEMMA LineEndInside ==
    ASSUME NEW buf, Len(buf) \in Nat, NEW all, NEW c \in 0 .. Len(buf)
    PROVE  StepAt(AfterLineEnd(buf, all, GetToken(buf, c, all)), c, Len(buf))
<1> DEFINE t == GetToken(buf, c, all)
           u == GetToken(buf, t.cursor, all)
<1>1. TokenAt(t, c, Len(buf))
  BY TokenInside
<1>2. t.cursor \in 0 .. Len(buf) /\ c \in 0 .. Len(buf)
  BY <1>1 DEF TokenAt
<1>3. TokenAt(u, t.cursor, Len(buf))
  <2> HIDE DEF t
  <2> QED
    BY <1>2, TokenInside
<1> HIDE DEF u
<1>4. AfterLineEnd(buf, all, t) = t \/ (t.status = "OK" /\ AfterLineEnd(buf, all, t) = u)
  BY DEF AfterLineEnd, u
<1> HIDE DEF t
<1>5. StepAt(t, c, Len(buf))
  BY <1>1 DEF StepAt, EndAt, TokenAt
<1>6. t.status = "OK" => StepAt(u, c, Len(buf))
  BY <1>1, <1>2, <1>3 DEF StepAt, EndAt, TokenAt
<1>7. StepAt(AfterLineEnd(buf, all, t), c, Len(buf))
  BY <1>4, <1>5, <1>6
<1>8. QED
  BY <1>7 DEF t

(* White space, after one more run of it. *)
LEMMA LwsUnfolds ==
    ASSUME NEW buf, Len(buf) \in Nat, NEW all
    PROVE  \A c \in 0 .. Len(buf) : LwsFrom(buf, all)[c] = IF AfterLineEnd(buf, all, GetToken(buf, c, all)).status = "OK" /\ AfterLineEnd(buf, all, GetToken(buf, c, all)).type = "ws"
                     THEN LwsFrom(buf, all)[AfterLineEnd(buf, all, GetToken(buf, c, all)).cursor]
                     ELSE Result(IF AfterLineEnd(buf, all, GetToken(buf, c, all)).status = "INCOMPLETE" /\ all THEN "OK"
                                 ELSE AfterLineEnd(buf, all, GetToken(buf, c, all)).status, c, <<>>)
<1> DEFINE N == Len(buf)
           t(c) == AfterLineEnd(buf, all, GetToken(buf, c, all))
           stop == {c \in 0 .. N : ~(t(c).status = "OK" /\ t(c).type = "ws")}
           go   == [c \in 0 .. N |-> t(c).cursor]
           res  == [c \in 0 .. N |-> Result(IF t(c).status = "INCOMPLETE" /\ all THEN "OK" ELSE t(c).status, c, <<>>)]
           Body(f, c) == IF AfterLineEnd(buf, all, GetToken(buf, c, all)).status = "OK" /\ AfterLineEnd(buf, all, GetToken(buf, c, all)).type = "ws"
                     THEN f[AfterLineEnd(buf, all, GetToken(buf, c, all)).cursor]
                     ELSE Result(IF AfterLineEnd(buf, all, GetToken(buf, c, all)).status = "INCOMPLETE" /\ all THEN "OK"
                                 ELSE AfterLineEnd(buf, all, GetToken(buf, c, all)).status, c, <<>>)
           Eq(f) == f = [c \in 0 .. N |-> Body(f, c)]
<1>0. \A c \in 0 .. N : StepAt(t(c), c, N)
  BY LineEndInside
<1>1. \A f : \A c \in 0 .. N : Body(f, c) = IF c \in stop THEN res[c] ELSE f[go[c]]
  OBVIOUS
<1>2. \A c \in 0 .. N : c \notin stop => go[c] \in c + 1 .. N
  BY <1>0 DEF TokenAt, EndAt, StepAt
<1>3. \E f : Eq(f)
  <2>0. N \in Nat
    OBVIOUS
  <2> HIDE DEF N, stop, go, res, Body
  <2>1. PICK f : Loop(f, N, stop, res, go)
    BY <1>2, <2>0, LoopExists
  <2>2. Eq(f)
    BY <1>1, <2>1 DEF Loop
  <2>3. QED
    BY <2>2
<1>4. LwsFrom(buf, all) = CHOOSE f : Eq(f)
  BY DEF LwsFrom
<1>5. Eq(LwsFrom(buf, all))
  <2> HIDE DEF Eq
  <2> QED
    BY <1>3, <1>4
<1>6. QED
  BY <1>5

(* skip_lws stays inside the text. *)
LEMMA LwsInside ==
    ASSUME NEW buf, Len(buf) \in Nat, NEW all, NEW i \in 0 .. Len(buf)
    PROVE  EndAt(SkipLws(buf, i, all), i, Len(buf))
<1> DEFINE N == Len(buf)
           U == LwsFrom(buf, all)
           t(c) == AfterLineEnd(buf, all, GetToken(buf, c, all))
           S == {c \in 0 .. N : EndAt(U[c], c, N)}
<1>1. \A c \in 0 .. N : U[c] = IF t(c).status = "OK" /\ t(c).type = "ws" THEN U[t(c).cursor]
                               ELSE Result(IF t(c).status = "INCOMPLETE" /\ all THEN "OK"
                                           ELSE t(c).status, c, <<>>)
  BY LwsUnfolds
<1>2. \A c \in 0 .. N : StepAt(t(c), c, N)
  BY LineEndInside
<1> HIDE DEF U, t
<1>3. ASSUME NEW c \in 0 .. N, \A d \in c + 1 .. N : d \in S PROVE c \in S
  <2>1. CASE t(c).status = "OK" /\ t(c).type = "ws"
    <3>1. t(c).cursor \in c + 1 .. N
      BY <1>2, <2>1 DEF StepAt, EndAt
    <3>2. EndAt(U[t(c).cursor], t(c).cursor, N)
      BY <1>3, <3>1
    <3>3. QED
      BY <1>1, <2>1, <3>1, <3>2 DEF EndAt
  <2>2. CASE ~(t(c).status = "OK" /\ t(c).type = "ws")
    <3>1. U[c] = Result(t(c).status, c, <<>>) \/ U[c] = Result("OK", c, <<>>)
      BY <1>1, <2>2
    <3>2. U[c].status \in {t(c).status, "OK"} /\ U[c].cursor = c
      BY <3>1 DEF Result
    <3>3. QED
      BY <1>2, <3>2 DEF StepAt, EndAt
  <2>3. QED
    BY <2>1, <2>2
<1>4. \A c \in 0 .. N : c \in S
  <2> HIDE DEF S
  <2> QED
    BY <1>3, DownInduction
<1>5. QED
  BY <1>4 DEF SkipLws, U

(* The token after the next one. *)
LEMMA NextInside ==
    ASSUME NEW buf, Len(buf) \in Nat, NEW all, NEW c \in 0 .. Len(buf)
    PROVE  StepAt(AfterNextToken(buf, c, all), c, Len(buf))
<1> DEFINE t == GetToken(buf, c, all)
           u == GetToken(buf, t.cursor, all)
<1>1. TokenAt(t, c, Len(buf))
  BY TokenInside
<1>2. t.cursor \in 0 .. Len(buf) /\ c \in 0 .. Len(buf)
  BY <1>1 DEF TokenAt
<1>3. TokenAt(u, t.cursor, Len(buf))
  <2> HIDE DEF t
  <2> QED
    BY <1>2, TokenInside
<1>4. AfterNextToken(buf, c, all) = u
  BY DEF AfterNextToken
<1> HIDE DEF t, u
<1>5. StepAt(u, c, Len(buf))
  BY <1>1, <1>2, <1>3 DEF StepAt, EndAt, TokenAt
<1>6. QED
  BY <1>4, <1>5

(* A raw value, after one more of its lines. *)
LEMMA RawUnfolds ==
    ASSUME NEW buf, Len(buf) \in Nat, NEW all
    PROVE  \A c \in 0 .. Len(buf) : RawFrom(buf, all)[c] = IF UntilToken(buf, c, all, {"crlf"}).status # "OK" THEN UntilToken(buf, c, all, {"crlf"})
                     ELSE IF AfterNextToken(buf, UntilToken(buf, c, all, {"crlf"}).cursor, all).status # "OK"
                     THEN Result(AfterNextToken(buf, UntilToken(buf, c, all, {"crlf"}).cursor, all).status,
                                 UntilToken(buf, c, all, {"crlf"}).cursor, <<>>)
                     ELSE IF AfterNextToken(buf, UntilToken(buf, c, all, {"crlf"}).cursor, all).type = "ws"
                     THEN RawFrom(buf, all)[AfterNextToken(buf, UntilToken(buf, c, all, {"crlf"}).cursor, all).cursor]
                     ELSE UntilToken(buf, c, all, {"crlf"})
<1> DEFINE N == Len(buf)
           end(c)  == UntilToken(buf, c, all, {"crlf"})
           next(c) == AfterNextToken(buf, end(c).cursor, all)
           stop == {c \in 0 .. N : ~(end(c).status = "OK" /\ next(c).status = "OK" /\ next(c).type = "ws")}
           go   == [c \in 0 .. N |-> next(c).cursor]
           res  == [c \in 0 .. N |-> IF end(c).status = "OK" /\ next(c).status # "OK" THEN Result(next(c).status, end(c).cursor, <<>>) ELSE end(c)]
           Body(f, c) == IF UntilToken(buf, c, all, {"crlf"}).status # "OK" THEN UntilToken(buf, c, all, {"crlf"})
                     ELSE IF AfterNextToken(buf, UntilToken(buf, c, all, {"crlf"}).cursor, all).status # "OK"
                     THEN Result(AfterNextToken(buf, UntilToken(buf, c, all, {"crlf"}).cursor, all).status,
                                 UntilToken(buf, c, all, {"crlf"}).cursor, <<>>)
                     ELSE IF AfterNextToken(buf, UntilToken(buf, c, all, {"crlf"}).cursor, all).type = "ws"
                     THEN f[AfterNextToken(buf, UntilToken(buf, c, all, {"crlf"}).cursor, all).cursor]
                     ELSE UntilToken(buf, c, all, {"crlf"})
           Eq(f) == f = [c \in 0 .. N |-> Body(f, c)]
<1>0. \A c \in 0 .. N : EndAt(end(c), c, N) /\ StepAt(next(c), end(c).cursor, N)
  <2> TAKE c \in 0 .. N
  <2>1. EndAt(end(c), c, N)
    BY UntilInside
  <2>2. end(c).cursor \in 0 .. N
    BY <2>1 DEF EndAt
  <2> HIDE DEF end
  <2>3. QED
    BY <2>1, <2>2, NextInside
<1>1. \A f : \A c \in 0 .. N : Body(f, c) = IF c \in stop THEN res[c] ELSE f[go[c]]
  OBVIOUS
<1>2. \A c \in 0 .. N : c \notin stop => go[c] \in c + 1 .. N
  BY <1>0 DEF TokenAt, EndAt, StepAt
<1>3. \E f : Eq(f)
  <2>0. N \in Nat
    OBVIOUS
  <2> HIDE DEF N, stop, go, res, Body
  <2>1. PICK f : Loop(f, N, stop, res, go)
    BY <1>2, <2>0, LoopExists
  <2>2. Eq(f)
    BY <1>1, <2>1 DEF Loop
  <2>3. QED
    BY <2>2
<1>4. RawFrom(buf, all) = CHOOSE f : Eq(f)
  BY DEF RawFrom
<1>5. Eq(RawFrom(buf, all))
  <2> HIDE DEF Eq
  <2> QED
    BY <1>3, <1>4
<1>6. QED
  BY <1>5

(* It lies inside the text. *)
LEMMA RawInside ==
    ASSUME NEW buf, Len(buf) \in Nat, NEW all, NEW i \in 0 .. Len(buf)
    PROVE  EndAt(RawValueEnd(buf, i, all), i, Len(buf))
<1> DEFINE N == Len(buf)
           U == RawFrom(buf, all)
           end(c)  == UntilToken(buf, c, all, {"crlf"})
           next(c) == AfterNextToken(buf, end(c).cursor, all)
           S == {c \in 0 .. N : EndAt(U[c], c, N)}
<1>1. \A c \in 0 .. N : U[c] = IF end(c).status # "OK" THEN end(c)
                               ELSE IF next(c).status # "OK" THEN Result(next(c).status, end(c).cursor, <<>>)
                               ELSE IF next(c).type = "ws" THEN U[next(c).cursor]
                               ELSE end(c)
  BY RawUnfolds
<1>2. \A c \in 0 .. N : EndAt(end(c), c, N) /\ StepAt(next(c), end(c).cursor, N)
  <2> TAKE c \in 0 .. N
  <2>1. EndAt(end(c), c, N)
    BY UntilInside
  <2>2. end(c).cursor \in 0 .. N
    BY <2>1 DEF EndAt
  <2> HIDE DEF end
  <2>3. QED
    BY <2>1, <2>2, NextInside
<1> HIDE DEF U, end, next
<1>3. ASSUME NEW c \in 0 .. N, \A d \in c + 1 .. N : d \in S PROVE c \in S
  <2>1. CASE U[c] = U[next(c).cursor] /\ next(c).status = "OK"
    <3>1. next(c).cursor \in c + 1 .. N
      BY <1>2, <2>1 DEF StepAt, EndAt
    <3>2. EndAt(U[next(c).cursor], next(c).cursor, N)
      BY <1>3, <3>1
    <3>3. QED
      BY <2>1, <3>1, <3>2 DEF EndAt
  <2>2. CASE U[c] = Result(next(c).status, end(c).cursor, <<>>)
    <3>1. U[c].status = next(c).status /\ U[c].cursor = end(c).cursor
      BY <2>2 DEF Result
    <3>2. QED
      BY <1>2, <3>1 DEF StepAt, EndAt
  <2>3. CASE U[c] = end(c)
    BY <1>2, <2>3
  <2>4. QED
    BY <1>1, <2>1, <2>2, <2>3
<1>4. \A c \in 0 .. N : c \in S
  <2> HIDE DEF S
  <2> QED
    BY <1>3, DownInduction
<1>5. QED
  BY <1>4 DEF RawValueEnd, U

-----------------------------------------------------------------------------
(***************************************************************************)
(* Formats.  A match ends inside the text; some directives take at least   *)
(* one character, and some have a number or a text for their value.        *)
(***************************************************************************)

(* What messages consist of, with what the parser itself puts in headers. *)
Symbols == {",", "SP", "NUL"} \cup UNION {{m[k] : k \in 1 .. Len(m)} : m \in Responses \cup FewResponses \cup Requests}
Text    == Seq(Symbols)

(* A match that began at c, in a text of length n. *)
MatchAt(m, c, n) == m.status \in {"OK", "INCOMPLETE", "FAILURE", "NO_MATCH"} /\ m.cursor \in c .. n

(* The fields of a result. *)
LEMMA ResultIs ==
    \A s, c, v : Result(s, c, v).status = s /\ Result(s, c, v).cursor = c /\ Result(s, c, v).val = v
BY DEF Result

(* A number of digits is a number. *)
LEMMA NumberIs ==
    ASSUME NEW s, Len(s) \in Nat, NEW base \in {10, 16},
           \A i \in 1 .. Len(s) : s[i] \in DOMAIN Digits
    PROVE  NumberUpTo(s, base)[Len(s)] \in Nat
<1> DEFINE Eq(f, m) == f = [k \in 0 .. m |-> IF k = 0 THEN 0 ELSE f[k - 1] * base + Digits[s[k]]]
           S == {m \in Nat : \E f : Eq(f, m)}
<1>1. 0 \in S
  <2>1. Eq([k \in 0 .. 0 |-> 0], 0)
    OBVIOUS
  <2>2. QED
    BY <2>1
<1>2. ASSUME NEW m \in Nat, m \in S PROVE m + 1 \in S
  <2>1. PICK f : Eq(f, m)
    BY <1>2
  <2> DEFINE g == [k \in 0 .. m + 1 |-> IF k <= m THEN f[k] ELSE f[m] * base + Digits[s[k]]]
  <2>2. \A k \in 0 .. m : g[k] = f[k]
    OBVIOUS
  <2>3. \A k \in 0 .. m + 1 : g[k] = IF k = 0 THEN 0 ELSE g[k - 1] * base + Digits[s[k]]
    <3>1. TAKE k \in 0 .. m + 1
    <3>2. CASE k = m + 1
      BY <3>2, <2>2
    <3>3. CASE k \in 1 .. m
      <4>1. k \in 0 .. m /\ k - 1 \in 0 .. m /\ k # 0
        BY <3>3
      <4>2. f[k] = f[k - 1] * base + Digits[s[k]]
        BY <4>1, <2>1
      <4>3. QED
        BY <4>1, <4>2, <2>2
    <3>4. CASE k = 0
      BY <3>4, <2>1, <2>2
    <3>5. QED
      BY <3>2, <3>3, <3>4
  <2>4. Eq(g, m + 1)
    <3> HIDE DEF g
    <3> SUFFICES g = [k \in 0 .. m + 1 |-> g[k]]
      BY <2>3
    <3> QED
      BY DEF g
  <2>5. QED
    <3> HIDE DEF Eq, g
    <3> QED
      BY <2>4
<1>3. \E f : Eq(f, Len(s))
  <2> HIDE DEF Eq
  <2>1. Len(s) \in S
    <3> HIDE DEF S
    <3> QED
      BY <1>1, <1>2, SetInduction
  <2>2. QED
    BY <2>1
<1> DEFINE N == NumberUpTo(s, base)
           T == {k \in Nat : k <= Len(s) => N[k] \in Nat}
<1>4. N = CHOOSE f : Eq(f, Len(s))
  BY DEF NumberUpTo
<1>5. Eq(N, Len(s))
  <2> HIDE DEF Eq, N
  <2> QED
    BY <1>3, <1>4
<1> HIDE DEF N
<1>6. N[0] = 0 /\ \A k \in 1 .. Len(s) : N[k] = N[k - 1] * base + Digits[s[k]]
  BY <1>5
<1>7. \A d \in DOMAIN Digits : Digits[d] \in Nat
  BY DEF Digits
<1>8. 0 \in T
  BY <1>6
<1>9. ASSUME NEW k \in Nat, k \in T PROVE k + 1 \in T
  <2> SUFFICES ASSUME k + 1 <= Len(s) PROVE N[k + 1] \in Nat
    OBVIOUS
  <2>1. N[k] \in Nat /\ Digits[s[k + 1]] \in Nat
    BY <1>9, <1>7
  <2>2. N[k + 1] = N[k] * base + Digits[s[k + 1]]
    BY <1>6
  <2>3. CASE base = 10
    BY <2>1, <2>2, <2>3
  <2>4. CASE base = 16
    BY <2>1, <2>2, <2>4
  <2>5. QED
    BY <2>3, <2>4
<1>10. Len(s) \in T
  <2> HIDE DEF T
  <2> QED
    BY <1>8, <1>9, SetInduction
<1>11. QED
  BY <1>10 DEF N

(* strtol yields a number, and its conversion to int one that is no longer *)
(* than an int.                                                            *)
LEMMA LongIs ==
    ASSUME NEW s, Len(s) \in Nat, NEW base \in {10, 16}
    PROVE  ToLong(s, base) \in Int /\ RawToInt(s, base) \in Int
<1>1. CASE \A i \in 1 .. Len(s) : s[i] \in DOMAIN Digits /\ Digits[s[i]] < base
  <2>1. NumberUpTo(s, base)[Len(s)] \in Nat
    BY <1>1, NumberIs
  <2>2. ToLong(s, base) = NumberUpTo(s, base)[Len(s)] \/ ToLong(s, base) = -1
    BY <1>1 DEF ToLong
  <2>3. QED
    BY <2>1, <2>2 DEF RawToInt
<1>2. CASE ~ \A i \in 1 .. Len(s) : s[i] \in DOMAIN Digits /\ Digits[s[i]] < base
  <2>1. ToLong(s, base) = -1
    BY <1>2 DEF ToLong
  <2>2. QED
    BY <2>1 DEF RawToInt
<1>3. QED
  BY <1>1, <1>2

(* What is left of a number in an int. *)
LEMMA IntIs == \A n \in Int : ToInt(n) \in Nat
<1> DEFINE M == 2^IntBits
<1>1. M \in Nat /\ M > 0
  BY IntBitsAssumption
<1> HIDE DEF M
<1>2. \A n \in Int : n % M \in 0 .. M - 1
  BY <1>1
<1>3. QED
  BY <1>1, <1>2 DEF ToInt, M

(* Parts of a text. *)
LEMMA PartIs ==
    ASSUME NEW s \in Text, NEW c \in 0 .. Len(s), NEW e \in c .. Len(s)
    PROVE  SubSeq(s, c + 1, e) \in Text /\ Len(SubSeq(s, c + 1, e)) = e - c
<1>1. \A k \in c + 1 .. e : s[k] \in Symbols
  BY DEF Text
<1>2. QED
  BY <1>1, SubSeqProperties DEF Text

(* A text without the white space at its end is a text. *)
LEMMA TrimIs == ASSUME NEW s \in Text PROVE TrimRight(s) \in Text
<1> DEFINE keep == {i \in 1 .. Len(s) : Class(s[i]) \notin {"ws", "cr", "lf"}}
           End(n) == /\ keep \subseteq 1 .. n
                     /\ n = 0 \/ n \in keep
           B == {m \in Nat : \A i \in keep : i <= m}
           e == CHOOSE n \in 0 .. Len(s) : End(n)
<1>1. Len(s) \in Nat
  BY DEF Text
<1>2. \E n \in 0 .. Len(s) : End(n)
  <2>1. B \subseteq Nat /\ Len(s) \in B
    BY <1>1
  <2>2. PICK n \in B : \A m \in B : n <= m
    <3> HIDE DEF B
    <3> QED
      BY <2>1, LeastElement
  <2>3. n \in 0 .. Len(s) /\ keep \subseteq 1 .. n
    BY <1>1, <2>1, <2>2
  <2>4. n = 0 \/ n \in keep
    <3> SUFFICES ASSUME n # 0, n \notin keep PROVE FALSE
      OBVIOUS
    <3>1. \A i \in keep : i <= n - 1
      BY <1>1, <2>2, <2>3
    <3>2. n - 1 \in B
      BY <2>2, <2>3, <3>1
    <3>3. QED
      BY <2>2, <2>3, <3>2
  <2>5. End(n)
    BY <2>3, <2>4
  <2>6. QED
    <3> HIDE DEF End
    <3> QED
      BY <2>3, <2>5
<1>3. e \in 0 .. Len(s)
  <2> HIDE DEF End
  <2> QED
    BY <1>2
<1>4. TrimRight(s) = SubSeq(s, 1, e)
  BY DEF TrimRight
<1> HIDE DEF e
<1>5. SubSeq(s, 0 + 1, e) \in Text
  <2>1. 0 \in 0 .. Len(s)
    BY <1>1
  <2>2. QED
    BY <1>3, <2>1, PartIs
<1>6. QED
  BY <1>4, <1>5

(* A directive that asks for a token. *)
LEMMA TypeInside ==
    ASSUME NEW buf \in Text, NEW c \in 0 .. Len(buf), NEW all, NEW type
    PROVE  /\ MatchAt(MatchType(buf, c, all, type), c, Len(buf))
           /\ MatchType(buf, c, all, type).status = "OK" => MatchType(buf, c, all, type).cursor > c
<1> DEFINE t == GetToken(buf, c, all)
           st == IF t.status = "OK" /\ t.type # type THEN "NO_MATCH" ELSE t.status
<1>1. TokenAt(t, c, Len(buf))
  BY TokenInside DEF Text
<1>2. MatchType(buf, c, all, type) = Result(st, t.cursor, SubSeq(buf, c + 1, t.cursor))
  BY DEF MatchType
<1> HIDE DEF t
<1>3. MatchType(buf, c, all, type).status = st /\ MatchType(buf, c, all, type).cursor = t.cursor
  BY <1>2, ResultIs
<1>4. QED
  BY <1>1, <1>3 DEF MatchAt, TokenAt

(* A number. *)
LEMMA IntInside ==
    ASSUME NEW buf \in Text, NEW c \in 0 .. Len(buf), NEW all, NEW base \in {10, 16}
    PROVE  /\ MatchAt(MatchInt(buf, c, all, base), c, Len(buf))
           /\ MatchInt(buf, c, all, base).status = "OK" =>
                /\ MatchInt(buf, c, all, base).cursor > c
                /\ MatchInt(buf, c, all, base).val \in Nat
<1> DEFINE t == GetToken(buf, c, all)
           num == ToLong(SubSeq(buf, c + 1, t.cursor), base)
           m == MatchInt(buf, c, all, base)
<1>0. Len(buf) \in Nat
  BY DEF Text
<1>1. TokenAt(t, c, Len(buf))
  BY <1>0, TokenInside
<1>2. m = IF t.status # "OK" THEN Result(t.status, c, <<>>)
          ELSE IF t.type # "identifier" \/ num < 0 THEN Result("NO_MATCH", c, <<>>)
          ELSE Result("OK", t.cursor, ToInt(num))
  BY DEF MatchInt
<1>3. num \in Int
  <2>1. t.cursor \in c .. Len(buf)
    BY <1>1 DEF TokenAt
  <2> HIDE DEF t
  <2>2. Len(SubSeq(buf, c + 1, t.cursor)) \in Nat
    BY <1>0, <2>1, PartIs
  <2> DEFINE s == SubSeq(buf, c + 1, t.cursor)
  <2>3. Len(s) \in Nat
    BY <2>2
  <2> HIDE DEF s
  <2>4. ToLong(s, base) \in Int
    BY <2>3, LongIs
  <2>5. QED
    BY <2>4 DEF s
<1> HIDE DEF t, num, m
<1>4. ToInt(num) \in Nat
  BY <1>3, IntIs
<1>5. \/ m.status = t.status /\ t.status # "OK" /\ m.cursor = c
      \/ m.status = "NO_MATCH" /\ m.cursor = c
      \/ m.status = "OK" /\ t.status = "OK" /\ m.cursor = t.cursor /\ m.val = ToInt(num)
  BY <1>2, ResultIs
<1>6. MatchAt(m, c, Len(buf)) /\ (m.status = "OK" => m.cursor > c /\ m.val \in Nat)
  BY <1>0, <1>1, <1>4, <1>5 DEF MatchAt, TokenAt
<1>7. QED
  BY <1>6 DEF m

(* A raw value. *)
LEMMA RawValueInside ==
    ASSUME NEW buf \in Text, NEW c \in 0 .. Len(buf), NEW all
    PROVE  /\ MatchAt(MatchRawValue(buf, c, all), c, Len(buf))
           /\ MatchRawValue(buf, c, all).status = "OK" => MatchRawValue(buf, c, all).val \in Text
<1> DEFINE e == RawValueEnd(buf, c, all)
           v == TrimRight(SubSeq(buf, c + 1, e.cursor))
           m == MatchRawValue(buf, c, all)
<1>0. Len(buf) \in Nat
  BY DEF Text
<1>1. EndAt(e, c, Len(buf))
  BY <1>0, RawInside
<1>2. m = IF e.status = "OK" THEN Result("OK", e.cursor, v) ELSE Result(e.status, c, <<>>)
  BY DEF MatchRawValue
<1>3. v \in Text
  <2>1. e.cursor \in c .. Len(buf)
    BY <1>1 DEF EndAt
  <2> HIDE DEF e
  <2> DEFINE s == SubSeq(buf, c + 1, e.cursor)
  <2>2. s \in Text
    BY <2>1, PartIs
  <2> HIDE DEF s
  <2>3. TrimRight(s) \in Text
    BY <2>2, TrimIs
  <2>4. QED
    BY <2>3 DEF s
<1> HIDE DEF e, v, m
<1>4. \/ m.status = "OK" /\ m.cursor = e.cursor /\ m.val = v
      \/ m.status = e.status /\ m.status # "OK" /\ m.cursor = c
  BY <1>2, ResultIs
<1>5. MatchAt(m, c, Len(buf)) /\ (m.status = "OK" => m.val \in Text)
  BY <1>0, <1>1, <1>3, <1>4 DEF MatchAt, EndAt
<1>6. QED
  BY <1>5 DEF m

(* The other directives. *)
LEMMA OthersInside ==
    ASSUME NEW buf \in Text, NEW c \in 0 .. Len(buf), NEW all
    PROVE  /\ MatchAt(MatchNonWsString(buf, c, all), c, Len(buf))
           /\ MatchAt(ReadUntilCrlf(buf, c, all), c, Len(buf))
           /\ MatchAt(MatchOptionalWs(buf, c, all), c, Len(buf))
           /\ MatchAt(SkipLws(buf, c, all), c, Len(buf))
           /\ \A d : MatchAt(MatchChar(buf, c, d), c, Len(buf))
           /\ \A s \in {"OK", "NO_MATCH"} : MatchAt(Result(s, c, <<>>), c, Len(buf))
<1>0. Len(buf) \in Nat
  BY DEF Text
<1>1. MatchAt(MatchNonWsString(buf, c, all), c, Len(buf))
  <2> DEFINE e == UntilToken(buf, c, all, {"ws", "crlf"})
             m == MatchNonWsString(buf, c, all)
  <2>1. EndAt(e, c, Len(buf))
    BY <1>0, UntilInside
  <2>2. m = IF e.status = "OK" \/ (e.status = "INCOMPLETE" /\ all)
            THEN Result(IF e.cursor = c THEN "NO_MATCH" ELSE "OK", e.cursor, SubSeq(buf, c + 1, e.cursor))
            ELSE Result(e.status, c, <<>>)
    BY DEF MatchNonWsString
  <2> HIDE DEF e, m
  <2>3. m.status \in {"OK", "NO_MATCH", e.status} /\ m.cursor \in {c, e.cursor}
    BY <2>2, ResultIs
  <2>4. MatchAt(m, c, Len(buf))
    BY <1>0, <2>1, <2>3 DEF MatchAt, EndAt
  <2>5. QED
    BY <2>4 DEF m
<1>2. MatchAt(ReadUntilCrlf(buf, c, all), c, Len(buf))
  <2> DEFINE e == UntilToken(buf, c, all, {"crlf"})
             m == ReadUntilCrlf(buf, c, all)
  <2>1. EndAt(e, c, Len(buf))
    BY <1>0, UntilInside
  <2>2. m = Result(e.status, e.cursor, SubSeq(buf, c + 1, e.cursor))
    BY DEF ReadUntilCrlf
  <2> HIDE DEF e, m
  <2>3. m.status = e.status /\ m.cursor = e.cursor
    BY <2>2, ResultIs
  <2>4. MatchAt(m, c, Len(buf))
    BY <2>1, <2>3 DEF MatchAt, EndAt
  <2>5. QED
    BY <2>4 DEF m
<1>3. MatchAt(MatchOptionalWs(buf, c, all), c, Len(buf))
  <2> DEFINE t == GetToken(buf, c, all)
             m == MatchOptionalWs(buf, c, all)
  <2>1. TokenAt(t, c, Len(buf))
    BY <1>0, TokenInside
  <2>2. m = Result(t.status, IF t.type = "ws" THEN t.cursor ELSE c, <<>>)
    BY DEF MatchOptionalWs
  <2> HIDE DEF t, m
  <2>3. m.status = t.status /\ m.cursor \in {c, t.cursor}
    BY <2>2, ResultIs
  <2>4. MatchAt(m, c, Len(buf))
    BY <1>0, <2>1, <2>3 DEF MatchAt, TokenAt
  <2>5. QED
    BY <2>4 DEF m
<1>4. MatchAt(SkipLws(buf, c, all), c, Len(buf))
  <2>1. EndAt(SkipLws(buf, c, all), c, Len(buf))
    BY <1>0, LwsInside
  <2>2. QED
    BY <2>1 DEF EndAt, MatchAt
<1>5. ASSUME NEW d PROVE MatchAt(MatchChar(buf, c, d), c, Len(buf))
  <2> DEFINE m == MatchChar(buf, c, d)
  <2>1. CASE c >= Len(buf)
    <3>1. m = Result("INCOMPLETE", c, <<>>)
      BY <2>1 DEF MatchChar
    <3> HIDE DEF m
    <3>2. m.status = "INCOMPLETE" /\ m.cursor = c
      BY <3>1, ResultIs
    <3>3. MatchAt(m, c, Len(buf))
      BY <1>0, <3>2 DEF MatchAt
    <3>4. QED
      BY <3>3 DEF m
  <2>2. CASE c < Len(buf)
    <3>1. m = Result(IF buf[c + 1] = d THEN "OK" ELSE "NO_MATCH", c + 1, <<>>)
      BY <1>0, <2>2 DEF MatchChar
    <3> HIDE DEF m
    <3>2. m.status \in {"OK", "NO_MATCH"} /\ m.cursor = c + 1
      BY <3>1, ResultIs
    <3>3. MatchAt(m, c, Len(buf))
      BY <1>0, <2>2, <3>2 DEF MatchAt
    <3>4. QED
      BY <3>3 DEF m
  <2>3. QED
    BY <1>0, <2>1, <2>2
<1>6. ASSUME NEW s \in {"OK", "NO_MATCH"} PROVE MatchAt(Result(s, c, <<>>), c, Len(buf))
  <2> DEFINE m == Result(s, c, <<>>)
  <2>1. m.status = s /\ m.cursor = c
    BY ResultIs
  <2> HIDE DEF m
  <2>2. MatchAt(m, c, Len(buf))
    BY <1>0, <2>1 DEF MatchAt
  <2>3. QED
    BY <2>2 DEF m
<1>7. QED
  BY <1>1, <1>2, <1>3, <1>4, <1>5, <1>6

(* One directive. *)
LEMMA OneInside ==
    ASSUME NEW buf \in Text, NEW c \in 0 .. Len(buf), NEW all, NEW d
    PROVE  MatchAt(MatchOne(buf, c, all, d), c, Len(buf))
<1>1. CASE d \in {"%s", "%c", "\t"}
  <2>1. MatchOne(buf, c, all, d) = MatchType(buf, c, all, TypeFor(d))
    BY <1>1 DEF MatchOne
  <2>2. QED
    BY <2>1, TypeInside
<1>2. CASE d \in {"%d", "%x"}
  <2> DEFINE base == IF d = "%d" THEN 10 ELSE 16
  <2>1. MatchOne(buf, c, all, d) = MatchInt(buf, c, all, base)
    BY <1>2 DEF MatchOne
  <2>2. base \in {10, 16}
    OBVIOUS
  <2> HIDE DEF base
  <2>3. QED
    BY <2>1, <2>2, IntInside
<1>3. CASE d = "%0"
  <2>1. \E s \in {"OK", "NO_MATCH"} : MatchOne(buf, c, all, d) = Result(s, c, <<>>)
    BY <1>3 DEF MatchOne
  <2>2. QED
    BY <2>1, OthersInside
<1>4. CASE d \in {"%R", "%S", "%L", "%w", "LWS"}
  <2>1. MatchOne(buf, c, all, d) \in {MatchRawValue(buf, c, all), MatchNonWsString(buf, c, all),
          ReadUntilCrlf(buf, c, all), MatchOptionalWs(buf, c, all), SkipLws(buf, c, all)}
    BY <1>4 DEF MatchOne
  <2>2. QED
    BY <2>1, OthersInside, RawValueInside
<1>5. CASE d \notin {"%s", "%c", "\t", "%d", "%x", "%0", "%R", "%S", "%L", "%w", "LWS"}
  <2>1. MatchOne(buf, c, all, d) = MatchChar(buf, c, d)
    BY <1>5 DEF MatchOne
  <2>2. QED
    BY <2>1, OthersInside
<1>6. QED
  BY <1>1, <1>2, <1>3, <1>4, <1>5

(* A format, after one more directive. *)
LEMMA MatchUnfolds ==
    ASSUME NEW buf, NEW c, NEW all, NEW fmt, Len(fmt) \in Nat
    PROVE  /\ MatchAfter(buf, c, all, fmt)[0] = Result("OK", c, <<>>)
           /\ \A n \in 1 .. Len(fmt) : MatchAfter(buf, c, all, fmt)[n] = MatchNext(buf, all, fmt[n], MatchAfter(buf, c, all, fmt)[n - 1])
<1> DEFINE Eq(f, m) == f = [n \in 0 .. m |-> IF n = 0 THEN Result("OK", c, <<>>) ELSE MatchNext(buf, all, fmt[n], f[n - 1])]
           S == {m \in Nat : \E f : Eq(f, m)}
<1>1. 0 \in S
  <2>1. Eq([n \in 0 .. 0 |-> Result("OK", c, <<>>)], 0)
    OBVIOUS
  <2>2. QED
    BY <2>1
<1>2. ASSUME NEW m \in Nat, m \in S PROVE m + 1 \in S
  <2>1. PICK f : Eq(f, m)
    BY <1>2
  <2> DEFINE g == [n \in 0 .. m + 1 |-> IF n <= m THEN f[n] ELSE MatchNext(buf, all, fmt[n], f[m])]
  <2>2. \A n \in 0 .. m : g[n] = f[n]
    OBVIOUS
  <2>3. \A n \in 0 .. m + 1 : g[n] = IF n = 0 THEN Result("OK", c, <<>>) ELSE MatchNext(buf, all, fmt[n], g[n - 1])
    <3>1. TAKE n \in 0 .. m + 1
    <3>2. CASE n = m + 1
      BY <3>2, <2>2
    <3>3. CASE n \in 1 .. m
      <4>1. n \in 0 .. m /\ n - 1 \in 0 .. m /\ n # 0
        BY <3>3
      <4>2. f[n] = MatchNext(buf, all, fmt[n], f[n - 1])
        BY <4>1, <2>1
      <4>3. QED
        BY <4>1, <4>2, <2>2
    <3>4. CASE n = 0
      BY <3>4, <2>1, <2>2
    <3>5. QED
      BY <3>2, <3>3, <3>4
  <2>4. Eq(g, m + 1)
    <3> HIDE DEF g
    <3> SUFFICES g = [n \in 0 .. m + 1 |-> g[n]]
      BY <2>3
    <3> QED
      BY DEF g
  <2>5. QED
    <3> HIDE DEF Eq, g
    <3> QED
      BY <2>4
<1> DEFINE N == Len(fmt)
<1>3. \E f : Eq(f, N)
  <2>1. N \in Nat
    OBVIOUS
  <2> HIDE DEF Eq, N
  <2>2. N \in S
    <3> HIDE DEF S
    <3> QED
      BY <1>1, <1>2, <2>1, SetInduction
  <2>3. QED
    BY <2>2
<1>4. MatchAfter(buf, c, all, fmt) = CHOOSE f : Eq(f, N)
  BY DEF MatchAfter
<1>5. Eq(MatchAfter(buf, c, all, fmt), N)
  <2> HIDE DEF Eq
  <2> QED
    BY <1>3, <1>4
<1>6. QED
  BY <1>5

(* One more directive matches from where the others ended. *)
LEMMA NextMatches ==
    ASSUME NEW buf \in Text, NEW c \in 0 .. Len(buf), NEW all, NEW d, NEW r, MatchAt(r, c, Len(buf))
    PROVE  LET x == MatchNext(buf, all, d, r)
               m == MatchOne(buf, r.cursor, all, d)
           IN  /\ MatchAt(x, c, Len(buf))
               /\ x.status = "OK" =>
                    /\ r.status = "OK" /\ m.status = "OK" /\ x.cursor = m.cursor
                    /\ r.cursor \in 0 .. Len(buf) /\ x.cursor \in r.cursor .. Len(buf)
                    /\ d \in Capturing => x.val = Append(r.val, m.val)
                    /\ d \notin Capturing => x.val = r.val
<1> DEFINE x == MatchNext(buf, all, d, r)
           m == MatchOne(buf, r.cursor, all, d)
           Goal == /\ MatchAt(x, c, Len(buf))
                   /\ x.status = "OK" =>
                        /\ r.status = "OK" /\ m.status = "OK" /\ x.cursor = m.cursor
                        /\ r.cursor \in 0 .. Len(buf) /\ x.cursor \in r.cursor .. Len(buf)
                        /\ d \in Capturing => x.val = Append(r.val, m.val)
                        /\ d \notin Capturing => x.val = r.val
<1>0. Len(buf) \in Nat
  BY DEF Text
<1>1. r.cursor \in c .. Len(buf) /\ r.cursor \in 0 .. Len(buf)
  BY <1>0 DEF MatchAt
<1>2. MatchAt(m, r.cursor, Len(buf))
  BY <1>1, OneInside
<1>3. x = IF r.status = "OK"
          THEN IF m.status # "OK" THEN m
               ELSE Result("OK", m.cursor, IF d \in Capturing THEN Append(r.val, m.val) ELSE r.val)
          ELSE r
  BY DEF MatchNext
<1> HIDE DEF x, m
<1>4. CASE r.status # "OK"
  <2>1. x = r
    BY <1>3, <1>4
  <2>2. Goal
    BY <1>4, <2>1
  <2>3. QED
    BY <2>2 DEF x, m
<1>5. CASE r.status = "OK" /\ m.status # "OK"
  <2>1. x = m
    BY <1>3, <1>5
  <2>2. Goal
    BY <1>0, <1>1, <1>2, <1>5, <2>1 DEF MatchAt
  <2>3. QED
    BY <2>2 DEF x, m
<1>6. CASE r.status = "OK" /\ m.status = "OK"
  <2>1. /\ x.status = "OK" /\ x.cursor = m.cursor
        /\ x.val = IF d \in Capturing THEN Append(r.val, m.val) ELSE r.val
    BY <1>3, <1>6, ResultIs
  <2>2. Goal
    BY <1>0, <1>1, <1>2, <1>6, <2>1 DEF MatchAt
  <2>3. QED
    BY <2>2 DEF x, m
<1>7. QED
  BY <1>4, <1>5, <1>6

(* A format matches inside the text, and fails where it began. *)
LEMMA MatchInside ==
    ASSUME NEW buf \in Text, NEW c \in 0 .. Len(buf), NEW all, NEW fmt, Len(fmt) \in Nat
    PROVE  LET A == MatchAfter(buf, c, all, fmt)
               m == MatchFrom(buf, c, all, fmt)
           IN  /\ \A n \in 0 .. Len(fmt) : MatchAt(A[n], c, Len(buf))
               /\ MatchAt(m, c, Len(buf))
               /\ m.status = "OK" => m = A[Len(fmt)]
<1> DEFINE A == MatchAfter(buf, c, all, fmt)
           m == MatchFrom(buf, c, all, fmt)
           S == {n \in Nat : n <= Len(fmt) => MatchAt(A[n], c, Len(buf))}
<1>0. Len(buf) \in Nat
  BY DEF Text
<1>1. A[0] = Result("OK", c, <<>>) /\ \A n \in 1 .. Len(fmt) : A[n] = MatchNext(buf, all, fmt[n], A[n - 1])
  BY MatchUnfolds
<1>2. m = IF A[Len(fmt)].status = "OK" THEN A[Len(fmt)] ELSE Result(A[Len(fmt)].status, c, <<>>)
  BY DEF MatchFrom
<1> HIDE DEF A, m
<1>3. 0 \in S
  <2>1. MatchAt(A[0], c, Len(buf))
    BY <1>0, <1>1, ResultIs DEF MatchAt
  <2>2. QED
    BY <2>1
<1>4. ASSUME NEW n \in Nat, n \in S PROVE n + 1 \in S
  <2> SUFFICES ASSUME n + 1 <= Len(fmt) PROVE MatchAt(A[n + 1], c, Len(buf))
    OBVIOUS
  <2>1. MatchAt(A[n], c, Len(buf)) /\ A[n + 1] = MatchNext(buf, all, fmt[n + 1], A[n])
    BY <1>1, <1>4
  <2>2. QED
    BY <2>1, NextMatches
<1>5. \A n \in Nat : n \in S
  <2> HIDE DEF S
  <2> QED
    BY <1>3, <1>4, SetInduction
<1>6. \A n \in 0 .. Len(fmt) : MatchAt(A[n], c, Len(buf))
  BY <1>5
<1>7. MatchAt(m, c, Len(buf)) /\ (m.status = "OK" => m = A[Len(fmt)])
  <2>1. MatchAt(A[Len(fmt)], c, Len(buf))
    BY <1>6
  <2>2. m = A[Len(fmt)] \/ (m.status = A[Len(fmt)].status /\ m.status # "OK" /\ m.cursor = c)
    BY <1>2, ResultIs
  <2>3. QED
    BY <1>0, <2>1, <2>2 DEF MatchAt
<1>8. QED
  BY <1>6, <1>7 DEF A, m

(* The line end after a chunk. *)
LEMMA LineEndMatches ==
    ASSUME NEW buf \in Text, NEW c \in 0 .. Len(buf)
    PROVE  LET m == Match(buf, c, <<"%c">>)
           IN  MatchAt(m, c, Len(buf)) /\ (m.status = "OK" => m.cursor > c)
<1> DEFINE fmt == <<"%c">>
           m == Match(buf, c, fmt)
           no == FALSE
           A == MatchAfter(buf, c, no, fmt)
<1>1. Len(fmt) = 1 /\ fmt[1] = "%c"
  OBVIOUS
<1>m. m = MatchFrom(buf, c, no, fmt)
  BY DEF Match
<1> HIDE DEF fmt, no, m
<1>n. Len(fmt) \in Nat
  BY <1>1
<1>a. \A n \in 0 .. Len(fmt) : MatchAt(A[n], c, Len(buf))
  BY <1>n, MatchInside, Zenon
<1>b. MatchAt(m, c, Len(buf)) /\ (m.status = "OK" => m = A[Len(fmt)])
  BY <1>n, <1>m, MatchInside, Zenon
<1>2. MatchAt(m, c, Len(buf)) /\ (m.status = "OK" => m = A[1]) /\ MatchAt(A[0], c, Len(buf))
  BY <1>1, <1>a, <1>b
<1>3. A[0] = Result("OK", c, <<>>) /\ A[1] = MatchNext(buf, no, "%c", A[0])
  BY <1>1, MatchUnfolds
<1> HIDE DEF A
<1>4. A[1].status = "OK" => /\ A[0].cursor = c /\ MatchOne(buf, A[0].cursor, no, "%c").status = "OK"
                            /\ A[1].cursor = MatchOne(buf, A[0].cursor, no, "%c").cursor
  BY <1>2, <1>3, NextMatches, ResultIs
<1>5. MatchOne(buf, c, no, "%c") = MatchType(buf, c, no, "crlf")
  BY DEF MatchOne, TypeFor
<1>6. m.status = "OK" => m.cursor > c
  BY <1>2, <1>4, <1>5, TypeInside
<1>7. QED
  BY <1>2, <1>6 DEF m, fmt, no

(* The line that announces a chunk. *)
LEMMA ChunkLineMatches ==
    ASSUME NEW buf \in Text, NEW c \in 0 .. Len(buf)
    PROVE  LET m == Match(buf, c, <<"%x", "%L", "%c">>)
           IN  MatchAt(m, c, Len(buf)) /\ (m.status = "OK" => m.cursor > c /\ m.val[1] \in Nat)
<1> DEFINE fmt == <<"%x", "%L", "%c">>
           m == Match(buf, c, fmt)
           no == FALSE
           A == MatchAfter(buf, c, no, fmt)
<1>0. Len(buf) \in Nat
  BY DEF Text
<1>1. Len(fmt) = 3 /\ fmt[1] = "%x" /\ fmt[2] = "%L" /\ fmt[3] = "%c"
  OBVIOUS
<1>m. m = MatchFrom(buf, c, no, fmt)
  BY DEF Match
<1> HIDE DEF fmt, no, m
<1>n. Len(fmt) \in Nat
  BY <1>1
<1>a. \A n \in 0 .. Len(fmt) : MatchAt(A[n], c, Len(buf))
  BY <1>n, MatchInside, Zenon
<1>b. MatchAt(m, c, Len(buf)) /\ (m.status = "OK" => m = A[Len(fmt)])
  BY <1>n, <1>m, MatchInside, Zenon
<1> DEFINE r0 == A[0]
           r1 == A[1]
           r2 == A[2]
           r3 == A[3]
<1>2. /\ MatchAt(m, c, Len(buf)) /\ (m.status = "OK" => m = r3)
      /\ MatchAt(r0, c, Len(buf)) /\ MatchAt(r1, c, Len(buf)) /\ MatchAt(r2, c, Len(buf))
  BY <1>1, <1>a, <1>b
<1>3. /\ r0 = Result("OK", c, <<>>) /\ r1 = MatchNext(buf, no, "%x", r0)
      /\ r2 = MatchNext(buf, no, "%L", r1) /\ r3 = MatchNext(buf, no, "%c", r2)
  BY <1>1, MatchUnfolds
<1> HIDE DEF A, r0, r1, r2, r3
<1> DEFINE x == MatchOne(buf, c, no, "%x")
           y == MatchOne(buf, r1.cursor, no, "%L")
<1>4. r1.status = "OK" => x.status = "OK" /\ r1.cursor = x.cursor /\ r1.val = Append(<<>>, x.val)
  BY <1>2, <1>3, NextMatches, ResultIs DEF Capturing
<1>5. r2.status = "OK" => r1.status = "OK" /\ r2.cursor \in r1.cursor .. Len(buf) /\ r2.val = Append(r1.val, y.val)
  <2>1. "%L" \in Capturing
    BY DEF Capturing
  <2>2. MatchAt(r1, c, Len(buf)) /\ r2 = MatchNext(buf, no, "%L", r1)
    BY <1>2, <1>3
  <2>3. MatchNext(buf, no, "%L", r1).status = "OK" =>
          /\ r1.status = "OK" /\ MatchNext(buf, no, "%L", r1).cursor \in r1.cursor .. Len(buf)
          /\ "%L" \in Capturing => MatchNext(buf, no, "%L", r1).val = Append(r1.val, y.val)
    BY <2>2, NextMatches
  <2>4. QED
    BY <2>1, <2>2, <2>3
<1>6. r3.status = "OK" => r2.status = "OK" /\ r3.cursor \in r2.cursor .. Len(buf) /\ r3.val = r2.val
  <2>1. "%c" \notin Capturing
    BY DEF Capturing
  <2>2. MatchAt(r2, c, Len(buf)) /\ r3 = MatchNext(buf, no, "%c", r2)
    BY <1>2, <1>3
  <2>3. MatchNext(buf, no, "%c", r2).status = "OK" =>
          /\ r2.status = "OK" /\ MatchNext(buf, no, "%c", r2).cursor \in r2.cursor .. Len(buf)
          /\ "%c" \notin Capturing => MatchNext(buf, no, "%c", r2).val = r2.val
    BY <2>2, NextMatches
  <2>4. QED
    BY <2>1, <2>2, <2>3
<1>7. x = MatchInt(buf, c, no, 16)
  BY DEF MatchOne
<1>8. x.status = "OK" => x.cursor > c /\ x.val \in Nat
  BY <1>7, IntInside
<1> HIDE DEF x, y
<1>9. Append(Append(<<>>, x.val), y.val)[1] = x.val
  OBVIOUS
<1>10. m.status = "OK" => m.cursor > c /\ m.val[1] \in Nat
  <2> HAVE m.status = "OK"
  <2>1. m = r3 /\ r3.status = "OK" /\ r2.status = "OK" /\ r1.status = "OK" /\ x.status = "OK"
    BY <1>2, <1>4, <1>5, <1>6
  <2>2. m.val = Append(Append(<<>>, x.val), y.val)
    BY <1>4, <1>5, <1>6, <2>1
  <2>3. r1.cursor \in c .. Len(buf) /\ r2.cursor \in c .. Len(buf) /\ m.cursor \in c .. Len(buf)
    BY <1>2 DEF MatchAt
  <2>4. m.cursor > c
    BY <1>0, <1>4, <1>5, <1>6, <1>8, <2>1, <2>3
  <2>5. QED
    BY <1>8, <1>9, <2>1, <2>2, <2>4
<1>11. QED
  BY <1>2, <1>10 DEF m, fmt, no

(* What follows the name of a header. *)
LEMMA HeaderMatches ==
    ASSUME NEW buf \in Text, NEW c \in 0 .. Len(buf)
    PROVE  LET m == Match(buf, c, <<"LWS", ":", "LWS", "%R", "%c">>)
           IN  MatchAt(m, c, Len(buf)) /\ (m.status = "OK" => m.val[1] \in Text)
<1> DEFINE fmt == <<"LWS", ":", "LWS", "%R", "%c">>
           m == Match(buf, c, fmt)
           no == FALSE
           A == MatchAfter(buf, c, no, fmt)
<1>1. Len(fmt) = 5 /\ fmt[1] = "LWS" /\ fmt[2] = ":" /\ fmt[3] = "LWS" /\ fmt[4] = "%R" /\ fmt[5] = "%c"
  OBVIOUS
<1>m. m = MatchFrom(buf, c, no, fmt)
  BY DEF Match
<1> HIDE DEF fmt, no, m
<1>n. Len(fmt) \in Nat
  BY <1>1
<1>a. \A n \in 0 .. Len(fmt) : MatchAt(A[n], c, Len(buf))
  BY <1>n, MatchInside, Zenon
<1>b. MatchAt(m, c, Len(buf)) /\ (m.status = "OK" => m = A[Len(fmt)])
  BY <1>n, <1>m, MatchInside, Zenon
<1>2. /\ MatchAt(m, c, Len(buf)) /\ (m.status = "OK" => m = A[5])
      /\ MatchAt(A[0], c, Len(buf)) /\ MatchAt(A[1], c, Len(buf)) /\ MatchAt(A[2], c, Len(buf))
      /\ MatchAt(A[3], c, Len(buf)) /\ MatchAt(A[4], c, Len(buf))
  BY <1>1, <1>a, <1>b
<1>3. /\ A[0] = Result("OK", c, <<>>) /\ A[1] = MatchNext(buf, no, "LWS", A[0])
      /\ A[2] = MatchNext(buf, no, ":", A[1]) /\ A[3] = MatchNext(buf, no, "LWS", A[2])
      /\ A[4] = MatchNext(buf, no, "%R", A[3]) /\ A[5] = MatchNext(buf, no, "%c", A[4])
  BY <1>1, MatchUnfolds
<1> HIDE DEF A
<1> DEFINE y == MatchOne(buf, A[3].cursor, no, "%R")
<1>4. A[1].status = "OK" => A[1].val = <<>>
  BY <1>2, <1>3, NextMatches, ResultIs DEF Capturing
<1>5. A[2].status = "OK" => A[1].status = "OK" /\ A[2].val = A[1].val
  BY <1>2, <1>3, NextMatches DEF Capturing
<1>6. A[3].status = "OK" => A[2].status = "OK" /\ A[3].val = A[2].val
  BY <1>2, <1>3, NextMatches DEF Capturing
<1>7. A[4].status = "OK" => /\ A[3].status = "OK" /\ A[3].cursor \in 0 .. Len(buf)
                            /\ y.status = "OK" /\ A[4].val = Append(A[3].val, y.val)
  BY <1>2, <1>3, NextMatches DEF Capturing
<1>8. A[5].status = "OK" => A[4].status = "OK" /\ A[5].val = A[4].val
  BY <1>2, <1>3, NextMatches, SMTT(30) DEF Capturing
<1>9. y = MatchRawValue(buf, A[3].cursor, no)
  BY DEF MatchOne
<1>10. A[4].status = "OK" => y.val \in Text
  BY <1>7, <1>9, RawValueInside
<1> HIDE DEF y
<1>11. Append(<<>>, y.val)[1] = y.val
  OBVIOUS
<1>12. m.status = "OK" => m.val[1] \in Text
  BY <1>2, <1>4, <1>5, <1>6, <1>7, <1>8, <1>10, <1>11
<1>13. QED
  BY <1>2, <1>12 DEF m, fmt, no

-----------------------------------------------------------------------------
(***************************************************************************)
(* The parser.  Its start line and its headers move the cursor on; the     *)
(* entity's parts delete from the message.                                 *)
(***************************************************************************)

ParserFields == {"buf", "cursor", "position", "ent_position", "is_request", "request_method",
                 "method", "url", "version", "status_code", "headers", "content_length",
                 "chunk_size", "entity_start", "entity_length", "amount_discarded",
                 "http_error_code", "valid_ssdp_notify_hack"}
IsParser(p)  == p = [f \in ParserFields |-> p[f]]
Headers      == Seq([name : Text, value : Text])

(* Where what is left of the entity ends. *)
EntityEnd(p) == p.entity_start + p.entity_length - p.amount_discarded

ParserTypes(p) ==
  /\ IsParser(p) /\ p.buf \in Text /\ p.headers \in Headers
  /\ p.position \in {"REQUEST_LINE", "RESPONSE_LINE", "HEADERS", "ENTITY", "COMPLETE"}
  /\ p.ent_position \in {"DETERMINE_READ_METHOD", "USING_CLEN", "USING_CHUNKED", "CHUNKY_BODY",
                         "CHUNKY_HEADERS", "UNTIL_CLOSE"}
  /\ p.entity_start \in Nat /\ p.entity_length \in Nat /\ p.amount_discarded \in Nat
  /\ p.content_length \in Nat /\ p.chunk_size \in Nat

(* The entity ends before the cursor, and the cursor is in the message; or *)
(* the entity has a length that is known.                                  *)
Inside(p) ==
  /\ p.amount_discarded <= p.entity_length
  /\ IF p.ent_position = "USING_CLEN"
     THEN p.cursor \in Int /\ p.entity_length <= p.content_length /\ EntityEnd(p) <= Len(p.buf)
     ELSE p.cursor \in 0 .. Len(p.buf) /\ EntityEnd(p) <= p.cursor
  /\ p.ent_position = "DETERMINE_READ_METHOD" => p.entity_length = 0
  /\ p.position \in {"REQUEST_LINE", "RESPONSE_LINE", "HEADERS"}
       => p.ent_position = "DETERMINE_READ_METHOD"

ParserInv(p) == ParserTypes(p) /\ Inside(p)

(* q is p after some more of the message was read, with the message and    *)
(* its entity as they were.                                                *)
Moved(p, q) ==
  /\ IsParser(q) /\ q.buf = p.buf /\ q.headers \in Headers
  /\ q.ent_position = p.ent_position
  /\ q.entity_start = p.entity_start /\ q.entity_length = p.entity_length
  /\ q.amount_discarded = p.amount_discarded
  /\ q.content_length = p.content_length /\ q.chunk_size = p.chunk_size
  /\ q.cursor \in p.cursor .. Len(p.buf)

(* A parser before the body of a length that is known: it reads on. *)
Reading(p) == ParserInv(p) /\ p.ent_position # "USING_CLEN"

(* The cursor may move on. *)
LEMMA MovedInside ==
    ASSUME NEW p, NEW q, Reading(p), Moved(p, q),
           q.position \in {"REQUEST_LINE", "RESPONSE_LINE", "HEADERS", "ENTITY", "COMPLETE"},
           q.position \in {"REQUEST_LINE", "RESPONSE_LINE", "HEADERS"} =>
             p.ent_position = "DETERMINE_READ_METHOD"
    PROVE  Reading(q)
<1>1. Len(p.buf) \in Nat
  BY DEF Reading, ParserInv, ParserTypes, Text
<1>2. p.cursor \in 0 .. Len(p.buf) /\ EntityEnd(p) <= p.cursor /\ EntityEnd(p) \in Int
  BY DEF Reading, ParserInv, ParserTypes, Inside, EntityEnd
<1>3. EntityEnd(q) = EntityEnd(p)
  BY DEF Moved, EntityEnd
<1>4. q.cursor \in 0 .. Len(q.buf) /\ EntityEnd(q) <= q.cursor
  BY <1>1, <1>2, <1>3 DEF Moved
<1>5. ParserTypes(q)
  BY DEF Reading, ParserInv, ParserTypes, Moved
<1>6. Inside(q)
  BY <1>4 DEF Reading, ParserInv, Inside, Moved
<1>7. QED
  BY <1>5, <1>6 DEF Reading, ParserInv, Moved

(* Moves add up. *)
LEMMA MovedTrans ==
    ASSUME NEW p, NEW q, NEW r, Len(p.buf) \in Nat, p.cursor \in Nat, Moved(p, q), Moved(q, r)
    PROVE  Moved(p, r)
BY DEF Moved

(* A parser has moved nowhere. *)
LEMMA MovedSelf == ASSUME NEW p, Reading(p) PROVE Moved(p, p)
BY DEF Moved, Reading, ParserInv, ParserTypes, Inside, Text

(* The fields of an outcome. *)
LEMMA OutcomeIs == \A s, p : Outcome(s, p).status = s /\ Outcome(s, p).p = p
BY DEF Outcome

(* What a part of the message yields that moves on to the position next: a *)
(* part that is not there yet, or wrong, leaves the parser where it is.    *)
Yields(p, o, next) ==
  /\ Moved(p, o.p)
  /\ o.status \in {"OK", "SUCCESS", "INCOMPLETE", "FAILURE", "NO_MATCH"}
  /\ o.status = "OK" => o.p.position = next
  /\ o.status = "SUCCESS" => o.p.position = "COMPLETE"
  /\ o.status \notin {"OK", "SUCCESS"} => o.p.position = p.position

(* The forms of outcomes. *)
LEMMA YieldForms ==
    ASSUME NEW p, NEW q, Moved(p, q), NEW next
    PROVE  /\ \A s \in {"INCOMPLETE", "FAILURE", "NO_MATCH"} :
                q.position = p.position => Yields(p, Outcome(s, q), next)
           /\ q.position = next => Yields(p, Outcome("OK", q), next)
           /\ q.position = "COMPLETE" => Yields(p, Outcome("SUCCESS", q), next)
<1>1. ASSUME NEW s \in {"INCOMPLETE", "FAILURE", "NO_MATCH"}, q.position = p.position
      PROVE  Yields(p, Outcome(s, q), next)
  <2> DEFINE o == Outcome(s, q)
  <2>1. o.status = s /\ o.p = q
    BY OutcomeIs
  <2> HIDE DEF o
  <2>2. Yields(p, o, next)
    BY <1>1, <2>1 DEF Yields
  <2>3. QED
    BY <2>2 DEF o
<1>2. ASSUME q.position = next PROVE Yields(p, Outcome("OK", q), next)
  <2> DEFINE o == Outcome("OK", q)
  <2>1. o.status = "OK" /\ o.p = q
    BY OutcomeIs
  <2> HIDE DEF o
  <2>2. Yields(p, o, next)
    BY <1>2, <2>1 DEF Yields
  <2>3. QED
    BY <2>2 DEF o
<1>3. ASSUME q.position = "COMPLETE" PROVE Yields(p, Outcome("SUCCESS", q), next)
  <2> DEFINE o == Outcome("SUCCESS", q)
  <2>1. o.status = "SUCCESS" /\ o.p = q
    BY OutcomeIs
  <2> HIDE DEF o
  <2>2. Yields(p, o, next)
    BY <1>3, <2>1 DEF Yields
  <2>3. QED
    BY <2>2 DEF o
<1>4. QED
  BY <1>1, <1>2, <1>3

(* A match moves the parser. *)
LEMMA CursorMoves ==
    ASSUME NEW p, Reading(p), NEW c \in p.cursor .. Len(p.buf), NEW q, q = [p EXCEPT !.cursor = c]
    PROVE  Moved(p, q) /\ q.position = p.position /\ q.cursor = c
<1>1. IsParser(p) /\ p.headers \in Headers
  BY DEF Reading, ParserInv, ParserTypes
<1>2. QED
  BY <1>1 DEF Moved, IsParser, ParserFields

(* A failure leaves the parser where it is. *)
LEMMA FailedYields ==
    ASSUME NEW p, NEW q, Moved(p, q), q.position = p.position, NEW code, NEW next
    PROVE  Yields(p, Failed(q, code), next)
<1> DEFINE r == [q EXCEPT !.http_error_code = code]
<1>1. Moved(p, r) /\ r.position = p.position
  BY DEF Moved, IsParser, ParserFields
<1>2. Failed(q, code) = Outcome("FAILURE", r)
  BY DEF Failed
<1> HIDE DEF r
<1>3. QED
  BY <1>1, <1>2, YieldForms

(* The two forms of a request line: without a version. *)
LEMMA SimpleYields ==
    ASSUME NEW p, NEW q, Moved(p, q), q.position = p.position, NEW method, NEW url
    PROVE  Yields(p, SimpleGet(q, method, url), "HEADERS")
<1> DEFINE r == [q EXCEPT !.method = "SIMPLEGET", !.url = url]
           s == [q EXCEPT !.method = "SIMPLEGET", !.url = url, !.position = "COMPLETE"]
<1>1. Moved(p, r) /\ r.position = p.position /\ Moved(p, s) /\ s.position = "COMPLETE"
  BY DEF Moved, IsParser, ParserFields
<1>2. SimpleGet(q, method, url) \in {Failed(q, "NOT_IMPLEMENTED"), Failed(q, "BAD_REQUEST"),
                                     Outcome("FAILURE", r), Outcome("SUCCESS", s)}
  BY DEF SimpleGet
<1> HIDE DEF r, s
<1>3. QED
  BY <1>1, <1>2, FailedYields, YieldForms

(* With a version. *)
LEMMA FullYields ==
    ASSUME NEW p, NEW q, Moved(p, q), q.position = p.position, NEW method, NEW nums
    PROVE  Yields(p, FullRequest(q, method, nums), "HEADERS")
<1> DEFINE v == <<nums[1], nums[2]>>
           r == [q EXCEPT !.method = method, !.position = "HEADERS", !.version = v]
<1>1. Moved(p, r) /\ r.position = "HEADERS"
  <2> HIDE DEF v
  <2> QED
    BY DEF Moved, IsParser, ParserFields
<1>2. FullRequest(q, method, nums) \in {Outcome("FAILURE", q), Failed(q, "NOT_IMPLEMENTED"),
                                        Failed(q, "HTTP_VERSION_NOT_SUPPORTED"), Outcome("OK", r)}
  BY DEF FullRequest
<1> HIDE DEF r
<1>3. QED
  BY <1>1, <1>2, FailedYields, YieldForms

(* A status line. *)
LEMMA StatusYields ==
    ASSUME NEW p, NEW q, Moved(p, q), q.position = p.position, NEW line, NEW scan
    PROVE  Yields(p, ScanStatus(q, line, scan), "HEADERS")
<1> DEFINE v == <<scan.nums[1], scan.nums[2]>>
           c == scan.nums[3]
           r == [q EXCEPT !.version = v, !.status_code = c]
           s == [r EXCEPT !.position = "HEADERS"]
<1>1. ScanStatus(q, line, scan) \in {Outcome("FAILURE", q), Outcome("OK", s), Outcome("FAILURE", r)}
  BY DEF ScanStatus
<1>2. Moved(p, r) /\ r.position = p.position
  <2> HIDE DEF v, c
  <2> QED
    BY DEF Moved, IsParser, ParserFields
<1> HIDE DEF r
<1>3. Moved(p, s) /\ s.position = "HEADERS"
  BY <1>2 DEF Moved, IsParser, ParserFields
<1> HIDE DEF s
<1>4. QED
  BY <1>1, <1>2, <1>3, YieldForms

(* Blank lines. *)
LEMMA BlankYields ==
    ASSUME NEW p, Reading(p)
    PROVE  /\ Moved(p, SkippedBlank(p).p) /\ SkippedBlank(p).p.position = p.position
           /\ SkippedBlank(p).status \in {"OK", "INCOMPLETE", "FAILURE"}
<1> DEFINE no == FALSE
           b == SkipBlankLines(p.buf, p.cursor, no)
           q == [p EXCEPT !.cursor = b.cursor]
           Stop == {"identifier", "quoted", "separator", "control"}
           buf == p.buf
           i == p.cursor
<1>1. Len(buf) \in Nat /\ i \in 0 .. Len(buf)
  BY DEF Reading, ParserInv, ParserTypes, Inside, Text
<1>2. b = UntilToken(buf, i, no, Stop)
  BY DEF SkipBlankLines
<1>3. SkippedBlank(p) = Outcome(b.status, q)
  BY DEF SkippedBlank
<1> HIDE DEF no, b, Stop
<1>4. EndAt(b, i, Len(buf))
  <2> HIDE DEF buf, i
  <2> QED
    BY <1>1, <1>2, UntilInside
<1>5. b.cursor \in p.cursor .. Len(p.buf) /\ b.status \in {"OK", "INCOMPLETE", "FAILURE"}
  BY <1>4 DEF EndAt
<1>6. Moved(p, q) /\ q.position = p.position
  BY <1>5, CursorMoves
<1> HIDE DEF q
<1>7. QED
  BY <1>3, <1>5, <1>6, OutcomeIs

(* A format on a message that is not loaded in full. *)
LEMMA MatchesInside ==
    ASSUME NEW buf \in Text, NEW c \in 0 .. Len(buf), NEW fmt, Len(fmt) \in Nat
    PROVE  MatchAt(Match(buf, c, fmt), c, Len(buf))
<1> DEFINE no == FALSE
           m == MatchFrom(buf, c, no, fmt)
<1>1. Match(buf, c, fmt) = m
  BY DEF Match
<1> HIDE DEF no
<1>2. MatchAt(m, c, Len(buf))
  BY MatchInside, Zenon
<1> HIDE DEF m
<1>3. QED
  BY <1>1, <1>2

(* What a reading parser's message and cursor are. *)
LEMMA ReadingIs ==
    ASSUME NEW p, Reading(p)
    PROVE  p.buf \in Text /\ Len(p.buf) \in Nat /\ p.cursor \in 0 .. Len(p.buf) /\ p.cursor \in Nat
BY DEF Reading, ParserInv, ParserTypes, Inside, Text

(* How a format matches at the parser's cursor. *)
LEMMA MatchMoves ==
    ASSUME NEW p, Reading(p), NEW fmt, Len(fmt) \in Nat, NEW m, m = Match(p.buf, p.cursor, fmt)
    PROVE  m.status \in {"OK", "INCOMPLETE", "FAILURE", "NO_MATCH"} /\ m.cursor \in p.cursor .. Len(p.buf)
<1> DEFINE buf == p.buf
           c == p.cursor
<1>1. buf \in Text /\ c \in 0 .. Len(buf)
  BY ReadingIs
<1>2. MatchAt(m, p.cursor, Len(p.buf))
  <2>1. m = Match(buf, c, fmt)
    OBVIOUS
  <2> HIDE DEF buf, c
  <2>2. MatchAt(m, c, Len(buf))
    BY <1>1, <2>1, MatchesInside
  <2>3. QED
    BY <2>2 DEF buf, c
<1>3. m.status \in {"OK", "INCOMPLETE", "FAILURE", "NO_MATCH"} /\ m.cursor \in p.cursor .. Len(p.buf)
  BY <1>2 DEF MatchAt
<1>4. QED
  BY <1>3

(* A request line with a version, after blank lines. *)
LEMMA FullLineYields ==
    ASSUME NEW p, NEW q, Reading(p), Reading(q), Moved(p, q), q.position = p.position,
           NEW fmt, Len(fmt) \in Nat, NEW m, m = Match(q.buf, q.cursor, fmt)
    PROVE  Yields(p, FullLine(q, m), "HEADERS")
<1> DEFINE u == m.val[2]
           r == [q EXCEPT !.cursor = m.cursor, !.url = u]
<1>1. m.status \in {"OK", "INCOMPLETE", "FAILURE", "NO_MATCH"} /\ Moved(q, r) /\ r.position = q.position
  <2> HIDE DEF u
  <2>1. m.status \in {"OK", "INCOMPLETE", "FAILURE", "NO_MATCH"} /\ m.cursor \in q.cursor .. Len(q.buf)
    BY MatchMoves
  <2>2. IsParser(q) /\ q.headers \in Headers
    BY DEF Moved
  <2>3. QED
    BY <2>1, <2>2 DEF Moved, IsParser, ParserFields
<1>2. FullLine(q, m) = IF m.status # "OK" THEN Outcome(m.status, q)
                       ELSE FullRequest(r, MethodOf(m.val[1]), ScanVersion(m.val[3]).nums)
  BY DEF FullLine
<1> HIDE DEF r
<1>3. Moved(p, r) /\ r.position = p.position
  BY <1>1, ReadingIs, MovedTrans
<1>4. CASE m.status # "OK"
  <2>1. m.status \in {"INCOMPLETE", "FAILURE", "NO_MATCH"} /\ FullLine(q, m) = Outcome(m.status, q)
    BY <1>1, <1>2, <1>4
  <2>2. QED
    BY <2>1, YieldForms
<1>5. CASE m.status = "OK"
  <2>1. FullLine(q, m) = FullRequest(r, MethodOf(m.val[1]), ScanVersion(m.val[3]).nums)
    BY <1>2, <1>5
  <2>2. QED
    BY <1>3, <2>1, FullYields
<1>6. QED
  BY <1>4, <1>5

(* parser_parse_requestline. *)
LEMMA RequestYields ==
    ASSUME NEW p, Reading(p), p.position = "REQUEST_LINE"
    PROVE  Yields(p, ParseRequestline(p), "HEADERS")
<1> DEFINE o == SkippedBlank(p)
           q == o.p
           f1 == <<"%s", "\t", "%S", "%w", "%c">>
           f2 == <<"%s", "\t", "%S", "\t">> \o Http \o <<"%w", "/", "%w", "%L", "%c">>
           m == Match(q.buf, q.cursor, f1)
           n == Match(q.buf, q.cursor, f2)
           r == [q EXCEPT !.cursor = m.cursor]
<1>1. ParseRequestline(p) = IF o.status # "OK" THEN o ELSE SimpleLine(q, m)
  BY DEF ParseRequestline, RequestAt
<1>2. SimpleLine(q, m) = IF m.status = "OK" THEN SimpleGet(r, MethodOf(m.val[1]), m.val[2]) ELSE FullLine(q, n)
  BY DEF SimpleLine
<1>3. Moved(p, q) /\ q.position = p.position /\ o.status \in {"OK", "INCOMPLETE", "FAILURE"}
  BY BlankYields
<1> HIDE DEF o
<1>4. CASE o.status # "OK"
  BY <1>1, <1>3, <1>4 DEF Yields
<1>5. CASE o.status = "OK"
  <2>1. Len(f1) \in Nat /\ Len(f2) \in Nat
    BY DEF Http
  <2> HIDE DEF q, f1, f2
  <2>2. Reading(q)
    <3>1. p.ent_position = "DETERMINE_READ_METHOD"
      BY DEF Reading, ParserInv, Inside
    <3>2. QED
      BY <1>3, <3>1, MovedInside
  <2>3. Moved(q, r) /\ r.position = q.position
    <3> HIDE DEF m
    <3>1. m = Match(q.buf, q.cursor, f1)
      BY DEF m
    <3>2. m.status \in {"OK", "INCOMPLETE", "FAILURE", "NO_MATCH"} /\ m.cursor \in q.cursor .. Len(q.buf)
      BY <2>1, <2>2, <3>1, MatchMoves
    <3>3. QED
      BY <2>2, <3>2, CursorMoves
  <2> HIDE DEF r
  <2>4. Moved(p, r) /\ r.position = p.position
    BY <1>3, <2>3, ReadingIs, MovedTrans
  <2>5. Yields(p, SimpleGet(r, MethodOf(m.val[1]), m.val[2]), "HEADERS")
    BY <2>4, SimpleYields
  <2>6. Yields(p, FullLine(q, n), "HEADERS")
    <3>1. n = Match(q.buf, q.cursor, f2)
      OBVIOUS
    <3> HIDE DEF n
    <3>2. QED
      BY <1>3, <2>1, <2>2, <3>1, FullLineYields
  <2> HIDE DEF m, n
  <2>7. QED
    BY <1>1, <1>2, <1>5, <2>5, <2>6
<1>6. QED
  BY <1>4, <1>5

(* parser_parse_responseline. *)
LEMMA ResponseYields ==
    ASSUME NEW p, Reading(p), p.position = "RESPONSE_LINE"
    PROVE  Yields(p, ParseResponseline(p), "HEADERS")
<1> DEFINE o == SkippedBlank(p)
           q == o.p
           fmt == Http \o <<"%w", "/", "%w", "%L", "%c">>
           m == Match(q.buf, q.cursor, fmt)
           r == [q EXCEPT !.cursor = m.cursor]
<1>1. ParseResponseline(p) = IF o.status # "OK" THEN o ELSE StatusMatched(q, m)
  BY DEF ParseResponseline, ResponseAt
<1>2. StatusMatched(q, m) = IF m.status # "OK" THEN Outcome(m.status, q)
                            ELSE ScanStatus(r, m.val[1], ScanVersion(m.val[1]))
  BY DEF StatusMatched
<1>3. Moved(p, q) /\ q.position = p.position /\ o.status \in {"OK", "INCOMPLETE", "FAILURE"}
  BY BlankYields
<1> HIDE DEF o
<1>4. CASE o.status # "OK"
  BY <1>1, <1>3, <1>4 DEF Yields
<1>5. CASE o.status = "OK"
  <2>1. Len(fmt) \in Nat
    BY DEF Http
  <2> HIDE DEF q, fmt
  <2>2. Reading(q)
    <3>1. p.ent_position = "DETERMINE_READ_METHOD"
      BY DEF Reading, ParserInv, Inside
    <3>2. QED
      BY <1>3, <3>1, MovedInside
  <2>3. m.status \in {"OK", "INCOMPLETE", "FAILURE", "NO_MATCH"} /\ Moved(q, r) /\ r.position = q.position
    <3> HIDE DEF m
    <3>1. m = Match(q.buf, q.cursor, fmt)
      BY DEF m
    <3>2. m.status \in {"OK", "INCOMPLETE", "FAILURE", "NO_MATCH"} /\ m.cursor \in q.cursor .. Len(q.buf)
      BY <2>1, <2>2, <3>1, MatchMoves
    <3>3. QED
      BY <2>2, <3>2, CursorMoves
  <2> HIDE DEF r, m
  <2>4. Moved(p, r) /\ r.position = p.position
    BY <1>3, <2>3, ReadingIs, MovedTrans
  <2>5. Yields(p, ScanStatus(r, m.val[1], ScanVersion(m.val[1])), "HEADERS")
    BY <2>4, StatusYields
  <2>6. m.status # "OK" => Yields(p, Outcome(m.status, q), "HEADERS")
    BY <1>3, <2>3, YieldForms
  <2>7. QED
    BY <1>1, <1>2, <1>5, <2>5, <2>6
<1>6. QED
  BY <1>4, <1>5

(* Where a header is found. *)
LEMMA FoundIs ==
    ASSUME NEW p, p.headers \in Headers, NEW name
    PROVE  FindHdr(p, name) \in 0 .. Len(p.headers)
<1> DEFINE found == {i \in 1 .. Len(p.headers) : p.headers[i].name = name}
           First(i) == \A j \in found : i <= j
<1>1. Len(p.headers) \in Nat /\ found \subseteq Nat
  BY DEF Headers
<1>2. FindHdr(p, name) = IF found = {} THEN 0 ELSE CHOOSE i \in found : First(i)
  BY DEF FindHdr
<1>3. CASE found = {}
  BY <1>1, <1>2, <1>3
<1>4. CASE found # {}
  <2>1. \E i \in found : First(i)
    <3> HIDE DEF found
    <3> QED
      BY <1>1, <1>4, LeastElement
  <2>2. (CHOOSE i \in found : First(i)) \in found
    <3> HIDE DEF found, First
    <3> QED
      BY <2>1
  <2>3. FindHdr(p, name) \in found
    BY <1>2, <1>4, <2>2
  <2>4. QED
    BY <1>1, <2>3
<1>5. QED
  BY <1>3, <1>4

(* A header's value is a text. *)
LEMMA ValueIs ==
    ASSUME NEW p, p.headers \in Headers, NEW name, FindHdr(p, name) # 0
    PROVE  HdrValue(p, name) \in Text
<1> DEFINE i == FindHdr(p, name)
<1>1. i \in 1 .. Len(p.headers)
  <2>1. i \in 0 .. Len(p.headers) /\ i # 0
    BY FoundIs
  <2>2. Len(p.headers) \in Nat
    BY DEF Headers
  <2> HIDE DEF i
  <2>3. QED
    BY <2>1, <2>2
<1> HIDE DEF i
<1>2. p.headers[i] \in [name : Text, value : Text]
  BY <1>1, ElementOfSeq, Zenon DEF Headers
<1>3. p.headers[i].value \in Text
  BY <1>2
<1>4. QED
  BY <1>3 DEF HdrValue, i

(* A header is added, or joined to one that is there. *)
LEMMA AddMoves ==
    ASSUME NEW p, NEW q, Moved(p, q), NEW name \in Text, NEW value \in Text
    PROVE  LET r == AddHeader(q, name, value)
           IN  Moved(p, r) /\ r.position = q.position /\ r.cursor = q.cursor
<1> DEFINE i == FindHdr(q, name)
           me == IF name = HttpHeaderNames.SOAPACTION THEN "SOAPMETHOD_POST" ELSE q.method
           s == [q EXCEPT !.method = me]
           v == IF value = <<>> THEN <<"NUL">> ELSE value
           w == q.headers[i].value \o <<",", "SP">> \o value
           h == Append(q.headers, [name |-> name, value |-> v])
           g == [q.headers EXCEPT ![i] = [q.headers[i] EXCEPT !.value = w]]
           r == AddHeader(q, name, value)
<1>0. q.headers \in Headers /\ IsParser(q)
  BY DEF Moved
<1>1. s.headers = q.headers /\ Moved(p, s) /\ s.position = q.position /\ s.cursor = q.cursor
  <2> HIDE DEF me
  <2> QED
    BY <1>0 DEF Moved, IsParser, ParserFields
<1>2. r \in {s, [s EXCEPT !.headers = h], [s EXCEPT !.headers = g]}
      /\ (r = [s EXCEPT !.headers = h] \/ r = s \/ i # 0)
  <2>1. s = [q EXCEPT !.method = IF name = HttpHeaderNames.SOAPACTION THEN "SOAPMETHOD_POST" ELSE @]
    OBVIOUS
  <2>2. r = IF i = 0 THEN [s EXCEPT !.headers = Append(@, [name |-> name, value |-> v])]
            ELSE IF value = <<>> THEN s
            ELSE [s EXCEPT !.headers[i].value = @ \o <<",", "SP">> \o value]
    BY <2>1 DEF AddHeader
  <2>3. i = 0 => r = [s EXCEPT !.headers = h]
    BY <2>2, <1>1
  <2>4. i # 0 => r = s \/ r = [s EXCEPT !.headers = g]
    BY <2>2, <1>1
  <2>5. QED
    BY <2>3, <2>4
<1>3. h \in Headers
  <2>1. "NUL" \in Symbols
    BY DEF Symbols
  <2>2. v \in Text
    BY <2>1 DEF Text
  <2> HIDE DEF v
  <2>3. [name |-> name, value |-> v] \in [name : Text, value : Text]
    BY <2>2
  <2>4. QED
    BY <1>0, <2>3, AppendProperties DEF Headers
<1>4. i # 0 => g \in Headers
  <2> HAVE i # 0
  <2>1. i \in 1 .. Len(q.headers)
    <3>1. i \in 0 .. Len(q.headers) /\ i # 0
      BY <1>0, FoundIs
    <3>2. Len(q.headers) \in Nat
      BY <1>0 DEF Headers
    <3> HIDE DEF i
    <3>3. QED
      BY <3>1, <3>2
  <2>2. q.headers[i] \in [name : Text, value : Text]
    BY <1>0, <2>1, ElementOfSeq, Zenon DEF Headers
  <2>3. "," \in Symbols /\ "SP" \in Symbols
    BY DEF Symbols
  <2>4. <<",", "SP">> \in Text
    <3>1. ASSUME NEW S, NEW a \in S, NEW b \in S PROVE <<a, b>> \in Seq(S)
      OBVIOUS
    <3>2. QED
      BY <2>3, <3>1, Zenon DEF Text
  <2>5. q.headers[i].value \in Text
    BY <2>2
  <2>6. w \in Text
    <3> DEFINE x == q.headers[i].value
               y == <<",", "SP">>
    <3>1. x \in Text /\ y \in Text
      BY <2>4, <2>5
    <3> HIDE DEF x, y
    <3>2. x \o y \o value \in Text
      BY <3>1 DEF Text
    <3>3. QED
      BY <3>2 DEF x, y
  <2> HIDE DEF w
  <2>7. [q.headers[i] EXCEPT !.value = w] \in [name : Text, value : Text]
    BY <2>2, <2>6
  <2> DEFINE rec == [q.headers[i] EXCEPT !.value = w]
  <2> HIDE DEF rec, i
  <2>8. [q.headers EXCEPT ![i] = rec] \in Headers
    BY <1>0, <2>1, <2>7, ExceptSeq DEF Headers, rec
  <2>9. QED
    BY <2>8 DEF rec
<1> HIDE DEF h, g, s, i
<1>5. ASSUME NEW k \in Headers, NEW t, t = [s EXCEPT !.headers = k]
      PROVE  Moved(p, t) /\ t.position = q.position /\ t.cursor = q.cursor
  BY <1>1, <1>5 DEF Moved, IsParser, ParserFields
<1> HIDE DEF r
<1>6. Moved(p, r) /\ r.position = q.position /\ r.cursor = q.cursor
  BY <1>1, <1>2, <1>3, <1>4, <1>5
<1>7. QED
  BY <1>6 DEF r

(* A header was read, and there may be more; or what ends them. *)
HeaderYields(p, o) ==
  \/ Yields(p, o, "ENTITY")
  \/ /\ o.status = "CONTINUE_1" /\ Moved(p, o.p)
     /\ o.p.position = p.position /\ o.p.cursor > p.cursor

(* One header, which takes at least one character. *)
LEMMA HeaderMoves ==
    ASSUME NEW p, Reading(p)
    PROVE  HeaderYields(p, HeaderAt(p, GetToken(p.buf, p.cursor, FALSE)))
<1> DEFINE no == FALSE
           buf == p.buf
           c == p.cursor
           t == GetToken(buf, c, no)
           fmt == <<"LWS", ":", "LWS", "%R", "%c">>
           tc == t.cursor
           m == Match(buf, tc, fmt)
           name == SubSeq(buf, c + 1, tc)
           q1 == [p EXCEPT !.cursor = tc, !.position = "COMPLETE"]
           q2 == [p EXCEPT !.cursor = tc, !.position = "ENTITY"]
           q3 == [p EXCEPT !.cursor = tc]
           q4 == [p EXCEPT !.cursor = m.cursor]
           q5 == AddHeader(q4, name, m.val[1])
           o == HeaderAt(p, t)
<1>0. IsParser(p) /\ p.headers \in Headers
  BY DEF Reading, ParserInv, ParserTypes
<1>1. buf \in Text /\ Len(buf) \in Nat /\ c \in 0 .. Len(buf) /\ c \in Nat
  BY ReadingIs
<1>2. TokenAt(t, c, Len(buf))
  <2> HIDE DEF no, buf, c
  <2> QED
    BY <1>1, TokenInside
<1>3. o = IF t.status # "OK" THEN Outcome(t.status, p)
          ELSE IF t.type = "crlf"
          THEN IF p.is_request /\ p.method = "POST" THEN Outcome("SUCCESS", q1) ELSE Outcome("OK", q2)
          ELSE IF t.type # "identifier" THEN Outcome("FAILURE", q3)
          ELSE IF m.status # "OK" THEN Outcome(m.status, p) ELSE Outcome("CONTINUE_1", q5)
  BY DEF HeaderAt, HeaderMatched
<1>4. SUFFICES HeaderYields(p, o)
  OBVIOUS
<1> HIDE DEF o
<1>5. Moved(p, p)
  BY MovedSelf
<1>6. CASE t.status # "OK"
  <2> HIDE DEF t
  <2>1. t.status \in {"INCOMPLETE", "FAILURE"} /\ o = Outcome(t.status, p)
    BY <1>2, <1>3, <1>6 DEF TokenAt
  <2>2. Yields(p, o, "ENTITY")
    BY <1>5, <2>1, YieldForms
  <2>3. QED
    BY <2>2 DEF HeaderYields
<1>7. CASE t.status = "OK"
  <2> HIDE DEF t
  <2>1. tc \in p.cursor .. Len(p.buf) /\ tc \in 0 .. Len(buf) /\ tc \in c .. Len(buf) /\ tc > c
    BY <1>1, <1>2, <1>7 DEF TokenAt
  <2>2. /\ Moved(p, q1) /\ q1.position = "COMPLETE"
        /\ Moved(p, q2) /\ q2.position = "ENTITY"
        /\ Moved(p, q3) /\ q3.position = p.position
    <3> HIDE DEF tc
    <3>1. Moved(p, q1) /\ q1.position = "COMPLETE"
      BY <1>0, <2>1 DEF Moved, IsParser, ParserFields
    <3>2. Moved(p, q2) /\ q2.position = "ENTITY"
      BY <1>0, <2>1 DEF Moved, IsParser, ParserFields
    <3>3. Moved(p, q3) /\ q3.position = p.position
      BY <1>0, <2>1 DEF Moved, IsParser, ParserFields
    <3>4. QED
      BY <3>1, <3>2, <3>3
  <2>3. MatchAt(m, tc, Len(buf)) /\ (m.status = "OK" => m.val[1] \in Text)
    <3> HIDE DEF buf, tc
    <3> QED
      BY <1>1, <2>1, HeaderMatches
  <2>4. name \in Text
    <3> HIDE DEF buf, c, tc
    <3> QED
      BY <1>1, <2>1, PartIs
  <2> HIDE DEF m, name, tc
  <2>5. m.status \in {"OK", "INCOMPLETE", "FAILURE", "NO_MATCH"} /\ m.cursor \in tc .. Len(buf)
    BY <2>3 DEF MatchAt
  <2>6. m.cursor \in p.cursor .. Len(p.buf) /\ m.cursor > p.cursor
    BY <1>1, <2>1, <2>5
  <2>7. Moved(p, q4) /\ q4.position = p.position /\ q4.cursor = m.cursor
    BY <2>6, CursorMoves
  <2> HIDE DEF q1, q2, q3, q4
  <2>8. m.status = "OK" => Moved(p, q5) /\ q5.position = p.position /\ q5.cursor > p.cursor
    <3> HAVE m.status = "OK"
    <3> DEFINE v == m.val[1]
    <3>1. v \in Text
      BY <2>3
    <3> HIDE DEF v
    <3>2. Moved(p, AddHeader(q4, name, v)) /\ AddHeader(q4, name, v).position = q4.position
          /\ AddHeader(q4, name, v).cursor = q4.cursor
      BY <2>4, <2>7, <3>1, AddMoves
    <3>3. QED
      BY <2>6, <2>7, <3>2 DEF v
  <2> HIDE DEF q5
  <2>9. CASE o = Outcome("CONTINUE_1", q5) /\ m.status = "OK"
    <3>1. o.status = "CONTINUE_1" /\ o.p = q5
      BY <2>9, OutcomeIs
    <3>2. QED
      BY <2>8, <2>9, <3>1 DEF HeaderYields
  <2>10. CASE o # Outcome("CONTINUE_1", q5)
    <3>1. \/ o = Outcome("SUCCESS", q1) \/ o = Outcome("OK", q2) \/ o = Outcome("FAILURE", q3)
          \/ m.status # "OK" /\ o = Outcome(m.status, p)
      BY <1>3, <1>7, <2>10
    <3>2. Yields(p, o, "ENTITY")
      BY <1>5, <2>2, <2>5, <3>1, YieldForms
    <3>3. QED
      BY <3>2 DEF HeaderYields
  <2>11. m.status # "OK" => o # Outcome("CONTINUE_1", q5)
    <3> HAVE m.status # "OK"
    <3>1. o.status # "CONTINUE_1"
      BY <1>3, <1>7, <2>5, OutcomeIs
    <3>2. QED
      BY <3>1, OutcomeIs
  <2>12. QED
    BY <2>9, <2>10, <2>11
<1>8. QED
  BY <1>6, <1>7

(* The headers, after one more. *)
LEMMA HeadersUnfold ==
    ASSUME NEW p, Len(p.buf) \in Nat
    PROVE  /\ HeadersAfter(p)[0] = Outcome("CONTINUE_1", p)
           /\ \A n \in 1 .. Len(p.buf) + 1 : HeadersAfter(p)[n] = ParseHeader(HeadersAfter(p)[n - 1])
<1> DEFINE Eq(f, m) == f = [n \in 0 .. m |-> IF n = 0 THEN Outcome("CONTINUE_1", p) ELSE ParseHeader(f[n - 1])]
           S == {m \in Nat : \E f : Eq(f, m)}
<1>1. 0 \in S
  <2>1. Eq([n \in 0 .. 0 |-> Outcome("CONTINUE_1", p)], 0)
    OBVIOUS
  <2>2. QED
    BY <2>1
<1>2. ASSUME NEW m \in Nat, m \in S PROVE m + 1 \in S
  <2>1. PICK f : Eq(f, m)
    BY <1>2
  <2> DEFINE g == [n \in 0 .. m + 1 |-> IF n <= m THEN f[n] ELSE ParseHeader(f[m])]
  <2>2. \A n \in 0 .. m : g[n] = f[n]
    OBVIOUS
  <2>3. \A n \in 0 .. m + 1 : g[n] = IF n = 0 THEN Outcome("CONTINUE_1", p) ELSE ParseHeader(g[n - 1])
    <3>1. TAKE n \in 0 .. m + 1
    <3>2. CASE n = m + 1
      BY <3>2, <2>2
    <3>3. CASE n \in 1 .. m
      <4>1. n \in 0 .. m /\ n - 1 \in 0 .. m /\ n # 0
        BY <3>3
      <4>2. f[n] = ParseHeader(f[n - 1])
        BY <4>1, <2>1
      <4>3. QED
        BY <4>1, <4>2, <2>2
    <3>4. CASE n = 0
      BY <3>4, <2>1, <2>2
    <3>5. QED
      BY <3>2, <3>3, <3>4
  <2>4. Eq(g, m + 1)
    <3> HIDE DEF g
    <3> SUFFICES g = [n \in 0 .. m + 1 |-> g[n]]
      BY <2>3
    <3> QED
      BY DEF g
  <2>5. QED
    <3> HIDE DEF Eq, g
    <3> QED
      BY <2>4
<1> DEFINE N == Len(p.buf) + 1
<1>3. \E f : Eq(f, N)
  <2>1. N \in Nat
    OBVIOUS
  <2> HIDE DEF Eq, N
  <2>2. N \in S
    <3> HIDE DEF S
    <3> QED
      BY <1>1, <1>2, <2>1, SetInduction
  <2>3. QED
    BY <2>2
<1>4. HeadersAfter(p) = CHOOSE f : Eq(f, N)
  BY DEF HeadersAfter
<1>5. Eq(HeadersAfter(p), N)
  <2> HIDE DEF Eq
  <2> QED
    BY <1>3, <1>4
<1>6. /\ HeadersAfter(p)[0] = Outcome("CONTINUE_1", p)
      /\ \A n \in 1 .. N : HeadersAfter(p)[n] = ParseHeader(HeadersAfter(p)[n - 1])
  <2>1. N \in Nat
    OBVIOUS
  <2> HIDE DEF N
  <2> QED
    BY <1>5, <2>1
<1>7. QED
  BY <1>6

(* What a moved parser yields, its origin yields. *)
LEMMA YieldsTrans ==
    ASSUME NEW p, NEW q, NEW o, NEW next, Reading(p), Moved(p, q), q.position = p.position, Yields(q, o, next)
    PROVE  Yields(p, o, next)
<1>1. Moved(q, o.p)
  BY DEF Yields
<1> DEFINE r == o.p
<1>2. Moved(q, r)
  BY <1>1
<1> HIDE DEF r
<1>3. Moved(p, r)
  BY <1>2, ReadingIs, MovedTrans
<1>4. QED
  BY <1>3 DEF Yields, r

(* parser_parse_headers: the loop ends with the message. *)
LEMMA HeadersYield ==
    ASSUME NEW p, Reading(p)
    PROVE  Yields(p, ParseHeaders(p), "ENTITY")
<1> DEFINE A == HeadersAfter(p)
           N == Len(p.buf) + 1
           On(n) == /\ A[n].status = "CONTINUE_1" /\ Moved(p, A[n].p)
                    /\ A[n].p.position = p.position /\ A[n].p.cursor >= p.cursor + n
           S == {n \in Nat : n <= N => Yields(p, A[n], "ENTITY") \/ On(n)}
<1>0. Len(p.buf) \in Nat /\ p.cursor \in 0 .. Len(p.buf) /\ p.cursor \in Nat /\ N \in Nat
  BY ReadingIs
<1>1. A[0] = Outcome("CONTINUE_1", p) /\ \A n \in 1 .. N : A[n] = ParseHeader(A[n - 1])
  BY <1>0, HeadersUnfold
<1>2. ParseHeaders(p) = A[N]
  BY DEF ParseHeaders
<1> HIDE DEF A
<1>3. 0 \in S
  <2>1. A[0].status = "CONTINUE_1" /\ A[0].p = p
    BY <1>1, OutcomeIs
  <2>2. On(0)
    BY <1>0, <2>1, MovedSelf
  <2>3. QED
    BY <2>2
<1>4. ASSUME NEW n \in Nat, n \in S PROVE n + 1 \in S
  <2> SUFFICES ASSUME n + 1 <= N PROVE Yields(p, A[n + 1], "ENTITY") \/ On(n + 1)
    OBVIOUS
  <2>1. A[n + 1] = ParseHeader(A[n])
    BY <1>0, <1>1
  <2>2. Yields(p, A[n], "ENTITY") \/ On(n)
    BY <1>0, <1>4
  <2>3. CASE Yields(p, A[n], "ENTITY")
    <3>1. A[n].status # "CONTINUE_1"
      BY <2>3 DEF Yields
    <3>2. A[n + 1] = A[n]
      BY <2>1, <3>1 DEF ParseHeader
    <3>3. QED
      BY <2>3, <3>2
  <2>4. CASE On(n)
    <3> DEFINE q == A[n].p
               o == A[n + 1]
    <3>1. o = HeaderAt(q, GetToken(q.buf, q.cursor, FALSE))
      BY <2>1, <2>4 DEF ParseHeader
    <3>2. Moved(p, q) /\ q.position = p.position /\ q.cursor >= p.cursor + n
      BY <2>4
    <3> HIDE DEF q
    <3>3. Reading(q)
      <4>1. /\ p.position \in {"REQUEST_LINE", "RESPONSE_LINE", "HEADERS", "ENTITY", "COMPLETE"}
            /\ p.position \in {"REQUEST_LINE", "RESPONSE_LINE", "HEADERS"} =>
                 p.ent_position = "DETERMINE_READ_METHOD"
        BY DEF Reading, ParserInv, ParserTypes, Inside
      <4>2. QED
        BY <3>2, <4>1, MovedInside
    <3>4. HeaderYields(q, o)
      BY <3>1, <3>3, HeaderMoves
    <3>5. CASE Yields(q, o, "ENTITY")
      <4> HIDE DEF o
      <4>1. Yields(p, o, "ENTITY")
        BY <3>2, <3>5, YieldsTrans
      <4>2. QED
        BY <4>1 DEF o
    <3>6. CASE /\ o.status = "CONTINUE_1" /\ Moved(q, o.p)
               /\ o.p.position = q.position /\ o.p.cursor > q.cursor
      <4> DEFINE r == o.p
      <4>1. Moved(q, r) /\ r.cursor > q.cursor /\ r.position = p.position
        BY <3>2, <3>6
      <4> HIDE DEF r
      <4>2. Moved(p, r)
        BY <1>0, <3>2, <4>1, MovedTrans
      <4>3. q.cursor \in Nat /\ r.cursor \in Nat
        BY <1>0, <3>2, <4>2 DEF Moved
      <4>4. r.cursor >= p.cursor + (n + 1)
        BY <1>0, <3>2, <4>1, <4>3
      <4>5. On(n + 1)
        BY <3>6, <4>1, <4>2, <4>4 DEF r
      <4>6. QED
        BY <4>5
    <3>7. QED
      BY <3>4, <3>5, <3>6 DEF HeaderYields
  <2>5. QED
    BY <2>2, <2>3, <2>4
<1>5. N \in S
  <2> HIDE DEF S, N
  <2> QED
    BY <1>0, <1>3, <1>4, SetInduction
<1>6. ~On(N)
  <2> SUFFICES ASSUME On(N) PROVE FALSE
    OBVIOUS
  <2>1. A[N].p.cursor \in p.cursor .. Len(p.buf) /\ A[N].p.cursor >= p.cursor + N
    BY DEF Moved
  <2>2. QED
    BY <1>0, <2>1
<1>7. Yields(p, A[N], "ENTITY")
  BY <1>0, <1>5, <1>6
<1>8. QED
  BY <1>2, <1>7

(* What is deleted from a text shortens it. *)
LEMMA DeleteIs ==
    ASSUME NEW s \in Text, NEW i \in Nat, NEW n \in Nat, i + n <= Len(s)
    PROVE  Delete(s, i, n) \in Text /\ Len(Delete(s, i, n)) = Len(s) - n
<1> DEFINE a == SubSeq(s, 1, i)
           j == i + n
           b == SubSeq(s, j + 1, Len(s))
           z == 0
<1>0. Len(s) \in Nat
  BY DEF Text
<1>1. z \in 0 .. Len(s) /\ i \in z .. Len(s) /\ j \in 0 .. Len(s) /\ Len(s) \in j .. Len(s)
  BY <1>0
<1>2. a \in Text /\ Len(a) = i
  <2>1. a = SubSeq(s, z + 1, i)
    OBVIOUS
  <2>2. i - z = i
    OBVIOUS
  <2> HIDE DEF z, a
  <2>3. QED
    BY <1>1, <2>1, <2>2, PartIs
<1>3. b \in Text /\ Len(b) = Len(s) - j
  <2> HIDE DEF j
  <2> QED
    BY <1>1, PartIs
<1>4. Delete(s, i, n) = a \o b
  BY DEF Delete
<1> HIDE DEF a, b
<1>5. a \o b \in Text /\ Len(a \o b) = Len(a) + Len(b)
  BY <1>2, <1>3 DEF Text
<1>6. QED
  BY <1>0, <1>2, <1>3, <1>4, <1>5

(* A parser in the entity, and what a part of the entity makes of it: it   *)
(* goes on only with less of the message left, or once with the way to     *)
(* read the entity determined.                                             *)
InEntity(p) == ParserInv(p) /\ p.position = "ENTITY"

PartOut(p, o) ==
  /\ ParserInv(o.p) /\ o.p.amount_discarded = p.amount_discarded
  /\ o.status \in {"CONTINUE_1", "SUCCESS", "INCOMPLETE", "FAILURE", "NO_MATCH", "INCOMPLETE_ENTITY"}
  /\ o.p.position = IF o.status = "SUCCESS" THEN "COMPLETE" ELSE "ENTITY"
  /\ Len(o.p.buf) <= Len(p.buf)
  /\ o.status = "CONTINUE_1" => /\ o.p.ent_position # "DETERMINE_READ_METHOD"
                                /\ \/ Len(o.p.buf) < Len(p.buf)
                                   \/ p.ent_position = "DETERMINE_READ_METHOD"

(* The fields that most parts leave alone. *)
Kept(p, q) ==
  /\ IsParser(q) /\ q.headers = p.headers
  /\ q.amount_discarded = p.amount_discarded /\ q.entity_start \in Nat /\ q.entity_length \in Nat
  /\ q.content_length \in Nat /\ q.chunk_size \in Nat /\ q.buf \in Text

(* A parser is right when its entity and its cursor are. *)
LEMMA KeptInv ==
    ASSUME NEW p, NEW q, InEntity(p), Kept(p, q), Inside(q), q.position \in {"ENTITY", "COMPLETE"},
           q.ent_position \in {"DETERMINE_READ_METHOD", "USING_CLEN", "USING_CHUNKED", "CHUNKY_BODY",
                               "CHUNKY_HEADERS", "UNTIL_CLOSE"}
    PROVE  ParserInv(q)
BY DEF InEntity, ParserInv, ParserTypes, Kept

(* The outcome of a part that leaves the message as it is. *)
LEMMA SameOut ==
    ASSUME NEW p, NEW q, NEW s, InEntity(p), ParserInv(q), q.amount_discarded = p.amount_discarded,
           s \in {"CONTINUE_1", "SUCCESS", "INCOMPLETE", "FAILURE", "NO_MATCH", "INCOMPLETE_ENTITY"},
           q.position = IF s = "SUCCESS" THEN "COMPLETE" ELSE "ENTITY",
           Len(q.buf) <= Len(p.buf),
           s = "CONTINUE_1" => /\ q.ent_position # "DETERMINE_READ_METHOD"
                               /\ \/ Len(q.buf) < Len(p.buf)
                                  \/ p.ent_position = "DETERMINE_READ_METHOD"
    PROVE  PartOut(p, Outcome(s, q))
<1> DEFINE o == Outcome(s, q)
<1>1. o.status = s /\ o.p = q
  BY OutcomeIs
<1> HIDE DEF o
<1>2. PartOut(p, o)
  BY <1>1 DEF PartOut
<1>3. QED
  BY <1>2 DEF o

(* A body of a length that is known. *)
LEMMA ClenOut ==
    ASSUME NEW p, InEntity(p), p.ent_position = "USING_CLEN"
    PROVE  PartOut(p, ParseEntityUsingClen(p))
<1> DEFINE have == Len(p.buf) - p.entity_start + p.amount_discarded
           q == [p EXCEPT !.entity_length = have]
           r == [p EXCEPT !.entity_length = p.content_length, !.position = "COMPLETE"]
<1>1. /\ IsParser(p) /\ p.buf \in Text /\ Len(p.buf) \in Nat /\ p.cursor \in Int /\ p.headers \in Headers
      /\ p.entity_start \in Nat /\ p.entity_length \in Nat /\ p.amount_discarded \in Nat
      /\ p.content_length \in Nat /\ p.chunk_size \in Nat
      /\ p.amount_discarded <= p.entity_length /\ p.entity_length <= p.content_length
      /\ p.entity_start + p.entity_length - p.amount_discarded <= Len(p.buf)
      /\ p.position = "ENTITY"
  BY DEF InEntity, ParserInv, ParserTypes, Inside, EntityEnd, Text
<1>2. have \in Nat /\ p.amount_discarded <= have
  BY <1>1
<1>3. CASE have < p.content_length
  <2>1. /\ IsParser(q) /\ q.headers = p.headers /\ q.amount_discarded = p.amount_discarded
        /\ q.entity_start = p.entity_start /\ q.entity_length = have /\ q.content_length = p.content_length
        /\ q.chunk_size = p.chunk_size /\ q.buf = p.buf /\ q.cursor = p.cursor
        /\ q.position = "ENTITY" /\ q.ent_position = "USING_CLEN"
    <3> HIDE DEF have
    <3> QED
      BY <1>1 DEF IsParser, ParserFields
  <2>2. ParseEntityUsingClen(p) = Outcome("INCOMPLETE", q)
    BY <1>3 DEF ParseEntityUsingClen
  <2> HIDE DEF q
  <2>3. Inside(q)
    BY <1>1, <1>2, <1>3, <2>1, SMTT(30) DEF Inside, EntityEnd
  <2>4. Kept(p, q)
    BY <1>1, <1>2, <2>1 DEF Kept
  <2>5. ParserInv(q)
    BY <2>1, <2>3, <2>4, KeptInv
  <2>6. QED
    BY <1>1, <2>1, <2>2, <2>5, SameOut
<1>4. CASE ~(have < p.content_length)
  <2>1. /\ IsParser(r) /\ r.headers = p.headers /\ r.amount_discarded = p.amount_discarded
        /\ r.entity_start = p.entity_start /\ r.entity_length = p.content_length
        /\ r.content_length = p.content_length /\ r.chunk_size = p.chunk_size /\ r.buf = p.buf
        /\ r.cursor = p.cursor /\ r.position = "COMPLETE" /\ r.ent_position = "USING_CLEN"
    BY <1>1 DEF IsParser, ParserFields
  <2>2. ParseEntityUsingClen(p) = Outcome("SUCCESS", r)
    BY <1>4 DEF ParseEntityUsingClen
  <2> HIDE DEF r
  <2>3. Inside(r)
    BY <1>1, <1>2, <1>4, <2>1, SMTT(30) DEF Inside, EntityEnd
  <2>4. Kept(p, r)
    BY <1>1, <2>1 DEF Kept
  <2>5. ParserInv(r)
    BY <2>1, <2>3, <2>4, KeptInv
  <2>6. QED
    BY <1>1, <2>1, <2>2, <2>5, SameOut
<1>5. QED
  BY <1>3, <1>4

(* A body that ends when the peer closes. *)
LEMMA CloseOut ==
    ASSUME NEW p, InEntity(p), p.ent_position = "UNTIL_CLOSE"
    PROVE  PartOut(p, ParseEntityUntilClose(p))
<1> DEFINE have == Len(p.buf) - p.entity_start + p.amount_discarded
           n == Len(p.buf)
           q == [p EXCEPT !.entity_length = have, !.cursor = n]
<1>1. /\ IsParser(p) /\ p.buf \in Text /\ n \in Nat /\ p.cursor \in 0 .. n
      /\ p.entity_start \in Nat /\ p.entity_length \in Nat /\ p.amount_discarded \in Nat
      /\ p.content_length \in Nat /\ p.chunk_size \in Nat
      /\ p.amount_discarded <= p.entity_length
      /\ p.entity_start + p.entity_length - p.amount_discarded <= p.cursor
      /\ p.position = "ENTITY"
  BY DEF InEntity, ParserInv, ParserTypes, Inside, EntityEnd, Text
<1>2. have \in Nat /\ p.amount_discarded <= have /\ p.entity_start + have - p.amount_discarded = n
  <2> DEFINE s0 == p.entity_start
             l0 == p.entity_length
             a0 == p.amount_discarded
             c0 == p.cursor
  <2>1. /\ s0 \in Nat /\ l0 \in Nat /\ a0 \in Nat /\ n \in Nat /\ c0 \in 0 .. n
        /\ a0 <= l0 /\ s0 + l0 - a0 <= c0 /\ have = n - s0 + a0
    BY <1>1
  <2> HIDE DEF s0, l0, a0, c0, n, have
  <2>2. have \in Nat /\ a0 <= have /\ s0 + have - a0 = n
    BY <2>1
  <2>3. QED
    BY <2>2 DEF s0, a0
<1>3. /\ IsParser(q) /\ q.headers = p.headers /\ q.amount_discarded = p.amount_discarded
      /\ q.entity_start = p.entity_start /\ q.entity_length = have /\ q.content_length = p.content_length
      /\ q.chunk_size = p.chunk_size /\ q.buf = p.buf /\ q.cursor = n
      /\ q.position = "ENTITY" /\ q.ent_position = "UNTIL_CLOSE"
  <2> HIDE DEF have, n
  <2> QED
    BY <1>1 DEF IsParser, ParserFields
<1>4. ParseEntityUntilClose(p) = Outcome("INCOMPLETE_ENTITY", q)
  BY DEF ParseEntityUntilClose
<1> HIDE DEF q, have
<1>5. Inside(q)
  <2>1. EntityEnd(q) = n /\ Len(q.buf) = n
    BY <1>2, <1>3 DEF EntityEnd
  <2> HIDE DEF n
  <2>2. n \in 0 .. n /\ n <= n
    BY <1>1
  <2>3. QED
    BY <1>2, <1>3, <2>1, <2>2 DEF Inside
<1>6. Kept(p, q)
  BY <1>1, <1>2, <1>3 DEF Kept
<1>7. ParserInv(q)
  BY <1>3, <1>5, <1>6, KeptInv
<1>8. QED
  BY <1>1, <1>3, <1>4, <1>7, SameOut

(* parser_get_entity_read_method. *)
LEMMA MethodOut ==
    ASSUME NEW p, InEntity(p), p.ent_position = "DETERMINE_READ_METHOD"
    PROVE  PartOut(p, GetEntityReadMethod(p)) /\ GetEntityReadMethod(p).p.position \in {"ENTITY", "COMPLETE"}
<1> DEFINE q  == [p EXCEPT !.entity_length = 0, !.entity_start = p.cursor]
           te == HttpHeaderNames.TRANSFER_ENCODING
           cl == HttpHeaderNames.CONTENT_LENGTH
           x  == ToInt(RawToInt(HdrValue(q, cl), 10))
           hk == q.valid_ssdp_notify_hack \/ q.method = "NOTIFY"
           q1 == [q EXCEPT !.position = "COMPLETE"]
           q2 == [q EXCEPT !.ent_position = "USING_CHUNKED"]
           q3 == [q EXCEPT !.ent_position = "USING_CLEN", !.content_length = x]
           q4 == [q EXCEPT !.valid_ssdp_notify_hack = hk]
           q5 == [q4 EXCEPT !.http_error_code = "LENGTH_REQUIRED"]
           q6 == [q EXCEPT !.ent_position = "UNTIL_CLOSE"]
           o  == GetEntityReadMethod(p)
<1>1. /\ IsParser(p) /\ p.buf \in Text /\ Len(p.buf) \in Nat /\ p.cursor \in 0 .. Len(p.buf) /\ p.headers \in Headers
      /\ p.amount_discarded = 0 /\ p.content_length \in Nat /\ p.chunk_size \in Nat
      /\ p.position = "ENTITY"
  BY DEF InEntity, ParserInv, ParserTypes, Inside, Text
<1>2. \/ o = Outcome("SUCCESS", q1) \/ o = Outcome("CONTINUE_1", q2)
      \/ (FindHdr(q, cl) # 0 /\ o = Outcome("CONTINUE_1", q3))
      \/ o = Outcome("FAILURE", q5) \/ o = Outcome("CONTINUE_1", q6)
  BY DEF GetEntityReadMethod, Failed
<1>3. /\ IsParser(q) /\ q.headers = p.headers /\ q.amount_discarded = 0
      /\ q.entity_start = p.cursor /\ q.entity_length = 0 /\ q.content_length = p.content_length
      /\ q.chunk_size = p.chunk_size /\ q.buf = p.buf /\ q.cursor = p.cursor
      /\ q.position = "ENTITY" /\ q.ent_position = "DETERMINE_READ_METHOD"
  BY <1>1 DEF IsParser, ParserFields
<1>4. FindHdr(q, cl) # 0 => x \in Nat
  <2> HAVE FindHdr(q, cl) # 0
  <2>1. q.headers \in Headers
    BY <1>1, <1>3
  <2> HIDE DEF q, cl
  <2> DEFINE v == HdrValue(q, cl)
  <2>2. v \in Text
    BY <2>1, ValueIs
  <2>3. Len(v) \in Nat
    BY <2>2 DEF Text
  <2> HIDE DEF v
  <2>4. RawToInt(v, 10) \in Int
    BY <2>3, LongIs
  <2>5. QED
    BY <2>4, IntIs DEF v
<1> HIDE DEF q, cl, x, hk, o
<1> DEFINE Out(s, r) == PartOut(p, Outcome(s, r)) /\ r.position \in {"ENTITY", "COMPLETE"}
<1>5. Out("SUCCESS", q1)
  <2>0. /\ IsParser(q1) /\ q1.headers = q.headers /\ q1.amount_discarded = q.amount_discarded
        /\ q1.entity_start = q.entity_start /\ q1.entity_length = q.entity_length
        /\ q1.content_length = q.content_length /\ q1.chunk_size = q.chunk_size
        /\ q1.buf = q.buf /\ q1.cursor = q.cursor
        /\ q1.position = "COMPLETE" /\ q1.ent_position = "DETERMINE_READ_METHOD"
    BY <1>3 DEF IsParser, ParserFields
  <2> HIDE DEF q1
  <2>1. /\ Kept(p, q1) /\ q1.entity_start = p.cursor /\ q1.entity_length = 0 /\ q1.amount_discarded = 0
        /\ q1.buf = p.buf /\ q1.cursor = p.cursor
        /\ q1.position = "COMPLETE" /\ q1.ent_position = "DETERMINE_READ_METHOD"
    BY <1>1, <1>3, <2>0 DEF Kept
  <2>2. Inside(q1)
    BY <1>1, <2>1 DEF Inside, EntityEnd
  <2>3. ParserInv(q1)
    BY <2>1, <2>2, KeptInv
  <2>4. QED
    BY <1>1, <2>1, <2>3, SameOut
<1>6. Out("CONTINUE_1", q2)
  <2>0. /\ IsParser(q2) /\ q2.headers = q.headers /\ q2.amount_discarded = q.amount_discarded
        /\ q2.entity_start = q.entity_start /\ q2.entity_length = q.entity_length
        /\ q2.content_length = q.content_length /\ q2.chunk_size = q.chunk_size
        /\ q2.buf = q.buf /\ q2.cursor = q.cursor
        /\ q2.position = "ENTITY" /\ q2.ent_position = "USING_CHUNKED"
    BY <1>3 DEF IsParser, ParserFields
  <2> HIDE DEF q2
  <2>1. /\ Kept(p, q2) /\ q2.entity_start = p.cursor /\ q2.entity_length = 0 /\ q2.amount_discarded = 0
        /\ q2.buf = p.buf /\ q2.cursor = p.cursor
        /\ q2.position = "ENTITY" /\ q2.ent_position = "USING_CHUNKED"
    BY <1>1, <1>3, <2>0 DEF Kept
  <2>2. Inside(q2)
    BY <1>1, <2>1 DEF Inside, EntityEnd
  <2>3. ParserInv(q2)
    BY <2>1, <2>2, KeptInv
  <2>4. QED
    BY <1>1, <2>1, <2>3, SameOut
<1>7. x \in Nat => Out("CONTINUE_1", q3)
  <2> HAVE x \in Nat
  <2>0. /\ IsParser(q3) /\ q3.headers = q.headers /\ q3.amount_discarded = q.amount_discarded
        /\ q3.entity_start = q.entity_start /\ q3.entity_length = q.entity_length
        /\ q3.content_length = x /\ q3.chunk_size = q.chunk_size
        /\ q3.buf = q.buf /\ q3.cursor = q.cursor
        /\ q3.position = "ENTITY" /\ q3.ent_position = "USING_CLEN"
    BY <1>3 DEF IsParser, ParserFields
  <2> HIDE DEF q3
  <2>1. /\ Kept(p, q3) /\ q3.entity_start = p.cursor /\ q3.entity_length = 0 /\ q3.amount_discarded = 0
        /\ q3.buf = p.buf /\ q3.cursor = p.cursor /\ q3.content_length = x
        /\ q3.position = "ENTITY" /\ q3.ent_position = "USING_CLEN"
    BY <1>1, <1>3, <2>0 DEF Kept
  <2>2. Inside(q3)
    BY <1>1, <2>1 DEF Inside, EntityEnd
  <2>3. ParserInv(q3)
    BY <2>1, <2>2, KeptInv
  <2>4. QED
    BY <1>1, <2>1, <2>3, SameOut
<1>8. Out("FAILURE", q5)
  <2>1. /\ Kept(p, q4) /\ q4.entity_start = p.cursor /\ q4.entity_length = 0 /\ q4.amount_discarded = 0
        /\ q4.buf = p.buf /\ q4.cursor = p.cursor
        /\ q4.position = "ENTITY" /\ q4.ent_position = "DETERMINE_READ_METHOD"
    BY <1>1, <1>3, SMTT(30) DEF Kept, IsParser, ParserFields
  <2> HIDE DEF q4
  <2>2. /\ Kept(p, q5) /\ q5.entity_start = p.cursor /\ q5.entity_length = 0 /\ q5.amount_discarded = 0
        /\ q5.buf = p.buf /\ q5.cursor = p.cursor
        /\ q5.position = "ENTITY" /\ q5.ent_position = "DETERMINE_READ_METHOD"
    BY <1>1, <2>1 DEF Kept, IsParser, ParserFields
  <2> HIDE DEF q5
  <2>3. Inside(q5)
    BY <1>1, <2>2 DEF Inside, EntityEnd
  <2>4. ParserInv(q5)
    BY <2>2, <2>3, KeptInv
  <2>5. QED
    BY <1>1, <2>2, <2>4, SameOut
<1>9. Out("CONTINUE_1", q6)
  <2>0. /\ IsParser(q6) /\ q6.headers = q.headers /\ q6.amount_discarded = q.amount_discarded
        /\ q6.entity_start = q.entity_start /\ q6.entity_length = q.entity_length
        /\ q6.content_length = q.content_length /\ q6.chunk_size = q.chunk_size
        /\ q6.buf = q.buf /\ q6.cursor = q.cursor
        /\ q6.position = "ENTITY" /\ q6.ent_position = "UNTIL_CLOSE"
    BY <1>3 DEF IsParser, ParserFields
  <2> HIDE DEF q6
  <2>1. /\ Kept(p, q6) /\ q6.entity_start = p.cursor /\ q6.entity_length = 0 /\ q6.amount_discarded = 0
        /\ q6.buf = p.buf /\ q6.cursor = p.cursor
        /\ q6.position = "ENTITY" /\ q6.ent_position = "UNTIL_CLOSE"
    BY <1>1, <1>3, <2>0 DEF Kept
  <2>2. Inside(q6)
    BY <1>1, <2>1 DEF Inside, EntityEnd
  <2>3. ParserInv(q6)
    BY <2>1, <2>2, KeptInv
  <2>4. QED
    BY <1>1, <2>1, <2>3, SameOut
<1> HIDE DEF q1, q2, q3, q5, q6
<1>10. PartOut(p, o) /\ o.p.position \in {"ENTITY", "COMPLETE"}
  BY <1>2, <1>4, <1>5, <1>6, <1>7, <1>8, <1>9, OutcomeIs
<1>11. QED
  BY <1>10 DEF o

(* The line that announces a chunk. *)
LEMMA ChunkLineOut ==
    ASSUME NEW p, InEntity(p), p.ent_position = "USING_CHUNKED"
    PROVE  PartOut(p, ParseChunkyEntity(p))
<1> DEFINE buf == p.buf
           c == p.cursor
           m == Match(buf, c, <<"%x", "%L", "%c">>)
           n == m.cursor - c
           d == Delete(buf, c, n)
           k == m.val[1]
           q == [p EXCEPT !.buf = d]
           el == q.cursor - q.entity_start + q.amount_discarded
           r == [q EXCEPT !.chunk_size = 0, !.ent_position = "CHUNKY_HEADERS", !.entity_length = el]
           s == [q EXCEPT !.chunk_size = k, !.ent_position = "CHUNKY_BODY"]
           o == ParseChunkyEntity(p)
<1>1. /\ IsParser(p) /\ buf \in Text /\ Len(buf) \in Nat /\ c \in 0 .. Len(buf) /\ c \in Nat
      /\ p.entity_start \in Nat /\ p.entity_length \in Nat /\ p.amount_discarded \in Nat
      /\ p.content_length \in Nat /\ p.chunk_size \in Nat
      /\ p.amount_discarded <= p.entity_length
      /\ p.entity_start + p.entity_length - p.amount_discarded <= c
      /\ p.position = "ENTITY"
  BY DEF InEntity, ParserInv, ParserTypes, Inside, EntityEnd, Text
<1>2. o = IF m.status # "OK" THEN Outcome(m.status, p)
          ELSE Outcome("CONTINUE_1", IF k = 0 THEN r ELSE s)
  BY DEF ParseChunkyEntity, Announced
<1>3. MatchAt(m, c, Len(buf)) /\ (m.status = "OK" => m.cursor > c /\ k \in Nat)
  <2> HIDE DEF buf, c
  <2> QED
    BY <1>1, ChunkLineMatches
<1> HIDE DEF m, o
<1>4. m.status \in {"OK", "INCOMPLETE", "FAILURE", "NO_MATCH"} /\ m.cursor \in c .. Len(buf)
  BY <1>3 DEF MatchAt
<1>5. CASE m.status # "OK"
  <2>1. m.status \in {"INCOMPLETE", "FAILURE", "NO_MATCH"} /\ o = Outcome(m.status, p) /\ ParserInv(p)
    BY <1>2, <1>4, <1>5 DEF InEntity
  <2>2. PartOut(p, o)
    BY <1>1, <2>1, SameOut
  <2>3. QED
    BY <2>2 DEF o
<1>6. CASE m.status = "OK"
  <2>1. n \in Nat /\ n > 0 /\ c + n <= Len(buf) /\ k \in Nat
    BY <1>1, <1>3, <1>4, <1>6
  <2> HIDE DEF n, k
  <2>2. d \in Text /\ Len(d) = Len(buf) - n
    <3> HIDE DEF buf, c
    <3> QED
      BY <1>1, <2>1, DeleteIs
  <2> HIDE DEF d
  <2>3. /\ IsParser(q) /\ q.headers = p.headers /\ q.amount_discarded = p.amount_discarded
        /\ q.entity_start = p.entity_start /\ q.entity_length = p.entity_length
        /\ q.content_length = p.content_length /\ q.chunk_size = p.chunk_size
        /\ q.buf = d /\ q.cursor = c /\ q.position = "ENTITY"
    BY <1>1 DEF IsParser, ParserFields
  <2> HIDE DEF q
  <2>4. el \in Nat /\ p.amount_discarded <= el /\ p.entity_start + el - p.amount_discarded = c
    BY <1>1, <2>3, SMTT(30)
  <2> HIDE DEF el
  <2>5. /\ Kept(p, r) /\ r.entity_start = p.entity_start /\ r.entity_length = el
        /\ r.amount_discarded = p.amount_discarded /\ r.buf = d /\ r.cursor = c
        /\ r.position = "ENTITY" /\ r.ent_position = "CHUNKY_HEADERS"
    BY <1>1, <2>2, <2>3, <2>4 DEF Kept, IsParser, ParserFields
  <2>6. /\ Kept(p, s) /\ s.entity_start = p.entity_start /\ s.entity_length = p.entity_length
        /\ s.amount_discarded = p.amount_discarded /\ s.buf = d /\ s.cursor = c
        /\ s.position = "ENTITY" /\ s.ent_position = "CHUNKY_BODY"
    BY <1>1, <2>1, <2>2, <2>3 DEF Kept, IsParser, ParserFields
  <2> HIDE DEF r, s
  <2>7. c \in 0 .. Len(d) /\ Len(d) < Len(buf) /\ Len(d) \in Nat
    BY <1>1, <2>1, <2>2
  <2>8. Inside(r)
    BY <1>1, <2>4, <2>5, <2>7 DEF Inside, EntityEnd
  <2>9. Inside(s)
    BY <1>1, <2>6, <2>7 DEF Inside, EntityEnd
  <2>10. ParserInv(r) /\ ParserInv(s)
    BY <2>5, <2>6, <2>8, <2>9, KeptInv
  <2>11. PartOut(p, Outcome("CONTINUE_1", r)) /\ PartOut(p, Outcome("CONTINUE_1", s))
    <3>1. Len(r.buf) < Len(p.buf) /\ Len(s.buf) < Len(p.buf)
      BY <2>5, <2>6, <2>7
    <3>2. Len(r.buf) <= Len(p.buf) /\ Len(s.buf) <= Len(p.buf)
      BY <1>1, <2>5, <2>6, <2>7
    <3>3. PartOut(p, Outcome("CONTINUE_1", r))
      BY <2>5, <2>10, <3>1, <3>2, SameOut
    <3>4. PartOut(p, Outcome("CONTINUE_1", s))
      BY <2>6, <2>10, <3>1, <3>2, SameOut
    <3>5. QED
      BY <3>3, <3>4
  <2>12. PartOut(p, o)
    BY <1>2, <1>6, <2>11
  <2>13. QED
    BY <2>12 DEF o
<1>7. QED
  BY <1>5, <1>6

(* A chunk and the line end after it. *)
LEMMA ChunkOut ==
    ASSUME NEW p, InEntity(p), p.ent_position = "CHUNKY_BODY"
    PROVE  PartOut(p, ParseChunkyBody(p))
<1> DEFINE buf == p.buf
           c == p.cursor
           end == c + p.chunk_size
           m == Match(buf, end, <<"%c">>)
           n == m.cursor - end
           d == Delete(buf, end, n)
           el == p.entity_length + p.chunk_size
           q == [p EXCEPT !.buf = d, !.cursor = end, !.entity_length = el, !.ent_position = "USING_CHUNKED"]
           o == ParseChunkyBody(p)
<1>1. /\ IsParser(p) /\ buf \in Text /\ Len(buf) \in Nat /\ c \in 0 .. Len(buf) /\ c \in Nat
      /\ p.entity_start \in Nat /\ p.entity_length \in Nat /\ p.amount_discarded \in Nat
      /\ p.content_length \in Nat /\ p.chunk_size \in Nat
      /\ p.amount_discarded <= p.entity_length
      /\ p.entity_start + p.entity_length - p.amount_discarded <= c
      /\ p.position = "ENTITY" /\ ParserInv(p)
  BY DEF InEntity, ParserInv, ParserTypes, Inside, EntityEnd, Text
<1>2. o = IF Len(buf) < end THEN Outcome("INCOMPLETE", p)
          ELSE IF m.status # "OK" THEN Outcome(m.status, p) ELSE Outcome("CONTINUE_1", q)
  BY DEF ParseChunkyBody
<1>3. el \in Nat /\ end \in Nat /\ p.amount_discarded <= el /\ p.entity_start + el - p.amount_discarded <= end
  <2> DEFINE s0 == p.entity_start
             l0 == p.entity_length
             a0 == p.amount_discarded
             k0 == p.chunk_size
  <2>1. /\ s0 \in Nat /\ l0 \in Nat /\ a0 \in Nat /\ k0 \in Nat /\ c \in Nat
        /\ a0 <= l0 /\ s0 + l0 - a0 <= c /\ el = l0 + k0 /\ end = c + k0
    BY <1>1
  <2> HIDE DEF s0, l0, a0, k0, c, el, end
  <2>2. el \in Nat /\ end \in Nat /\ a0 <= el /\ s0 + el - a0 <= end
    BY <2>1
  <2>3. QED
    BY <2>2 DEF s0, a0
<1> HIDE DEF o
<1>4. CASE Len(buf) < end
  <2>1. o = Outcome("INCOMPLETE", p)
    BY <1>2, <1>4
  <2>2. PartOut(p, o)
    BY <1>1, <2>1, SameOut
  <2>3. QED
    BY <2>2 DEF o
<1>5. CASE ~(Len(buf) < end)
  <2>1. end \in 0 .. Len(buf)
    <3>1. Len(buf) \in Nat /\ end \in Nat
      BY <1>1, <1>3
    <3> HIDE DEF buf, end
    <3>2. QED
      BY <1>5, <3>1
  <2>2. MatchAt(m, end, Len(buf)) /\ (m.status = "OK" => m.cursor > end)
    <3> HIDE DEF buf, end
    <3> QED
      BY <1>1, <2>1, LineEndMatches
  <2> HIDE DEF m, end, el
  <2>3. m.status \in {"OK", "INCOMPLETE", "FAILURE", "NO_MATCH"} /\ m.cursor \in end .. Len(buf)
    BY <2>2 DEF MatchAt
  <2>4. CASE m.status # "OK"
    <3>1. m.status \in {"INCOMPLETE", "FAILURE", "NO_MATCH"} /\ o = Outcome(m.status, p)
      BY <1>2, <1>5, <2>3, <2>4
    <3>2. PartOut(p, o)
      BY <1>1, <3>1, SameOut
    <3>3. QED
      BY <3>2 DEF o
  <2>5. CASE m.status = "OK"
    <3>1. n \in Nat /\ n > 0 /\ end + n <= Len(buf)
      <4> DEFINE lb == Len(buf)
                 mc == m.cursor
      <4>1. lb \in Nat /\ end \in Nat /\ mc \in end .. lb /\ mc > end /\ n = mc - end
        BY <1>1, <1>3, <2>2, <2>3, <2>5
      <4> HIDE DEF lb, mc, n
      <4>2. n \in Nat /\ n > 0 /\ end + n <= lb
        BY <4>1
      <4>3. QED
        BY <4>2 DEF lb
    <3> HIDE DEF n
    <3>2. d \in Text /\ Len(d) = Len(buf) - n
      <4> HIDE DEF buf
      <4> QED
        BY <1>1, <1>3, <3>1, DeleteIs
    <3> HIDE DEF d
    <3>3. /\ Kept(p, q) /\ q.entity_start = p.entity_start /\ q.entity_length = el
          /\ q.amount_discarded = p.amount_discarded /\ q.buf = d /\ q.cursor = end
          /\ q.position = "ENTITY" /\ q.ent_position = "USING_CHUNKED"
      BY <1>1, <1>3, <3>2 DEF Kept, IsParser, ParserFields
    <3> HIDE DEF q
    <3>4. end \in 0 .. Len(d) /\ Len(d) < Len(buf) /\ Len(d) \in Nat
      BY <1>1, <1>3, <3>1, <3>2
    <3>5. Inside(q)
      BY <1>1, <1>3, <3>3, <3>4 DEF Inside, EntityEnd
    <3>6. ParserInv(q)
      BY <3>3, <3>5, KeptInv
    <3>7. PartOut(p, Outcome("CONTINUE_1", q))
      BY <1>1, <3>3, <3>4, <3>6, SameOut, SMTT(30)
    <3>8. PartOut(p, o)
      BY <1>2, <1>5, <2>5, <3>7
    <3>9. QED
      BY <3>8 DEF o
  <2>6. QED
    BY <2>4, <2>5
<1>6. QED
  BY <1>4, <1>5

(* The headers after the last chunk. *)
LEMMA TrailerOut ==
    ASSUME NEW p, InEntity(p), p.ent_position = "CHUNKY_HEADERS"
    PROVE  PartOut(p, ParseChunkyHeaders(p))
<1> DEFINE h == ParseHeaders(p)
           q == h.p
           buf == p.buf
           c == p.cursor
           n == q.cursor - p.cursor
           d == Delete(q.buf, p.cursor, n)
           r == [q EXCEPT !.position = "COMPLETE", !.cursor = p.cursor, !.buf = d]
           o == ParseChunkyHeaders(p)
<1>1. /\ IsParser(p) /\ buf \in Text /\ Len(buf) \in Nat /\ c \in 0 .. Len(buf) /\ c \in Nat
      /\ p.entity_start \in Nat /\ p.entity_length \in Nat /\ p.amount_discarded \in Nat
      /\ p.content_length \in Nat /\ p.chunk_size \in Nat
      /\ p.amount_discarded <= p.entity_length
      /\ p.entity_start + p.entity_length - p.amount_discarded <= c
      /\ p.position = "ENTITY" /\ Reading(p)
  BY DEF InEntity, Reading, ParserInv, ParserTypes, Inside, EntityEnd, Text
<1>2. o = IF h.status # "OK" THEN h ELSE Outcome("SUCCESS", r)
  BY DEF ParseChunkyHeaders
<1>3. Yields(p, h, "ENTITY")
  BY <1>1, HeadersYield
<1> HIDE DEF h, o
<1>4. /\ Moved(p, q) /\ h.status \in {"OK", "SUCCESS", "INCOMPLETE", "FAILURE", "NO_MATCH"}
      /\ q.position = IF h.status = "SUCCESS" THEN "COMPLETE" ELSE "ENTITY"
  BY <1>1, <1>3 DEF Yields
<1> HIDE DEF q
<1>5. CASE h.status # "OK"
  <2>1. Reading(q)
    BY <1>1, <1>4, MovedInside
  <2>2. PartOut(p, o)
    BY <1>1, <1>2, <1>4, <1>5, <2>1 DEF PartOut, Reading, Moved, q
  <2>3. QED
    BY <2>2 DEF o
<1>6. CASE h.status = "OK"
  <2>1. IsParser(q) /\ q.buf = buf /\ q.headers \in Headers /\ q.cursor \in c .. Len(buf)
        /\ q.ent_position = "CHUNKY_HEADERS" /\ q.entity_start = p.entity_start
        /\ q.entity_length = p.entity_length /\ q.amount_discarded = p.amount_discarded
        /\ q.content_length = p.content_length /\ q.chunk_size = p.chunk_size
    BY <1>4 DEF Moved
  <2>2. n \in Nat /\ c + n <= Len(buf)
    BY <1>1, <2>1
  <2> HIDE DEF n
  <2>3. d \in Text /\ Len(d) = Len(buf) - n
    <3>1. d = Delete(buf, c, n)
      BY <2>1
    <3> HIDE DEF buf, c, d
    <3>2. QED
      BY <1>1, <2>2, <3>1, DeleteIs
  <2> HIDE DEF d
  <2>4. /\ IsParser(r) /\ r.headers \in Headers /\ r.entity_start = p.entity_start
        /\ r.entity_length = p.entity_length /\ r.content_length = p.content_length
        /\ r.amount_discarded = p.amount_discarded /\ r.buf = d /\ r.cursor = c
        /\ r.chunk_size = p.chunk_size
        /\ r.position = "COMPLETE" /\ r.ent_position = "CHUNKY_HEADERS"
    BY <2>1 DEF IsParser, ParserFields
  <2> HIDE DEF r
  <2>5. c \in 0 .. Len(d) /\ Len(d) <= Len(buf) /\ Len(d) \in Nat
    BY <1>1, <2>2, <2>3, SMTT(30)
  <2>6. Inside(r)
    BY <1>1, <2>4, <2>5 DEF Inside, EntityEnd
  <2>7. ParserInv(r)
    BY <1>1, <2>3, <2>4, <2>6 DEF ParserInv, ParserTypes
  <2>8. PartOut(p, Outcome("SUCCESS", r))
    BY <1>1, <2>4, <2>5, <2>7, SameOut
  <2>9. PartOut(p, o)
    BY <1>2, <1>6, <2>8
  <2>10. QED
    BY <2>9 DEF o
<1>7. QED
  BY <1>5, <1>6

(* One more part of the entity. *)
LEMMA PartYields ==
    ASSUME NEW o, o.status = "CONTINUE_1", InEntity(o.p)
    PROVE  PartOut(o.p, ParseEntityPart(o))
<1> DEFINE p == o.p
           x == ParseEntityPart(o)
<1>1. x = CASE p.ent_position = "USING_CLEN"            -> ParseEntityUsingClen(p)
            [] p.ent_position = "USING_CHUNKED"         -> ParseChunkyEntity(p)
            [] p.ent_position = "CHUNKY_BODY"           -> ParseChunkyBody(p)
            [] p.ent_position = "CHUNKY_HEADERS"        -> ParseChunkyHeaders(p)
            [] p.ent_position = "UNTIL_CLOSE"           -> ParseEntityUntilClose(p)
            [] p.ent_position = "DETERMINE_READ_METHOD" -> GetEntityReadMethod(p)
  BY DEF ParseEntityPart, EntityPart
<1>2. InEntity(p) /\ p.ent_position \in {"DETERMINE_READ_METHOD", "USING_CLEN", "USING_CHUNKED",
                                         "CHUNKY_BODY", "CHUNKY_HEADERS", "UNTIL_CLOSE"}
  BY DEF InEntity, ParserInv, ParserTypes
<1> HIDE DEF p, x
<1>3. CASE p.ent_position = "USING_CLEN"
  <2>1. x = ParseEntityUsingClen(p)
    BY <1>1, <1>3
  <2>2. QED
    BY <1>2, <1>3, <2>1, ClenOut DEF x, p
<1>4. CASE p.ent_position = "USING_CHUNKED"
  <2>1. x = ParseChunkyEntity(p)
    BY <1>1, <1>4
  <2>2. QED
    BY <1>2, <1>4, <2>1, ChunkLineOut DEF x, p
<1>5. CASE p.ent_position = "CHUNKY_BODY"
  <2>1. x = ParseChunkyBody(p)
    BY <1>1, <1>5
  <2>2. QED
    BY <1>2, <1>5, <2>1, ChunkOut DEF x, p
<1>6. CASE p.ent_position = "CHUNKY_HEADERS"
  <2>1. x = ParseChunkyHeaders(p)
    BY <1>1, <1>6
  <2>2. QED
    BY <1>2, <1>6, <2>1, TrailerOut DEF x, p
<1>7. CASE p.ent_position = "UNTIL_CLOSE"
  <2>1. x = ParseEntityUntilClose(p)
    BY <1>1, <1>7
  <2>2. QED
    BY <1>2, <1>7, <2>1, CloseOut DEF x, p
<1>8. CASE p.ent_position = "DETERMINE_READ_METHOD"
  <2>1. x = GetEntityReadMethod(p)
    BY <1>1, <1>8
  <2>2. QED
    BY <1>2, <1>8, <2>1, MethodOut DEF x, p
<1>9. QED
  BY <1>2, <1>3, <1>4, <1>5, <1>6, <1>7, <1>8

(* The entity, after one more part. *)
LEMMA EntityUnfolds ==
    ASSUME NEW p, Len(p.buf) \in Nat
    PROVE  /\ EntityAfter(p)[0] = Outcome("CONTINUE_1", p)
           /\ \A n \in 1 .. Len(p.buf) + 2 : EntityAfter(p)[n] = ParseEntityPart(EntityAfter(p)[n - 1])
<1> DEFINE Eq(f, m) == f = [n \in 0 .. m |-> IF n = 0 THEN Outcome("CONTINUE_1", p) ELSE ParseEntityPart(f[n - 1])]
           S == {m \in Nat : \E f : Eq(f, m)}
<1>1. 0 \in S
  <2>1. Eq([n \in 0 .. 0 |-> Outcome("CONTINUE_1", p)], 0)
    OBVIOUS
  <2>2. QED
    BY <2>1
<1>2. ASSUME NEW m \in Nat, m \in S PROVE m + 1 \in S
  <2>1. PICK f : Eq(f, m)
    BY <1>2
  <2> DEFINE g == [n \in 0 .. m + 1 |-> IF n <= m THEN f[n] ELSE ParseEntityPart(f[m])]
  <2>2. \A n \in 0 .. m : g[n] = f[n]
    OBVIOUS
  <2>3. \A n \in 0 .. m + 1 : g[n] = IF n = 0 THEN Outcome("CONTINUE_1", p) ELSE ParseEntityPart(g[n - 1])
    <3>1. TAKE n \in 0 .. m + 1
    <3>2. CASE n = m + 1
      BY <3>2, <2>2
    <3>3. CASE n \in 1 .. m
      <4>1. n \in 0 .. m /\ n - 1 \in 0 .. m /\ n # 0
        BY <3>3
      <4>2. f[n] = ParseEntityPart(f[n - 1])
        BY <4>1, <2>1
      <4>3. QED
        BY <4>1, <4>2, <2>2
    <3>4. CASE n = 0
      BY <3>4, <2>1, <2>2
    <3>5. QED
      BY <3>2, <3>3, <3>4
  <2>4. Eq(g, m + 1)
    <3> HIDE DEF g
    <3> SUFFICES g = [n \in 0 .. m + 1 |-> g[n]]
      BY <2>3
    <3> QED
      BY DEF g
  <2>5. QED
    <3> HIDE DEF Eq, g
    <3> QED
      BY <2>4
<1> DEFINE N == Len(p.buf) + 2
<1>3. \E f : Eq(f, N)
  <2>1. N \in Nat
    OBVIOUS
  <2> HIDE DEF Eq, N
  <2>2. N \in S
    <3> HIDE DEF S
    <3> QED
      BY <1>1, <1>2, <2>1, SetInduction
  <2>3. QED
    BY <2>2
<1>4. EntityAfter(p) = CHOOSE f : Eq(f, N)
  BY DEF EntityAfter
<1>5. Eq(EntityAfter(p), N)
  <2> HIDE DEF Eq
  <2> QED
    BY <1>3, <1>4
<1>6. /\ EntityAfter(p)[0] = Outcome("CONTINUE_1", p)
      /\ \A n \in 1 .. N : EntityAfter(p)[n] = ParseEntityPart(EntityAfter(p)[n - 1])
  <2>1. N \in Nat
    OBVIOUS
  <2> HIDE DEF N
  <2> QED
    BY <1>5, <2>1
<1>7. QED
  BY <1>6

(* What parser_parse_entity and parser_parse yield. *)
Parsed(p, o) ==
  /\ ParserInv(o.p) /\ o.p.amount_discarded = p.amount_discarded
  /\ o.status \in {"SUCCESS", "INCOMPLETE", "FAILURE", "NO_MATCH", "INCOMPLETE_ENTITY"}
  /\ o.p.position = "COMPLETE" => o.status = "SUCCESS"

(* parser_parse_entity: the loop ends with the message. *)
LEMMA EntityYields ==
    ASSUME NEW p, InEntity(p)
    PROVE  Parsed(p, ParseEntity(p)) /\ ParseEntity(p).p.position \in {"ENTITY", "COMPLETE"}
<1> DEFINE A == EntityAfter(p)
           lp == Len(p.buf)
           N == lp + 2
           Fits(o) == /\ ParserInv(o.p) /\ o.p.amount_discarded = p.amount_discarded
                      /\ o.p.position = IF o.status = "SUCCESS" THEN "COMPLETE" ELSE "ENTITY"
           Ends(o) == o.status \in {"SUCCESS", "INCOMPLETE", "FAILURE", "NO_MATCH", "INCOMPLETE_ENTITY"}
           On(o, n) == /\ o.status = "CONTINUE_1"
                       /\ Len(o.p.buf) + n <= lp + 1
                       /\ n = 0 => o.p = p
                       /\ n # 0 => o.p.ent_position # "DETERMINE_READ_METHOD"
           Good(o, n) == Fits(o) /\ (Ends(o) \/ On(o, n))
           S == {n \in Nat : n <= N => Good(A[n], n)}
<1>0. lp \in Nat /\ N \in Nat
  BY DEF InEntity, ParserInv, ParserTypes, Text
<1>1. A[0] = Outcome("CONTINUE_1", p) /\ \A n \in 1 .. N : A[n] = ParseEntityPart(A[n - 1])
  BY <1>0, EntityUnfolds
<1>2. ParseEntity(p) = A[N]
  BY DEF ParseEntity
<1> HIDE DEF A
<1>3. 0 \in S
  <2> DEFINE o == A[0]
  <2>1. o.status = "CONTINUE_1" /\ o.p = p
    BY <1>1, OutcomeIs
  <2> HIDE DEF o
  <2>2. Fits(o) /\ On(o, 0)
    BY <1>0, <2>1 DEF InEntity
  <2>3. Good(A[0], 0)
    <3> HIDE DEF Fits, On, Ends
    <3> QED
      BY <2>2 DEF o
  <2>4. QED
    <3> HIDE DEF Good
    <3> QED
      BY <2>3
<1>4. ASSUME NEW n \in Nat, n \in S PROVE n + 1 \in S
  <2> DEFINE o == A[n]
             x == A[n + 1]
  <2>a. SUFFICES ASSUME n + 1 <= N PROVE Good(x, n + 1)
    <3> HIDE DEF Good
    <3> QED
      OBVIOUS
  <2>1. x = ParseEntityPart(o)
    BY <1>0, <1>1, <2>a
  <2>2. Good(o, n)
    <3> HIDE DEF Good
    <3> QED
      BY <1>0, <1>4, <2>a
  <2> HIDE DEF o, x, N, lp
  <2>3. CASE Ends(o)
    <3>1. x = o
      BY <2>1, <2>3 DEF ParseEntityPart
    <3>2. Fits(o)
      BY <2>2, Zenon
    <3>3. QED
      <4> HIDE DEF Fits, Ends, On
      <4> QED
        BY <2>3, <3>1, <3>2
  <2>4. CASE On(o, n)
    <3>0. Fits(o)
      BY <2>2, Zenon
    <3>1. o.status = "CONTINUE_1" /\ InEntity(o.p)
      BY <3>0, <2>4 DEF InEntity
    <3>2. PartOut(o.p, x)
      BY <2>1, <3>1, PartYields
    <3>3. Fits(x)
      BY <3>0, <3>2 DEF PartOut
    <3> DEFINE lo == Len(o.p.buf)
               lx == Len(x.p.buf)
    <3>4. lo \in Nat /\ lx \in Nat
      <4>1. ParserInv(o.p) /\ ParserInv(x.p)
        BY <3>0, <3>3
      <4>2. o.p.buf \in Text /\ x.p.buf \in Text
        BY <4>1 DEF ParserInv, ParserTypes
      <4>3. QED
        BY <4>2 DEF Text
    <3>5. CASE x.status # "CONTINUE_1"
      <4>1. Ends(x)
        BY <3>2, <3>5 DEF PartOut
      <4>2. QED
        <5> HIDE DEF Fits, Ends, On
        <5> QED
          BY <3>3, <4>1
    <3>6. CASE x.status = "CONTINUE_1"
      <4>1. /\ x.p.ent_position # "DETERMINE_READ_METHOD" /\ lx <= lo
            /\ lx < lo \/ o.p.ent_position = "DETERMINE_READ_METHOD"
        BY <3>2, <3>6 DEF PartOut
      <4>2. lo + n <= lp + 1 /\ (n = 0 => o.p = p)
            /\ (n # 0 => o.p.ent_position # "DETERMINE_READ_METHOD")
        BY <2>4
      <4>a. n = 0 => lo = lp
        BY <4>2 DEF lp
      <4> HIDE DEF lo, lx
      <4>b. n # 0 => lx < lo
        BY <4>1, <4>2
      <4>3. lx + (n + 1) <= lp + 1
        BY <1>0, <3>4, <4>1, <4>2, <4>a, <4>b
      <4>c. Len(x.p.buf) + (n + 1) <= lp + 1
        BY <4>3 DEF lx
      <4>d. n + 1 # 0
        OBVIOUS
      <4>e. x.p.ent_position # "DETERMINE_READ_METHOD"
        BY <4>1
      <4>4. On(x, n + 1)
        BY <3>6, <4>c, <4>d, <4>e, Zenon
      <4>5. QED
        <5> HIDE DEF Fits, Ends, On
        <5> QED
          BY <3>3, <4>4
    <3>7. QED
      BY <3>5, <3>6
  <2>5. QED
    <3> HIDE DEF Fits, Ends, On
    <3>1. Ends(o) \/ On(o, n)
      BY <2>2
    <3>2. QED
      <4> HIDE DEF Good
      <4> QED
        BY <2>3, <2>4, <3>1
<1>5. N \in S
  <2> HIDE DEF S, N
  <2> QED
    BY <1>0, <1>3, <1>4, SetInduction
<1> DEFINE z == A[N]
<1>6. Good(z, N)
  <2> HIDE DEF Good
  <2> QED
    BY <1>0, <1>5
<1>b. ParseEntity(p) = z
  BY <1>2
<1>c. N = lp + 2
  OBVIOUS
<1> HIDE DEF z, N, lp
<1>7. Fits(z) /\ Ends(z)
  <2>0. Fits(z)
    BY <1>6, Zenon
  <2>1. z.p.buf \in Text
    BY <2>0 DEF ParserInv, ParserTypes
  <2> DEFINE lz == Len(z.p.buf)
  <2>2. lz \in Nat
    BY <2>1 DEF Text
  <2>3. On(z, N) => lz + N <= lp + 1
    OBVIOUS
  <2> HIDE DEF Fits, Ends, On, lz
  <2>4. ~On(z, N)
    BY <1>0, <1>c, <2>2, <2>3
  <2>5. QED
    BY <1>6, <2>4
<1>8. Parsed(p, z) /\ z.p.position \in {"ENTITY", "COMPLETE"}
  BY <1>7 DEF Parsed
<1>9. QED
  BY <1>b, <1>8

(* After a part of a message: it went wrong or is not complete, or the     *)
(* parser is at the next part, one of S, or at the end.                    *)
Onward(p, o, S) ==
  /\ ParserInv(o.p) /\ o.p.amount_discarded = p.amount_discarded
  /\ o.status \in {"OK", "SUCCESS", "INCOMPLETE", "FAILURE", "NO_MATCH"}
  /\ o.status = "OK" => o.p.position \in S
  /\ o.p.position = "COMPLETE" => o.status = "SUCCESS"

(* The start line and the headers lead onward. *)
LEMMA YieldsOnward ==
    ASSUME NEW p, NEW o, NEW next \in {"HEADERS", "ENTITY"}, Yields(p, o, next),
           Reading(p), p.ent_position = "DETERMINE_READ_METHOD",
           p.position \in {"REQUEST_LINE", "RESPONSE_LINE", "HEADERS"}
    PROVE  Onward(p, o, {next})
<1> DEFINE q == o.p
<1>1. /\ Moved(p, q) /\ o.status \in {"OK", "SUCCESS", "INCOMPLETE", "FAILURE", "NO_MATCH"}
      /\ o.status = "OK" => q.position = next
      /\ o.status = "SUCCESS" => q.position = "COMPLETE"
      /\ o.status \notin {"OK", "SUCCESS"} => q.position = p.position
  BY DEF Yields
<1> HIDE DEF q
<1>2. Reading(q) /\ q.amount_discarded = p.amount_discarded
  <2>1. q.position \in {"REQUEST_LINE", "RESPONSE_LINE", "HEADERS", "ENTITY", "COMPLETE"}
    BY <1>1
  <2>2. Reading(q)
    BY <1>1, <2>1, MovedInside
  <2>3. QED
    BY <1>1, <2>2 DEF Moved
<1>3. QED
  BY <1>1, <1>2 DEF Onward, Reading, q

(* A parser before its headers has not looked for the way to read a body. *)
LEMMA HeadersAhead ==
    ASSUME NEW p, ParserInv(p), p.position \in {"REQUEST_LINE", "RESPONSE_LINE", "HEADERS"}
    PROVE  Reading(p) /\ p.ent_position = "DETERMINE_READ_METHOD"
BY DEF Reading, ParserInv, Inside

(* parser_parse, the start line. *)
LEMMA LinedYields ==
    ASSUME NEW p, ParserInv(p), p.position # "COMPLETE"
    PROVE  Onward(p, Lined(p), {"HEADERS", "ENTITY"})
<1>1. CASE p.position = "REQUEST_LINE"
  <2>1. Onward(p, ParseRequestline(p), {"HEADERS"})
    BY <1>1, HeadersAhead, RequestYields, YieldsOnward
  <2>2. Lined(p) = ParseRequestline(p)
    BY <1>1 DEF Lined
  <2>3. QED
    BY <2>1, <2>2 DEF Onward
<1>2. CASE p.position = "RESPONSE_LINE"
  <2>1. Onward(p, ParseResponseline(p), {"HEADERS"})
    BY <1>2, HeadersAhead, ResponseYields, YieldsOnward
  <2>2. Lined(p) = ParseResponseline(p)
    BY <1>2 DEF Lined
  <2>3. QED
    BY <2>1, <2>2 DEF Onward
<1>3. CASE p.position \in {"HEADERS", "ENTITY"}
  <2>1. Lined(p) = Outcome("OK", p)
    BY <1>3 DEF Lined
  <2>2. QED
    BY <1>3, <2>1 DEF Onward, Outcome
<1>4. QED
  BY <1>1, <1>2, <1>3 DEF ParserInv, ParserTypes

(* After the start line. *)
LEMMA HeadedYields ==
    ASSUME NEW p, NEW o, Onward(p, o, {"HEADERS", "ENTITY"})
    PROVE  Onward(p, Headed(o), {"ENTITY"})
<1> DEFINE q == o.p
<1>1. CASE o.status = "OK" /\ q.position = "HEADERS"
  <2>1. Reading(q) /\ q.ent_position = "DETERMINE_READ_METHOD" /\ q.amount_discarded = p.amount_discarded
    BY <1>1, HeadersAhead DEF Onward
  <2>2. Yields(q, ParseHeaders(q), "ENTITY")
    BY <1>1, <2>1, HeadersYield
  <2>3. Onward(q, ParseHeaders(q), {"ENTITY"})
    BY <1>1, <2>1, <2>2, YieldsOnward
  <2>4. Headed(o) = ParseHeaders(q)
    BY <1>1 DEF Headed
  <2>5. QED
    BY <2>1, <2>3, <2>4 DEF Onward
<1>2. CASE ~ (o.status = "OK" /\ q.position = "HEADERS")
  <2>1. Headed(o) = o
    BY <1>2 DEF Headed
  <2>2. QED
    BY <1>2, <2>1 DEF Onward
<1>3. QED
  BY <1>1, <1>2

(* After the headers. *)
LEMMA EnteredYields ==
    ASSUME NEW p, NEW o, Onward(p, o, {"ENTITY"})
    PROVE  Parsed(p, Entered(o))
<1> DEFINE q == o.p
<1>1. CASE o.status = "OK" /\ q.position = "ENTITY"
  <2>1. InEntity(q) /\ q.amount_discarded = p.amount_discarded
    BY <1>1 DEF Onward, InEntity
  <2>2. Parsed(q, ParseEntity(q))
    BY <2>1, EntityYields
  <2>3. Entered(o) = ParseEntity(q)
    BY <1>1 DEF Entered
  <2>4. QED
    BY <2>1, <2>2, <2>3 DEF Parsed
<1>2. CASE ~ (o.status = "OK" /\ q.position = "ENTITY")
  <2>1. Entered(o) = o
    BY <1>2 DEF Entered
  <2>2. QED
    BY <1>2, <2>1 DEF Onward, Parsed
<1>3. QED
  BY <1>1, <1>2

(* parser_parse, from any part of the message. *)
LEMMA ParseYields ==
    ASSUME NEW p, ParserInv(p), p.position # "COMPLETE"
    PROVE  Parsed(p, Parse(p))
<1>1. Onward(p, Headed(Lined(p)), {"ENTITY"})
  BY LinedYields, HeadedYields
<1>2. QED
  BY <1>1, EnteredYields DEF Parse

-----------------------------------------------------------------------------
(***************************************************************************)
(* The calls that receive.                                                 *)
(***************************************************************************)
(* What is received is added behind what is there. *)
LEMMA Appended ==
    ASSUME NEW p, NEW d \in Text, NEW q, ParserInv(p), q = [p EXCEPT !.buf = @ \o d]
    PROVE  /\ ParserInv(q) /\ q.position = p.position /\ q.ent_position = p.ent_position
           /\ q.amount_discarded = p.amount_discarded
<1> DEFINE b == p.buf \o d
<1>1. p.buf \in Text /\ b \in Text /\ Len(p.buf) \in Nat /\ Len(b) \in Nat /\ Len(p.buf) <= Len(b)
  BY DEF ParserInv, ParserTypes, Text
<1> HIDE DEF b
<1>2. /\ IsParser(q) /\ q.buf = b /\ q.cursor = p.cursor /\ q.position = p.position
      /\ q.ent_position = p.ent_position /\ q.headers = p.headers
      /\ q.content_length = p.content_length /\ q.chunk_size = p.chunk_size
      /\ q.entity_start = p.entity_start /\ q.entity_length = p.entity_length
      /\ q.amount_discarded = p.amount_discarded
  <2>1. IsParser(p)
    BY DEF ParserInv, ParserTypes
  <2>2. q = [p EXCEPT !.buf = b]
    BY DEF b
  <2>3. QED
    BY <2>1, <2>2 DEF IsParser, ParserFields
<1>3. EntityEnd(q) = EntityEnd(p)
  BY <1>2 DEF EntityEnd
<1>4. ParserTypes(q)
  BY <1>1, <1>2 DEF ParserInv, ParserTypes
<1>5. Inside(q)
  <2> DEFINE lp == Len(p.buf)
             lb == Len(b)
             e == EntityEnd(p)
  <2>1. e \in Int
    BY DEF EntityEnd, ParserInv, ParserTypes
  <2>2. Len(q.buf) = lb
    BY <1>2
  <2>3. lp \in Nat /\ lb \in Nat /\ lp <= lb
    BY <1>1
  <2>4. /\ p.ent_position = "USING_CLEN" => p.cursor \in Int /\ p.entity_length <= p.content_length /\ e <= lp
        /\ p.ent_position # "USING_CLEN" => p.cursor \in 0 .. lp /\ e <= p.cursor
    BY DEF ParserInv, Inside
  <2> HIDE DEF lp, lb, e
  <2>5. /\ p.ent_position = "USING_CLEN" => e <= lb
        /\ p.ent_position # "USING_CLEN" => p.cursor \in 0 .. lb
    BY <2>1, <2>3, <2>4
  <2>6. EntityEnd(q) = e
    BY <1>3 DEF e
  <2>7. QED
    BY <1>2, <2>2, <2>4, <2>5, <2>6 DEF ParserInv, Inside
<1>6. QED
  BY <1>2, <1>4, <1>5 DEF ParserInv

(* parser_append, of a message that is not complete. *)
LEMMA AppendYields ==
    ASSUME NEW p, NEW d \in Text, ParserInv(p), p.position # "COMPLETE"
    PROVE  Parsed(p, ParserAppend(p, d))
<1> DEFINE q == [p EXCEPT !.buf = @ \o d]
<1>1. ParserInv(q) /\ q.position = p.position /\ q.amount_discarded = p.amount_discarded
  BY Appended
<1>2. ParserAppend(p, d) = Parse(q)
  BY DEF ParserAppend
<1> HIDE DEF q
<1>3. Parsed(q, Parse(q))
  BY <1>1, ParseYields
<1>4. QED
  BY <1>1, <1>2, <1>3 DEF Parsed

(* ReadResponseLineAndHeaders. *)
Opened(p, o) ==
  /\ ParserInv(o.p) /\ o.p.amount_discarded = p.amount_discarded
  /\ o.status \in {"OK", "SUCCESS", "INCOMPLETE", "FAILURE", "NO_MATCH"}
  /\ o.status = "OK" => o.p.position = "ENTITY" /\ o.p.ent_position = "DETERMINE_READ_METHOD"
  /\ o.status = "INCOMPLETE" => o.p.position \in {"RESPONSE_LINE", "HEADERS"}

(* The headers, once the start line is read. *)
LEMMA HeadersOpen ==
    ASSUME NEW p, Reading(p), p.ent_position = "DETERMINE_READ_METHOD", p.position = "HEADERS"
    PROVE  Opened(p, ParseHeaders(p))
<1> DEFINE h == ParseHeaders(p)
           q == h.p
<1>1. Yields(p, h, "ENTITY")
  BY HeadersYield
<1> HIDE DEF h
<1>2. /\ Moved(p, q) /\ h.status \in {"OK", "SUCCESS", "INCOMPLETE", "FAILURE", "NO_MATCH"}
      /\ h.status = "OK" => q.position = "ENTITY"
      /\ h.status = "SUCCESS" => q.position = "COMPLETE"
      /\ h.status \notin {"OK", "SUCCESS"} => q.position = "HEADERS"
  BY <1>1 DEF Yields
<1>3. h.p = q
  OBVIOUS
<1> HIDE DEF q
<1>4. q.position \in {"HEADERS", "ENTITY", "COMPLETE"}
  BY <1>2
<1>5. Reading(q)
  BY <1>2, <1>4, MovedInside
<1>6. q.amount_discarded = p.amount_discarded /\ q.ent_position = "DETERMINE_READ_METHOD"
  BY <1>2 DEF Moved
<1>7. Opened(p, h)
  BY <1>2, <1>3, <1>5, <1>6 DEF Opened, Reading
<1>8. QED
  BY <1>7 DEF h

(* The start line and the headers. *)
LEMMA LineOpens ==
    ASSUME NEW p, ParserInv(p), p.position \in {"RESPONSE_LINE", "HEADERS"}
    PROVE  Opened(p, LineAndHeaders(p))
<1>1. Reading(p) /\ p.ent_position = "DETERMINE_READ_METHOD"
  BY DEF Reading, ParserInv, Inside
<1>2. CASE p.position = "HEADERS"
  <2>1. LineAndHeaders(p) = HeadersOf(Outcome("OK", p))
    BY <1>2 DEF LineAndHeaders
  <2>2. HeadersOf(Outcome("OK", p)) = ParseHeaders(p)
    BY OutcomeIs DEF HeadersOf
  <2>3. QED
    BY <1>1, <1>2, <2>1, <2>2, HeadersOpen
<1>3. CASE p.position = "RESPONSE_LINE"
  <2> DEFINE l == ParseResponseline(p)
             q == l.p
  <2>1. Yields(p, l, "HEADERS")
    BY <1>1, <1>3, ResponseYields
  <2>2. LineAndHeaders(p) = IF l.status # "OK" THEN l ELSE ParseHeaders(q)
    BY <1>3 DEF LineAndHeaders, HeadersOf
  <2> HIDE DEF l
  <2>3. /\ Moved(p, q) /\ l.status \in {"OK", "SUCCESS", "INCOMPLETE", "FAILURE", "NO_MATCH"}
        /\ l.status = "OK" => q.position = "HEADERS"
        /\ l.status = "SUCCESS" => q.position = "COMPLETE"
        /\ l.status \notin {"OK", "SUCCESS"} => q.position = "RESPONSE_LINE"
    BY <1>3, <2>1 DEF Yields
  <2>4. l.p = q
    OBVIOUS
  <2> HIDE DEF q
  <2>5. q.position \in {"RESPONSE_LINE", "HEADERS", "COMPLETE"}
    BY <2>3
  <2>6. Reading(q)
    BY <1>1, <2>3, <2>5, MovedInside
  <2>7. q.amount_discarded = p.amount_discarded /\ q.ent_position = "DETERMINE_READ_METHOD"
    BY <1>1, <2>3 DEF Moved
  <2>8. CASE l.status = "OK"
    <3>1. Opened(q, ParseHeaders(q))
      BY <2>3, <2>6, <2>7, <2>8, HeadersOpen
    <3>2. Opened(p, ParseHeaders(q))
      BY <2>7, <3>1 DEF Opened
    <3>3. QED
      BY <2>2, <2>8, <3>2
  <2>9. CASE l.status # "OK"
    <3>1. Opened(p, l)
      BY <2>3, <2>4, <2>6, <2>7, <2>9 DEF Opened, Reading
    <3>2. QED
      BY <2>2, <2>9, <3>1
  <2>10. QED
    BY <2>8, <2>9
<1>4. QED
  BY <1>2, <1>3

(* What is handed over is taken out of the entity, and the cursor moves    *)
(* with what is behind it.                                                 *)
LEMMA HandedOver ==
    ASSUME NEW p, NEW n \in Nat, ParserInv(p), p.amount_discarded + n <= p.entity_length
    PROVE  /\ ParserInv(HandOver(p, n)) /\ HandOver(p, n).position = p.position
           /\ HandOver(p, n).amount_discarded = p.amount_discarded + n
<1> DEFINE b == Delete(p.buf, p.entity_start, n)
           c == p.cursor - n
           a == p.amount_discarded + n
           q == HandOver(p, n)
           lp == Len(p.buf)
           e == EntityEnd(p)
<1>1. /\ p.buf \in Text /\ lp \in Nat /\ p.entity_start \in Nat /\ p.entity_length \in Nat
      /\ p.amount_discarded \in Nat /\ p.cursor \in Int /\ IsParser(p) /\ a \in Nat
  BY DEF ParserInv, ParserTypes, Inside, Text
<1>2. /\ e = p.entity_start + p.entity_length - p.amount_discarded
      /\ p.ent_position = "USING_CLEN" => p.cursor \in Int /\ p.entity_length <= p.content_length /\ e <= lp
      /\ p.ent_position # "USING_CLEN" => p.cursor \in 0 .. lp /\ e <= p.cursor
  BY DEF ParserInv, Inside, EntityEnd
<1>3. e \in Int /\ e <= lp /\ p.entity_start + n <= e
  <2> HIDE DEF e, lp
  <2> QED
    BY <1>1, <1>2
<1>4. b \in Text /\ Len(b) = lp - n
  <2>1. p.entity_start + n <= Len(p.buf)
    <3> HIDE DEF e
    <3> QED
      BY <1>1, <1>3
  <2>2. QED
    BY <1>1, <2>1, DeleteIs
<1>5. q = [p EXCEPT !.buf = b, !.cursor = c, !.amount_discarded = a]
  BY DEF HandOver
<1> HIDE DEF b, c, a, q
<1>6. /\ IsParser(q) /\ q.buf = b /\ q.cursor = c /\ q.position = p.position
      /\ q.ent_position = p.ent_position /\ q.headers = p.headers
      /\ q.content_length = p.content_length /\ q.chunk_size = p.chunk_size
      /\ q.entity_start = p.entity_start /\ q.entity_length = p.entity_length
      /\ q.amount_discarded = a
  BY <1>1, <1>5 DEF IsParser, ParserFields
<1>7. c = p.cursor - n /\ a = p.amount_discarded + n
  BY DEF c, a
<1>8. ParserTypes(q)
  BY <1>1, <1>4, <1>6 DEF ParserInv, ParserTypes
<1>9. EntityEnd(q) = e - n
  <2>1. EntityEnd(q) = p.entity_start + p.entity_length - a
    BY <1>6 DEF EntityEnd
  <2> DEFINE s0 == p.entity_start
             l0 == p.entity_length
             a0 == p.amount_discarded
  <2>2. /\ s0 \in Nat /\ l0 \in Nat /\ a0 \in Nat /\ a = a0 + n /\ e = s0 + l0 - a0
        /\ EntityEnd(q) = s0 + l0 - a
    BY <1>1, <1>2, <1>7, <2>1
  <2> HIDE DEF e, s0, l0, a0
  <2> QED
    BY <2>2
<1>10. Inside(q)
  <2>1. Len(q.buf) = lp - n
    BY <1>4, <1>6
  <2> HIDE DEF e, lp
  <2>2. /\ p.ent_position = "USING_CLEN" => c \in Int /\ e - n <= lp - n
        /\ p.ent_position # "USING_CLEN" => c \in 0 .. lp - n /\ e - n <= c
    BY <1>1, <1>2, <1>3, <1>7
  <2>3. a <= p.entity_length
    BY <1>7
  <2>4. QED
    BY <1>2, <1>6, <1>9, <2>1, <2>2, <2>3 DEF ParserInv, Inside
<1>11. QED
  BY <1>6, <1>7, <1>8, <1>10 DEF ParserInv, q

(* A fresh parser is inside its empty message. *)
LEMMA FreshParser ==
    ASSUME NEW r \in BOOLEAN, NEW m, NEW q, q = ParserInit(r, m)
    PROVE  /\ ParserInv(q) /\ q.amount_discarded = 0
           /\ q.position = IF r THEN "REQUEST_LINE" ELSE "RESPONSE_LINE"
<1>1. /\ IsParser(q) /\ q.buf = <<>> /\ q.cursor = 0
      /\ q.position = IF r THEN "REQUEST_LINE" ELSE "RESPONSE_LINE"
      /\ q.ent_position = "DETERMINE_READ_METHOD" /\ q.headers = <<>>
      /\ q.content_length = 0 /\ q.chunk_size = 0
      /\ q.entity_start = 0 /\ q.entity_length = 0 /\ q.amount_discarded = 0
  BY DEF ParserInit, IsParser, ParserFields
<1>2. q.buf \in Text /\ q.headers \in Headers /\ Len(q.buf) = 0
  BY <1>1 DEF Text, Headers
<1>3. ParserTypes(q)
  BY <1>1, <1>2 DEF ParserTypes
<1>4. EntityEnd(q) = 0
  BY <1>1 DEF EntityEnd
<1>5. Inside(q)
  BY <1>1, <1>2, <1>4 DEF Inside
<1>6. QED
  BY <1>1, <1>3, <1>5 DEF ParserInv

(* What a socket delivers is text. *)
LEMMA Delivered ==
    ASSUME wire \in Text, NEW n \in 1 .. Len(wire), SockData(n)
    PROVE  SubSeq(wire, 1, n) \in Text /\ wire' \in Text
<1>1. Len(wire) \in Nat /\ n \in Nat /\ n <= Len(wire)
  BY DEF Text
<1>2. SubSeq(wire, 1, n) \in Text
  BY <1>1 DEF Text
<1>3. wire' = SubSeq(wire, n + 1, Len(wire))
  BY DEF SockData
<1>4. SubSeq(wire, n + 1, Len(wire)) \in Text
  BY <1>1 DEF Text
<1>5. QED
  BY <1>2, <1>3, <1>4

(* What a peer may send is text. *)
LEMMA MessagesAreText ==
    ASSUME NEW m \in Responses \cup FewResponses \cup Requests
    PROVE  m \in Text
<1> DEFINE W == {m[k] : k \in 1 .. Len(m)}
<1>1. m \in Seq(W)
  BY ClientAssumption
<1>2. W \subseteq Symbols
  BY DEF Symbols
<1> HIDE DEF W
<1>3. QED
  BY <1>1, <1>2 DEF Text

(***************************************************************************)
(* The inductive invariant: where a call is tells how far its parser is.   *)
(***************************************************************************)
ReceiveInv ==
  /\ SocketInv
  /\ ParserInv(parser) /\ wire \in Text /\ status # "CONTINUE_1" /\ asked \in Nat
  /\ pc \in {"recv", "last"} => handle # "get" /\ parser.position # "COMPLETE"
  /\ pc = "read" => parser.position # "COMPLETE"
  /\ pc \in {"connect", "send", "line"} => /\ parser.position \in {"RESPONSE_LINE", "HEADERS"}
                                           /\ got = <<>> /\ parser.amount_discarded = 0
  /\ handle = "get" => /\ parser.position \in {"ENTITY", "COMPLETE"}
                       /\ got \in Text /\ Len(got) = parser.amount_discarded

(* The calls that begin an exchange have a fresh parser. *)
LEMMA BeginReceives ==
    ASSUME ReceiveInv, NEW o \in {"Request", "Get", "GetEx", "Post"},
           NEW m \in Responses \cup FewResponses \cup Requests, NEW k, Begin(o, m, k)
    PROVE  ReceiveInv'
<1>1. SocketInv'
  BY BeginSockets DEF ReceiveInv
<1> DEFINE no == FALSE
           meth == IF o = "Post" THEN "POST" ELSE "GET"
<1>2. /\ parser' = ParserInit(no, meth) /\ wire' = m /\ status' = "none" /\ asked' = 0 /\ got' = <<>>
      /\ pc' = "connect" /\ handle' = handle /\ handle = "none"
  BY DEF Begin
<1>a. no \in BOOLEAN /\ ~no
  OBVIOUS
<1> HIDE DEF no, meth
<1>3. ParserInv(parser') /\ parser'.amount_discarded = 0 /\ parser'.position = "RESPONSE_LINE"
  BY <1>2, <1>a, FreshParser
<1>4. wire' \in Text
  BY <1>2, MessagesAreText
<1>5. QED
  BY <1>1, <1>2, <1>3, <1>4 DEF ReceiveInv

(* Steps that leave the parser and what is received alone. *)
LEMMA SameParser ==
    ASSUME ReceiveInv, SocketInv', UNCHANGED <<parser, status, wire, asked, got>>,
           pc' = "recv" => (pc \in {"recv", "last"} /\ handle' = handle) \/ pc = "send",
           pc' = "last" => pc = "last" /\ handle' = handle,
           pc' = "read" => pc = "read",
           pc' \in {"connect", "send", "line"} => pc \in {"connect", "send", "line"},
           handle' = "get" => handle = "get"
    PROVE  ReceiveInv'
<1>1. pc' \in {"recv", "last"} => handle' # "get" /\ parser.position # "COMPLETE"
  BY DEF ReceiveInv, SocketInv
<1>2. QED
  BY <1>1 DEF ReceiveInv

(* http_RecvMessage: what is received is parsed, and more is read only of  *)
(* a message that is not complete.                                         *)
LEMMA RecvDataKeeps == ASSUME ReceiveInv, SocketInv', RecvData PROVE ReceiveInv'
<1>1. PICK n \in 1 .. Len(wire) :
        /\ SockData(n)
        /\ \E o \in {ParserAppend(parser, SubSeq(wire, 1, n))} :
              /\ parser' = o.p /\ status' = o.status
              /\ \/ o.status \in {"SUCCESS", "FAILURE", "NO_MATCH"} /\ \E r : RecvReturns(r)
                 \/ o.status \notin {"SUCCESS", "FAILURE", "NO_MATCH"} /\ UNCHANGED <<pc, ret, sock, app>>
  BY Zenon DEF RecvData
<1> DEFINE d == SubSeq(wire, 1, n)
           o == ParserAppend(parser, d)
<1>2. /\ parser' = o.p /\ status' = o.status
      /\ \/ \E r : RecvReturns(r)
         \/ o.status \notin {"SUCCESS", "FAILURE", "NO_MATCH"} /\ UNCHANGED <<pc, ret, sock, app>>
  BY <1>1
<1>3. d \in Text /\ wire' \in Text
  BY <1>1, Delivered DEF ReceiveInv
<1> HIDE DEF d
<1>4. pc = "recv" /\ parser.position # "COMPLETE" /\ handle # "get" /\ ParserInv(parser) /\ asked \in Nat
  BY DEF RecvData, ReceiveInv
<1>5. Parsed(parser, o)
  BY <1>3, <1>4, AppendYields
<1> HIDE DEF o
<1>6. ParserInv(parser') /\ status' # "CONTINUE_1"
  BY <1>2, <1>5 DEF Parsed
<1>7. CASE \E r : RecvReturns(r)
  <2>1. pc' = "idle" /\ handle' = "none" /\ asked' = asked
    BY <1>7 DEF RecvReturns, Return
  <2>2. QED
    BY <1>3, <1>4, <1>6, <2>1 DEF ReceiveInv
<1>8. CASE o.status \notin {"SUCCESS", "FAILURE", "NO_MATCH"} /\ UNCHANGED <<pc, ret, sock, app>>
  <2>1. pc' = "recv" /\ handle' = handle /\ asked' = asked
    BY <1>4, <1>8 DEF app
  <2>2. parser'.position # "COMPLETE"
    BY <1>2, <1>5, <1>8 DEF Parsed
  <2>3. QED
    BY <1>3, <1>4, <1>6, <2>1, <2>2 DEF ReceiveInv
<1>9. QED
  BY <1>2, <1>7, <1>8

(* http_OpenHttpGet: the start line and the headers, then the way to read  *)
(* the body.                                                               *)
LEMMA OpenDataKeeps == ASSUME ReceiveInv, SocketInv', OpenData PROVE ReceiveInv'
<1>0. /\ pc = "line" /\ handle = "none" /\ asked \in Nat /\ wire \in Text /\ got = <<>>
      /\ ParserInv(parser) /\ parser.position \in {"RESPONSE_LINE", "HEADERS"} /\ parser.amount_discarded = 0
  BY DEF OpenData, ReceiveInv, SocketInv
<1>1. PICK n \in 1 .. Len(wire) :
        /\ SockData(n)
        /\ \E o \in {LineAndHeaders([parser EXCEPT !.buf = @ \o SubSeq(wire, 1, n)])} :
              /\ status' = o.status
              /\ \/ /\ o.status = "OK" /\ parser' = GetEntityReadMethod(o.p).p
                    /\ Return("SUCCESS", sock) /\ handle' = "get"
                    /\ UNCHANGED <<kind, cancel, asked, calls, got>>
                 \/ o.status = "INCOMPLETE" /\ parser' = o.p /\ UNCHANGED <<pc, ret, sock, app>>
                 \/ parser' = o.p /\ OpenFails
  BY Zenon DEF OpenData
<1> DEFINE d == SubSeq(wire, 1, n)
           q == [parser EXCEPT !.buf = @ \o d]
           o == LineAndHeaders(q)
<1>2. /\ status' = o.status
      /\ \/ /\ o.status = "OK" /\ parser' = GetEntityReadMethod(o.p).p
            /\ Return("SUCCESS", sock) /\ handle' = "get"
            /\ UNCHANGED <<kind, cancel, asked, calls, got>>
         \/ o.status = "INCOMPLETE" /\ parser' = o.p /\ UNCHANGED <<pc, ret, sock, app>>
         \/ parser' = o.p /\ OpenFails
  BY <1>1
<1>3. d \in Text /\ wire' \in Text
  BY <1>0, <1>1, Delivered
<1> HIDE DEF d
<1>4. ParserInv(q) /\ q.position = parser.position /\ q.amount_discarded = parser.amount_discarded
  BY <1>0, <1>3, Appended
<1> HIDE DEF q
<1>5. Opened(q, o)
  BY <1>0, <1>4, LineOpens
<1> HIDE DEF o
<1>6. /\ ParserInv(o.p) /\ o.p.amount_discarded = 0 /\ status' # "CONTINUE_1"
      /\ o.status = "OK" => o.p.position = "ENTITY" /\ o.p.ent_position = "DETERMINE_READ_METHOD"
      /\ o.status = "INCOMPLETE" => o.p.position \in {"RESPONSE_LINE", "HEADERS"}
  BY <1>0, <1>2, <1>4, <1>5 DEF Opened
<1>7. CASE /\ o.status = "OK" /\ parser' = GetEntityReadMethod(o.p).p
           /\ Return("SUCCESS", sock) /\ handle' = "get"
           /\ UNCHANGED <<kind, cancel, asked, calls, got>>
  <2> DEFINE p == o.p
             g == GetEntityReadMethod(p)
  <2>1. InEntity(p) /\ p.ent_position = "DETERMINE_READ_METHOD" /\ p.amount_discarded = 0
    BY <1>6, <1>7 DEF InEntity
  <2>2. parser' = g.p
    BY <1>7
  <2> HIDE DEF p
  <2>3. PartOut(p, g) /\ g.p.position \in {"ENTITY", "COMPLETE"}
    BY <2>1, MethodOut
  <2> HIDE DEF g
  <2>4. ParserInv(parser') /\ parser'.amount_discarded = 0 /\ parser'.position \in {"ENTITY", "COMPLETE"}
    BY <2>1, <2>2, <2>3 DEF PartOut
  <2>5. pc' = "idle" /\ asked' = asked /\ got' = <<>>
    BY <1>0, <1>7 DEF Return
  <2>6. got' \in Text /\ Len(got') = 0
    BY <2>5 DEF Text
  <2>7. QED
    BY <1>0, <1>3, <1>6, <2>4, <2>5, <2>6 DEF ReceiveInv
<1>8. CASE o.status = "INCOMPLETE" /\ parser' = o.p /\ UNCHANGED <<pc, ret, sock, app>>
  <2>1. pc' = "line" /\ handle' = "none" /\ asked' = asked /\ got' = <<>>
    BY <1>0, <1>8 DEF app
  <2>2. QED
    BY <1>0, <1>3, <1>6, <1>8, <2>1 DEF ReceiveInv
<1>9. CASE parser' = o.p /\ OpenFails
  <2>1. pc' = "idle" /\ handle' = "none" /\ asked' = asked
    BY <1>0, <1>9 DEF OpenFails, Return, app
  <2>2. QED
    BY <1>0, <1>3, <1>6, <1>9, <2>1 DEF ReceiveInv
<1>10. QED
  BY <1>2, <1>7, <1>8, <1>9

(* http_ReadHttpGet begins: what was received already is parsed. *)
LEMMA ReadKeeps == ASSUME ReceiveInv, SocketInv', NEW n \in ReadSizes, ReadHttpGet(n) PROVE ReceiveInv'
<1>0. /\ pc = "idle" /\ handle = "get" /\ wire \in Text /\ got \in Text /\ Len(got) = parser.amount_discarded
      /\ ParserInv(parser) /\ parser.position \in {"ENTITY", "COMPLETE"}
  BY DEF ReadHttpGet, ReceiveInv
<1>1. /\ asked' = n /\ n \in Nat /\ wire' = wire /\ handle' = handle /\ got' = got
      /\ pc' \in {"read", "body", "idle"}
  BY <1>0, ClientAssumption DEF ReadHttpGet, ReadOn, net
<1> DEFINE o == IF parser.position # "COMPLETE" THEN ParseEntity(parser) ELSE Outcome("SUCCESS", parser)
<1>2. parser' = o.p /\ status' = o.status /\ (pc' = "read" => o.p.position # "COMPLETE")
  BY <1>0 DEF ReadHttpGet, ReadOn, More
<1>3. Parsed(parser, o) /\ o.p.position \in {"ENTITY", "COMPLETE"}
  <2>1. CASE parser.position = "ENTITY"
    <3>1. o = ParseEntity(parser)
      BY <2>1
    <3>2. QED
      BY <1>0, <2>1, <3>1, EntityYields DEF InEntity
  <2>2. CASE parser.position = "COMPLETE"
    <3>1. o.status = "SUCCESS" /\ o.p = parser
      BY <2>2, OutcomeIs
    <3> HIDE DEF o
    <3>2. QED
      BY <1>0, <3>1 DEF Parsed
  <2>3. QED
    BY <1>0, <2>1, <2>2
<1> HIDE DEF o
<1>4. /\ ParserInv(parser') /\ parser'.amount_discarded = parser.amount_discarded /\ status' # "CONTINUE_1"
      /\ parser'.position \in {"ENTITY", "COMPLETE"} /\ (pc' = "read" => parser'.position # "COMPLETE")
  BY <1>2, <1>3 DEF Parsed
<1>5. QED
  BY <1>0, <1>1, <1>4 DEF ReceiveInv

(* http_ReadHttpGet reads more. *)
LEMMA ReadDataKeeps == ASSUME ReceiveInv, SocketInv', ReadData PROVE ReceiveInv'
<1>0. /\ pc = "read" /\ handle = "get" /\ wire \in Text /\ got \in Text /\ Len(got) = parser.amount_discarded
      /\ ParserInv(parser) /\ parser.position = "ENTITY" /\ asked \in Nat
  BY DEF ReadData, ReceiveInv, SocketInv
<1>1. PICK n \in 1 .. Len(wire) :
        /\ SockData(n)
        /\ \E o \in {ParseEntity([parser EXCEPT !.buf = @ \o SubSeq(wire, 1, n)])} :
              parser' = o.p /\ status' = o.status /\ (pc' = "idle" \/ ReadOn(o.p, asked))
  BY Zenon DEF ReadData
<1> DEFINE d == SubSeq(wire, 1, n)
           q == [parser EXCEPT !.buf = @ \o d]
           o == ParseEntity(q)
<1>2. /\ parser' = o.p /\ status' = o.status /\ pc' \in {"read", "body", "idle"}
      /\ pc' = "read" => o.p.position # "COMPLETE"
  BY <1>1 DEF ReadOn, More
<1>3. d \in Text /\ wire' \in Text
  BY <1>0, <1>1, Delivered
<1>4. handle' = handle /\ asked' = asked /\ got' = got
  BY DEF ReadData, app
<1> HIDE DEF d
<1>5. Parsed(parser, o) /\ o.p.position \in {"ENTITY", "COMPLETE"}
  <2>1. ParserInv(q) /\ q.position = parser.position /\ q.amount_discarded = parser.amount_discarded
    BY <1>0, <1>3, Appended, SMTT(30)
  <2> HIDE DEF q
  <2>2. Parsed(q, o) /\ o.p.position \in {"ENTITY", "COMPLETE"}
    BY <1>0, <2>1, EntityYields DEF InEntity
  <2>3. QED
    BY <2>1, <2>2 DEF Parsed
<1> HIDE DEF o
<1>6. /\ ParserInv(parser') /\ parser'.amount_discarded = parser.amount_discarded /\ status' # "CONTINUE_1"
      /\ parser'.position \in {"ENTITY", "COMPLETE"}
  BY <1>2, <1>5 DEF Parsed
<1>7. QED
  BY <1>0, <1>2, <1>3, <1>4, <1>6 DEF ReceiveInv

(* The peer closes while http_ReadHttpGet reads. *)
LEMMA ReadEofKeeps == ASSUME ReceiveInv, SocketInv', ReadEof PROVE ReceiveInv'
<1>0. /\ pc = "read" /\ handle = "get" /\ wire \in Text /\ got \in Text /\ Len(got) = parser.amount_discarded
      /\ ParserInv(parser) /\ parser.position = "ENTITY" /\ asked \in Nat /\ status # "CONTINUE_1"
  BY DEF ReadEof, ReceiveInv, SocketInv
<1>1. /\ wire' = wire /\ handle' = handle /\ asked' = asked /\ got' = got /\ status' = status
      /\ pc' \in {"body", "idle"}
      /\ \/ parser' = [parser EXCEPT !.position = "COMPLETE"]
         \/ parser' = [parser EXCEPT !.http_error_code = "BAD_REQUEST"]
  BY <1>0 DEF ReadEof, SockEof, net, app
<1> DEFINE p == parser
           q == parser'
<1>2. IsParser(p)
  BY <1>0 DEF ParserInv, ParserTypes
<1>3. /\ IsParser(q) /\ q.buf = p.buf /\ q.cursor = p.cursor /\ q.position \in {"ENTITY", "COMPLETE"}
      /\ q.ent_position = p.ent_position /\ q.headers = p.headers
      /\ q.content_length = p.content_length /\ q.chunk_size = p.chunk_size
      /\ q.entity_start = p.entity_start /\ q.entity_length = p.entity_length
      /\ q.amount_discarded = p.amount_discarded
  <2>1. p.position = "ENTITY"
    BY <1>0
  <2>2. \/ q = [p EXCEPT !.position = "COMPLETE"]
        \/ q = [p EXCEPT !.http_error_code = "BAD_REQUEST"]
    BY <1>1
  <2> HIDE DEF p, q
  <2>3. QED
    BY <1>2, <2>1, <2>2 DEF IsParser, ParserFields
<1>4. ParserInv(p)
  BY <1>0
<1> HIDE DEF p, q
<1>5. EntityEnd(q) = EntityEnd(p)
  BY <1>3 DEF EntityEnd
<1>6. ParserInv(q)
  BY <1>3, <1>4, <1>5 DEF ParserInv, ParserTypes, Inside
<1>7. ParserInv(parser') /\ parser'.position \in {"ENTITY", "COMPLETE"} /\ parser'.amount_discarded = parser.amount_discarded
  BY <1>3, <1>6 DEF p, q
<1>8. QED
  BY <1>0, <1>1, <1>7 DEF ReceiveInv

(* http_ReadHttpGet hands over what it has, no more than asked for. *)
LEMMA DeliverKeeps == ASSUME ReceiveInv, SocketInv', Deliver PROVE ReceiveInv'
<1> DEFINE p == parser
           a == p.amount_discarded
           l == p.entity_length
           n == IF a + asked > l THEN l - a ELSE asked
           t == SubSeq(p.buf, p.entity_start + 1, p.entity_start + n)
<1>0. /\ pc = "body" /\ handle = "get" /\ wire \in Text /\ got \in Text /\ Len(got) = a
      /\ ParserInv(p) /\ p.position \in {"ENTITY", "COMPLETE"} /\ asked \in Nat /\ status # "CONTINUE_1"
  BY DEF Deliver, ReceiveInv, SocketInv
<1>1. /\ wire' = wire /\ handle' = handle /\ asked' = asked /\ status' = status /\ pc' = "idle"
      /\ \/ parser' = p /\ got' = got
         \/ parser' = HandOver(p, n) /\ got' = got \o t
  BY DEF Deliver, net
<1>2. CASE parser' = p /\ got' = got
  BY <1>0, <1>1, <1>2 DEF ReceiveInv
<1>3. CASE parser' = HandOver(p, n) /\ got' = got \o t
  <2>1. a \in Nat /\ l \in Nat /\ a <= l /\ p.entity_start \in Nat /\ p.buf \in Text
    BY <1>0 DEF ParserInv, ParserTypes, Inside
  <2>2. EntityEnd(p) = p.entity_start + l - a /\ EntityEnd(p) <= Len(p.buf) /\ Len(p.buf) \in Nat
    <3>1. Len(p.buf) \in Nat
      BY <2>1 DEF Text
    <3>2. EntityEnd(p) = p.entity_start + l - a
      BY DEF EntityEnd
    <3>3. /\ p.ent_position = "USING_CLEN" => EntityEnd(p) <= Len(p.buf)
          /\ p.ent_position # "USING_CLEN" => p.cursor \in 0 .. Len(p.buf) /\ EntityEnd(p) <= p.cursor
      BY <1>0 DEF ParserInv, Inside
    <3>4. EntityEnd(p) \in Int
      BY <2>1, <3>2
    <3> DEFINE e == EntityEnd(p)
               b == Len(p.buf)
               c == p.cursor
    <3>5. e <= b
      <4>1. (p.ent_position = "USING_CLEN" => e <= b) /\ (p.ent_position # "USING_CLEN" => c \in 0 .. b /\ e <= c)
            /\ e \in Int /\ b \in Nat
        BY <3>1, <3>3, <3>4
      <4> HIDE DEF e, b, c
      <4>2. QED
        BY <4>1
    <3>6. QED
      BY <3>1, <3>2, <3>5
  <2> DEFINE s == p.entity_start
             b == Len(p.buf)
  <2>3. a \in Nat /\ l \in Nat /\ a <= l /\ s \in Nat /\ b \in Nat /\ s + l - a <= b
    BY <2>1, <2>2
  <2>4. n = IF a + asked > l THEN l - a ELSE asked
    OBVIOUS
  <2>a. got' = got \o t /\ t = SubSeq(p.buf, s + 1, s + n) /\ parser' = HandOver(p, n)
    BY <1>3
  <2>b. b = Len(p.buf) /\ a = p.amount_discarded /\ l = p.entity_length
    OBVIOUS
  <2> HIDE DEF p, a, l, s, b, n, t
  <2>5. n \in Nat /\ a + n <= l /\ s + n <= b /\ s + n \in Nat
    BY <1>0, <2>3, <2>4
  <2>6. t \in Text /\ Len(t) = n
    <3> DEFINE i == s + n
    <3>1. i \in Nat /\ i <= Len(p.buf) /\ s <= i /\ s \in Nat
      BY <2>3, <2>5, <2>b
    <3>2. t = SubSeq(p.buf, s + 1, i) /\ i - s = n
      BY <2>3, <2>5, <2>a
    <3> HIDE DEF i
    <3>3. QED
      BY <2>1, <3>1, <3>2 DEF Text
  <2>7. /\ ParserInv(HandOver(p, n)) /\ HandOver(p, n).position = p.position
        /\ HandOver(p, n).amount_discarded = p.amount_discarded + n
    <3>1. p.amount_discarded + n <= p.entity_length
      BY <2>5, <2>b
    <3>2. QED
      BY <1>0, <2>5, <3>1, HandedOver
  <2>8. /\ ParserInv(parser') /\ parser'.position \in {"ENTITY", "COMPLETE"}
        /\ parser'.amount_discarded = a + n
    BY <1>0, <2>7, <2>a, <2>b
  <2>9. got' \in Text /\ Len(got') = a + n
    BY <1>0, <2>6, <2>a DEF Text
  <2>10. QED
    BY <1>0, <1>1, <2>8, <2>9 DEF ReceiveInv
<1>4. QED
  BY <1>1, <1>2, <1>3

(* Every step keeps the parser inside its message. *)
LEMMA ReceiveStep == ASSUME ReceiveInv, [Next]_vars PROVE ReceiveInv'
<1>0. SocketInv'
  BY SocketStep DEF ReceiveInv
<1>1. ASSUME \/ \E m \in Responses : RequestAndResponse(m) \/ OpenHttpGet(m)
             \/ \E m \in FewResponses : OpenHttpGetEx(m) \/ \E k \in Kinds : OpenHttpPost(m, k)
      PROVE  ReceiveInv'
  BY <1>1, BeginReceives DEF RequestAndResponse, OpenHttpGet, OpenHttpGetEx, OpenHttpPost
<1>2. ASSUME NEW m \in Requests, BeginServe(m) PROVE ReceiveInv'
  <2> DEFINE yes == TRUE
  <2>1. /\ parser' = ParserInit(yes, "UNKNOWN") /\ wire' = m /\ status' = "none" /\ asked' = asked
        /\ pc' = "recv" /\ handle' = handle /\ handle = "none"
    BY <1>2 DEF BeginServe
  <2>2. yes \in BOOLEAN /\ yes
    OBVIOUS
  <2> HIDE DEF yes
  <2>3. ParserInv(parser') /\ parser'.position = "REQUEST_LINE"
    BY <2>1, <2>2, FreshParser
  <2>4. wire' \in Text
    BY <2>1, MessagesAreText
  <2>5. QED
    BY <1>0, <2>1, <2>3, <2>4 DEF ReceiveInv
<1>3. CASE Connect
  <2>1. /\ pc = "connect" /\ pc' \in {"idle", "send"}
        /\ UNCHANGED <<parser, status, wire, asked, got, handle>>
    BY <1>3 DEF Connect, Return, net, app
  <2>2. QED
    BY <1>0, <2>1, SameParser
<1>4. CASE SendMessage
  <2>1. /\ pc = "send" /\ pc' \in {"idle", "recv", "line"} /\ handle' \in {"post", handle}
        /\ UNCHANGED <<parser, status, wire, asked, got>>
    BY <1>4 DEF SendMessage, Return, net
  <2>2. QED
    BY <1>0, <2>1, SameParser
<1>5. CASE RecvData
  BY <1>0, <1>5, RecvDataKeeps
<1>6. CASE RecvEof
  <2>1. pc' = "idle" /\ handle' = "none" /\ UNCHANGED <<parser, status, wire, asked, got>>
    BY <1>6 DEF RecvEof, SockEof, RecvReturns, Return, net
  <2>2. QED
    BY <1>0, <2>1, SameParser
<1>7. CASE OpenData
  BY <1>0, <1>7, OpenDataKeeps
<1>8. CASE OpenEof
  <2>1. pc' = "idle" /\ UNCHANGED <<parser, status, wire, asked, got, handle>>
    BY <1>8 DEF OpenEof, SockEof, OpenFails, Return, net, app
  <2>2. QED
    BY <1>0, <2>1, SameParser
<1>9. ASSUME NEW n \in ReadSizes, ReadHttpGet(n) PROVE ReceiveInv'
  BY <1>0, <1>9, ReadKeeps
<1>10. CASE ReadData
  BY <1>0, <1>10, ReadDataKeeps
<1>11. CASE ReadEof
  BY <1>0, <1>11, ReadEofKeeps
<1>12. CASE Deliver
  BY <1>0, <1>12, DeliverKeeps
<1>13. ASSUME NEW r \in {"TIMEDOUT", "SOCKET_ERROR"}, RecvFails(r) \/ OpenSockFails(r) \/ ReadFails(r)
       PROVE  ReceiveInv'
  <2>1. pc' = "idle" /\ handle' \in {"none", handle} /\ UNCHANGED <<parser, status, wire, asked, got>>
    BY <1>13 DEF RecvFails, OpenSockFails, ReadFails, SockFails, RecvReturns, OpenFails, Return, app
  <2>2. QED
    BY <1>0, <2>1, SameParser
<1>14. CASE CancelHttpGet
  <2>1. UNCHANGED <<pc, handle, parser, status, wire, asked, got>>
    BY <1>14 DEF CancelHttpGet, net
  <2>2. QED
    BY <1>0, <2>1, SameParser
<1>15. CASE CloseHttpGet
  <2>1. pc' = "idle" /\ handle' = "none" /\ UNCHANGED <<parser, status, wire, asked, got>>
    BY <1>15 DEF CloseHttpGet, Return, net
  <2>2. QED
    BY <1>0, <2>1, SameParser
<1>16. ASSUME NEW d \in Bodies, WriteHttpPost(d) PROVE ReceiveInv'
  <2>1. pc' = "write" /\ UNCHANGED <<handle, parser, status, wire, asked, got>>
    BY <1>16 DEF WriteHttpPost, net, app
  <2>2. QED
    BY <1>0, <2>1, SameParser
<1>17. CASE WriteReturns
  <2>1. pc' = "idle" /\ UNCHANGED <<handle, parser, status, wire, asked, got>>
    BY <1>17 DEF WriteReturns, net, app
  <2>2. QED
    BY <1>0, <2>1, SameParser
<1>18. CASE CloseHttpPost
  <2> DEFINE no == FALSE
  <2>1. /\ parser' = ParserInit(no, "POST") /\ wire' = wire /\ status' = "none" /\ asked' = asked
        /\ pc' \in {"last", "recv"} /\ handle' = "post"
    BY <1>18 DEF CloseHttpPost, net, app
  <2>2. no \in BOOLEAN /\ ~no
    OBVIOUS
  <2> HIDE DEF no
  <2>3. ParserInv(parser') /\ parser'.position = "RESPONSE_LINE"
    BY <2>1, <2>2, FreshParser
  <2>4. QED
    BY <1>0, <2>1, <2>3 DEF ReceiveInv
<1>19. CASE LastReturns
  <2>1. pc = "last" /\ pc' = "recv" /\ UNCHANGED <<handle, parser, status, wire, asked, got>>
    BY <1>19 DEF LastReturns, net, app
  <2>2. QED
    BY <1>0, <2>1, SameParser
<1>20. CASE PeerCloses
  <2>1. UNCHANGED <<pc, handle, parser, status, asked, got>> /\ wire' \in {wire, <<>>}
    BY <1>20 DEF PeerCloses, app
  <2>2. wire \in Text /\ <<>> \in Text
    BY DEF ReceiveInv, Text
  <2>3. wire' \in Text
    BY <2>1, <2>2
  <2>4. QED
    BY <1>0, <2>1, <2>3 DEF ReceiveInv
<1>21. CASE UNCHANGED vars
  <2>1. UNCHANGED <<pc, handle, parser, status, wire, asked, got>>
    BY <1>21 DEF vars
  <2>2. QED
    BY <1>0, <2>1, SameParser
<1>22. QED
  BY <1>1, <1>2, <1>3, <1>4, <1>5, <1>6, <1>7, <1>8, <1>9, <1>10, <1>11, <1>12, <1>13, <1>14,
     <1>15, <1>16, <1>17, <1>18, <1>19, <1>20, <1>21 DEF Next

(* The invariant says what ParserStaysInside does. *)
LEMMA InvariantIsInside == ReceiveInv => ParserStaysInside
<1> SUFFICES ASSUME ReceiveInv PROVE ParserStaysInside
  OBVIOUS
<1> DEFINE p == parser
           e == p.entity_start + p.entity_length - p.amount_discarded
           b == Len(p.buf)
<1>1. /\ p.buf \in Text /\ p.entity_start \in Nat /\ p.entity_length \in Nat /\ p.amount_discarded \in Nat
      /\ p.amount_discarded <= p.entity_length
  BY DEF ReceiveInv, ParserInv, ParserTypes, Inside
<1>2. /\ p.ent_position = "USING_CLEN" => p.entity_length <= p.content_length /\ e <= b
      /\ p.ent_position # "USING_CLEN" => p.cursor \in 0 .. b /\ e <= p.cursor
  BY DEF ReceiveInv, ParserInv, Inside, EntityEnd
<1>3. b \in Nat
  BY <1>1 DEF Text
<1>4. handle = "get" => Len(got) = p.amount_discarded
  BY DEF ReceiveInv
<1>5. status # "CONTINUE_1"
  BY DEF ReceiveInv
<1>6. p.amount_discarded \in 0 .. p.entity_length
  BY <1>1
<1>7. e \in 0 .. b
  <2>1. e \in Nat
    BY <1>1
  <2> HIDE DEF e, b
  <2>2. QED
    BY <1>2, <1>3, <2>1
<1>8. Progress[1] = p.entity_length /\ Progress[2] = p.content_length
  BY DEF Progress
<1>9. QED
  BY <1>1, <1>2, <1>4, <1>5, <1>6, <1>7, <1>8 DEF ParserStaysInside

(***************************************************************************)
(* For every set of messages that a peer may send, every way to cut them   *)
(* into reads, and every size that the application asks for: the cursor of *)
(* httpparser.c's scanner stays inside the buffer wherever it is read from *)
(* there, the entity lies inside the buffer while http_ReadHttpGet deletes *)
(* from it what it hands over, the loops over headers and over the parts   *)
(* of an entity end, and http_HttpGetProgress tells a length of at least   *)
(* what was handed over and at most the total.                             *)
(***************************************************************************)
THEOREM ParserIsInside == Spec => []ParserStaysInside
<1>1. Init => ReceiveInv
  <2> SUFFICES ASSUME Init PROVE ReceiveInv
    OBVIOUS
  <2> DEFINE no == FALSE
  <2>1. /\ parser = ParserInit(no, "GET") /\ wire = <<>> /\ status = "none" /\ asked = 0
        /\ pc = "idle" /\ handle = "none"
    BY DEF Init
  <2>2. no \in BOOLEAN /\ ~no
    OBVIOUS
  <2>3. SocketInv
    BY DEF Init, SocketInv
  <2> HIDE DEF no
  <2>4. ParserInv(parser)
    BY <2>1, <2>2, FreshParser
  <2>5. wire \in Text
    BY <2>1 DEF Text
  <2>6. QED
    BY <2>1, <2>3, <2>4, <2>5 DEF ReceiveInv
<1>2. QED
  BY <1>1, ReceiveStep, InvariantIsInside, PTL DEF Spec

(* A write counts its time down, and succeeds or not. *)
LEMMA WriteTypes ==
    ASSUME TypeOK, NEW d, SockWrite(d)
    PROVE  left' \in Int /\ intact' \in BOOLEAN
<1>1. left' \in Int
  BY DEF TypeOK, SockWrite, TimePasses
<1>2. intact' \in BOOLEAN
  BY Zenon DEF TypeOK, SockWrite
<1>3. QED
  BY <1>1, <1>2

(* Every step keeps the variables' types. *)
LEMMA TypeStep == ASSUME TypeOK, [Next]_vars PROVE TypeOK'
<1> USE ClientAssumption DEF TypeOK, net, app, post
<1>1. ASSUME \/ \E m \in Responses : RequestAndResponse(m) \/ OpenHttpGet(m)
             \/ \E m \in FewResponses : OpenHttpGetEx(m) \/ \E k \in Kinds : OpenHttpPost(m, k)
      PROVE  TypeOK'
  <2>1. \E o \in {"Request", "Get", "GetEx", "Post"}, m \in Responses \cup FewResponses,
          k \in Kinds \cup {<<"none", 0>>} : Begin(o, m, k)
    BY <1>1, Zenon DEF RequestAndResponse, OpenHttpGet, OpenHttpGetEx, OpenHttpPost
  <2>2. PICK o \in {"Request", "Get", "GetEx", "Post"}, m \in Responses \cup FewResponses,
          k \in Kinds \cup {<<"none", 0>>} : Begin(o, m, k)
    BY <2>1
  <2>3. eof' \in BOOLEAN /\ cancel' \in BOOLEAN /\ intact' \in BOOLEAN
    BY <2>2, Zenon DEF Begin
  <2>4. /\ pc' = "connect" /\ op' = o /\ sock' = "none" /\ handle' = handle /\ kind' = k
        /\ left' \in Timeouts /\ calls' = calls + 1 /\ calls < MaxCalls /\ asked' = 0
    BY <2>2, Zenon DEF Begin
  <2>5. QED
    BY <2>3, <2>4
<1>2. ASSUME NEW m \in Requests, BeginServe(m) PROVE TypeOK'
  <2>1. eof' \in BOOLEAN /\ cancel' \in BOOLEAN /\ intact' \in BOOLEAN
    BY <1>2, Zenon DEF BeginServe
  <2>2. /\ pc' = "recv" /\ op' = "Serve" /\ sock' = "up" /\ UNCHANGED <<handle, kind, asked>>
        /\ left' \in Timeouts /\ calls' = calls + 1 /\ calls < MaxCalls
    BY <1>2, Zenon DEF BeginServe
  <2>3. QED
    BY <2>1, <2>2
<1>3. CASE Connect
  BY <1>3 DEF Connect, PrivateConnect, Return
<1>4. CASE SendMessage
  <2>1. left' \in Int /\ intact' \in BOOLEAN
    BY <1>4, WriteTypes DEF SendMessage
  <2>2. QED
    BY <1>4, <2>1 DEF SendMessage, Return
<1>5. CASE RecvData
  <2>1. left' \in Int /\ UNCHANGED <<eof, op, post>>
    BY <1>5 DEF RecvData, SockData, TimePasses
  <2>2. (\E r : RecvReturns(r)) \/ UNCHANGED <<pc, ret, sock, app>>
    BY <1>5, Zenon DEF RecvData
  <2>3. QED
    BY <2>1, <2>2 DEF RecvReturns, Return
<1>6. CASE RecvEof
  BY <1>6 DEF RecvEof, SockEof, TimePasses, RecvReturns, Return
<1>7. CASE OpenData
  <2>1. left' \in Int /\ UNCHANGED <<eof, op, post>>
    BY <1>7 DEF OpenData, SockData, TimePasses
  <2>2. \/ Return("SUCCESS", sock) /\ handle' = "get" /\ UNCHANGED <<kind, cancel, asked, calls, got>>
        \/ UNCHANGED <<pc, ret, sock, app>>
        \/ OpenFails
    BY <1>7, Zenon DEF OpenData
  <2>3. QED
    BY <2>1, <2>2 DEF OpenFails, Return
<1>8. CASE OpenEof
  BY <1>8 DEF OpenEof, SockEof, TimePasses, OpenFails, Return
<1>9. ASSUME NEW n \in ReadSizes, ReadHttpGet(n) PROVE TypeOK'
  <2>1. /\ asked' = n /\ left' \in Int /\ pc' \in {"read", "body", pc}
        /\ UNCHANGED <<op, net, sock, handle, kind, cancel, calls, got, post>>
    BY <1>9 DEF ReadHttpGet, ReadOn
  <2>2. QED
    BY <2>1
<1>10. CASE ReadData
  <2>1. left' \in Int /\ UNCHANGED <<eof, op, sock, app, post>> /\ pc' \in {"read", "body", "idle"}
    BY <1>10 DEF ReadData, ReadOn, SockData, TimePasses
  <2>2. QED
    BY <2>1
<1>11. CASE ReadEof
  <2>1. left' \in Int /\ UNCHANGED <<eof, op, sock, app, post>> /\ pc' \in {"body", "idle"}
    BY <1>11 DEF ReadEof, SockEof, TimePasses
  <2>2. QED
    BY <2>1
<1>12. CASE Deliver
  BY <1>12 DEF Deliver
<1>13. ASSUME NEW r \in {"TIMEDOUT", "SOCKET_ERROR"}, RecvFails(r) \/ OpenSockFails(r) \/ ReadFails(r)
       PROVE  TypeOK'
  BY <1>13 DEF RecvFails, OpenSockFails, ReadFails, SockFails, RecvReturns, OpenFails, Return
<1>14. CASE CancelHttpGet
  BY <1>14 DEF CancelHttpGet
<1>15. CASE CloseHttpGet
  BY <1>15 DEF CloseHttpGet, Return
<1>16. ASSUME NEW d \in Bodies, WriteHttpPost(d) PROVE TypeOK'
  BY <1>16 DEF WriteHttpPost
<1>17. CASE WriteReturns
  <2>1. left' \in Int /\ intact' \in BOOLEAN
    BY <1>17, WriteTypes DEF WriteReturns
  <2>2. QED
    BY <1>17, <2>1 DEF WriteReturns
<1>18. CASE CloseHttpPost
  BY <1>18 DEF CloseHttpPost
<1>19. CASE LastReturns
  <2>1. left' \in Int /\ intact' \in BOOLEAN
    BY <1>19, WriteTypes DEF LastReturns
  <2>2. QED
    BY <1>19, <2>1 DEF LastReturns
<1>20. CASE PeerCloses
  BY <1>20 DEF PeerCloses
<1>21. CASE UNCHANGED vars
  BY <1>21 DEF vars
<1>22. QED
  BY <1>1, <1>2, <1>3, <1>4, <1>5, <1>6, <1>7, <1>8, <1>9, <1>10, <1>11, <1>12, <1>13, <1>14,
     <1>15, <1>16, <1>17, <1>18, <1>19, <1>20, <1>21 DEF Next

(***************************************************************************)
(* The calls and handles of httpreadwrite.c have the values that TypeOK    *)
(* says, whatever the peer does: a read that counts its time down leaves a *)
(* number of seconds, and the handle, kind and size of a call are ones     *)
(* that were asked for.                                                    *)
(***************************************************************************)
THEOREM CallsAreTyped == Spec => []TypeOK
<1>1. Init => TypeOK
  <2> SUFFICES ASSUME Init PROVE TypeOK
    OBVIOUS
  <2>1. eof \in BOOLEAN /\ cancel \in BOOLEAN /\ intact \in BOOLEAN
    BY Zenon DEF Init
  <2>2. /\ pc = "idle" /\ op = "none" /\ sock = "none" /\ left = 0 /\ handle = "none"
        /\ kind = <<"none", 0>> /\ calls = 0 /\ asked = 0
    BY Zenon DEF Init
  <2>3. QED
    BY ClientAssumption, <2>1, <2>2 DEF TypeOK
<1>2. QED
  BY <1>1, TypeStep, PTL DEF Spec

=============================================================================
