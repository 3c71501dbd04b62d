------------------------------ MODULE MCHttp ------------------------------
(***************************************************************************)
(* Messages for HttpClient: one of each form that the parser tells apart.  *)
(***************************************************************************)
EXTENDS HttpClient

StatusLine(code) == Http \o <<"/", "1", ".", "1", "SP">> \o code \o <<"SP", "OK">> \o CRLF
CL(s)    == <<"CL", ":">> \o s \o CRLF
TE       == <<"TE", ":", "SP">> \o Chunked \o CRLF
Line(m, v) == HttpMethodTable[m] \o <<"SP", "/", "u", "SP">> \o Http \o <<"/", "1", ".", v>> \o CRLF

MCResponses ==
  { StatusLine(<<"2", "0", "0">>) \o CL(<<"2">>) \o CRLF \o <<"x", "y", "z">>,     \* and a byte more
    StatusLine(<<"2", "0", "0">>) \o TE \o CRLF \o <<"2", ";", "e">> \o CRLF \o <<"x", "CR">> \o CRLF
      \o <<"1">> \o CRLF \o <<"z">> \o CRLF \o <<"0">> \o CRLF \o <<"F", ":", "v">> \o CRLF \o CRLF,
    <<"LF">> \o StatusLine(<<"2", "0", "0">>) \o <<"A", ":", "QUOTE", "LF", "QUOTE", "LF", "HT", "v">> \o CRLF
      \o <<"A", "SP", ":">> \o CRLF \o <<"A", ":", "w", "SP">> \o CRLF \o CRLF \o <<"x", "LF", "y">>,
    Http \o <<"/", "1", ".", "1", "SP", "2", "0", "0", "SP", "LF", "CL", ":", "1", "9", "LF", "LF">>
      \o [ i \in 1 .. 19 |-> "x" ],                                  \* longer than its head
    StatusLine(<<"4", "0", "4">>) \o CL(<<"1">>) \o CRLF \o <<"x">>,
    StatusLine(<<"2", "0", "4">>) \o CL(<<"1">>) \o CRLF,
    Http \o <<"/", "1", ".", "1", "SP", "4", "0", "4">> \o CRLF,               \* no reason
    StatusLine(<<"2", "0", "0">>) \o CL(<<"b">>) \o CRLF \o <<"x">>,               \* not a number
    StatusLine(<<"2", "0", "0">>) \o TE \o CRLF \o <<"2", "1">> \o CRLF \o <<"x", "y">>,
    StatusLine(<<"2", "0", "0">>) \o TE \o CRLF \o <<"1">> \o CRLF \o <<"x", "y">> }

MCFewResponses == { StatusLine(<<"2", "0", "0">>) \o CL(<<"1">>) \o CRLF \o <<"x">> }

MCRequests ==
  { CRLF \o HttpMethodTable.GET \o <<"SP", "/", "u", "SP">> \o CRLF,
    Line("GET", "1") \o <<"HO", "ST", ":", "h">> \o CRLF \o CRLF,
    Line("POST", "1") \o CL(<<"1">>) \o CRLF \o <<"x">>,
    Line("POST", "1") \o <<"SA", ":", "v">> \o CRLF \o TE \o CRLF
      \o <<"1">> \o CRLF \o <<"x">> \o CRLF \o <<"0">> \o CRLF \o CRLF,
    Line("NOTIFY", "1") \o CL(<<"1">>) \o CL(<<"1">>) \o CRLF \o <<"x">>,
    Line("NOTIFY", "1") \o CRLF,                                       \* no length
    Line("MSEARCH", "0") \o CRLF,
    Line("SUBSCRIBE", "1") \o <<"HO", "HIGH">> \o CRLF,
    HttpMethodTable.GET \o <<"SP", BadUrl, "SP">> \o Http \o <<"/", "1", ".", "1">> \o CRLF }

MCBodies == {<<>>, <<"y", "CR", "LF", "0">>, [ i \in 1 .. 10 |-> "z" ]}
=============================================================================
