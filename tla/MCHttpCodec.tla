---------------------------- MODULE MCHttpCodec -----------------------------
(***************************************************************************)
(* Messages for HttpCodec: each method and status, header names in any     *)
(* case, values with blanks, commas and nothing, lists of connection       *)
(* options, bodies that look like text of the protocol.                    *)
(***************************************************************************)
EXTENDS HttpCodec

Methods == {"DELETE", "GET", "HEAD", "POST", "PUT", "OPTIONS", "TRACE", "COPY", "LOCK", "MKCOL",
    "MOVE", "PROPFIND", "PROPPATCH", "SEARCH", "UNLOCK", "BIND", "REBIND", "UNBIND", "ACL",
    "REPORT", "MKACTIVITY", "CHECKOUT", "MERGE", "M-SEARCH", "NOTIFY", "SUBSCRIBE",
    "UNSUBSCRIBE", "PATCH", "PURGE", "MKCALENDAR", "LINK", "UNLINK"}

Paths == {Text("/"), Text("*"), Text("/a?b=c#d"), Text("http://u@h:8/x")}

Header(name, val) == <<Text(name), Text(val)>>
Headers == {
    <<>>, <<Header("Content-Length", "7"), Header("TYPE", "10001")>>,
    <<Header("Connection", "close, x"), Header("Host", "a b")>>,
    <<Header("c", ""), Header("Upgrade", "y"), Header("connection", "upgrade")>>}

Bodies == {<<>>, <<"x">>, Text("GET / HTTP/1.1\r\n\r\n"), <<NUL, LF>>}

Request(method, path, headers, body) ==
    [type |-> "HTTP_REQUEST", method |-> method, status |-> 0, path |-> path,
     headers |-> headers, body |-> body]

Response(status, headers, body) ==
    [type |-> "HTTP_RESPONSE", method |-> "", status |-> status, path |-> <<>>,
     headers |-> headers, body |-> body]

SomeMessages ==
    {Request(method, Text("/"), <<>>, body) : method \in Methods, body \in Bodies}
    \cup {Request("GET", path, headers, body) : path \in Paths, headers \in Headers, body \in Bodies}
    \cup {Response(status, <<>>, <<"x">>) : status \in status_strings}
    \cup {Response(200, headers, body) : headers \in Headers, body \in Bodies}

FramedHeaders == {
    <<>>, <<Header("Transfer-Encoding", "chunked")>>,
    <<Header("transfer-encoding", "gzip, chunked"), Header("x", "chunked")>>,
    <<Header("Connection", "close"), Header("Upgrade", "y")>>}

FramedBodies == {<<"x">>, Text("2;"), Text("1\r\nx\r\n0\r\n"), Text("HTTP/1.1 200 x\n\n")}

FramedMessages ==
    {Request("PUT", Text("/"), headers, body) : headers \in FramedHeaders, body \in FramedBodies}
    \cup {Response(204, headers, body) : headers \in FramedHeaders, body \in FramedBodies}
    \cup {Request("CONNECT", Text("h:1"), <<>>, body) : body \in FramedBodies}

(* Connection headers of up to four words and separators in any order, with   *)
(* no empty element and, since the parser drops them, no blank in front.      *)
ListWords == {"close", "Close", "keep-alive", "upgrade", "ed", ",", " "}

Lists ==
    LET joined == {S!FlattenSeq([i \in 1 .. Len(v) |-> Text(v[i])]) :
                      v \in UNION {[1 .. n -> ListWords] : n \in 1 .. 4}}
    IN  {v \in joined : Head(v) # " " /\ <<>> \notin Elements(v)}

ListMessages == {Request("GET", Text("/"), <<<<Text("Connection"), v>>>>, <<>>) : v \in Lists}

(* What serialize sends, and what others may. *)
AllSent == ((SomeMessages \cup ListMessages) \X {SerializeExtra}) \cup (FramedMessages \X (0 .. 2))

FewSent == {Request("GET", Text("/"), <<>>, body) : body \in {<<"x">>, <<"y", LF>>}} \X (0 .. 2)
=============================================================================
