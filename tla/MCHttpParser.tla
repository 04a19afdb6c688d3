---------------------------- MODULE MCHttpParser ----------------------------
(***************************************************************************)
(* Buffers for HttpParser, each cut anywhere, and a largest length whose   *)
(* digits are few.                                                         *)
(***************************************************************************)
EXTENDS HttpSplit

FramingWords == {
    "GET / HTTP/1.1\r\n", "PUT x://u@h/a?b#c HTTP/1.1\n", "CONNECT a HTTP/1.1\r\n",
    "HTTP/1.1 200\n", "HTTP/1.0 204 No\r\n",
    "content-length:", "Transfer-Encoding: chunked", "connection:close", "connection: upgrade, x",
    "upgrade:x", "\r\n", "0", "2", "5", "x"}
=============================================================================
