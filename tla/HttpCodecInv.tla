---------------------------- MODULE HttpCodecInv ----------------------------
(***************************************************************************)
(* The inductive invariant of HttpCodec: the parser is where the bytes it  *)
(* has read say.                                                           *)
(***************************************************************************)
EXTENDS HttpCodec, HttpParserInv

(* The first n of a text, and the strings when one callback has been given s. *)
First(s, n) == SubSeq(s, 1, n)
Only(k, s)  == [NoStrings EXCEPT ![k] = s]

(* Where the lines of a message begin. *)
Name(m, c, i)  == AllHeaders(m, c)[i][1]
Value(m, c, i) == AllHeaders(m, c)[i][2]
Count(m)       == Len(m.headers) + 1
Start(m, c, i) == Len(StartLine(m)) + Len(S!FlattenSeq(First(HeaderLines(m, c), i - 1)))

(* The headers of the lines before one. *)
KeptBefore(m, i) == {j \in 1 .. i - 1 : ~Skipped(m, j)}
HeadersBefore(m, c, i) ==
    [name \in {tolower(Name(m, c, j)) : j \in KeptBefore(m, i)} |->
        Value(m, c, CHOOSE j \in KeptBefore(m, i) : tolower(Name(m, c, j)) = name)]

VersionStates == <<"s_req_http_start", "s_req_http_H", "s_req_http_HT", "s_req_http_HTT",
    "s_req_http_HTTP", "s_req_first_http_major", "s_req_http_major", "s_req_first_http_minor",
    "s_req_http_minor">>

StatusStates == <<"s_start_res", "s_res_H", "s_res_HT", "s_res_HTT", "s_res_HTTP",
    "s_res_first_http_major", "s_res_http_major", "s_res_first_http_minor", "s_res_http_minor",
    "s_res_first_status_code", "s_res_status_code", "s_res_status_code", "s_res_status_code",
    "s_res_status_start", "s_res_status", "s_res_status">>

OnRequestLine(p, st, f, m, r) ==
    LET ml == Len(m.method)
        pl == Len(m.path)
    IN  \/ r = 0 /\ p.state = "s_start_req" /\ p.marks = {} /\ st = NoStrings
        \/ /\ r \in 1 .. ml
           /\ p.state = "s_req_method" /\ p.index = r /\ p.method = Tried[m.method][r]
           /\ p.marks = {} /\ st = NoStrings
        \/ /\ r = ml + 1
           /\ p.state = "s_req_spaces_before_url" /\ p.method = m.method
           /\ p.marks = {} /\ st = NoStrings
        \/ /\ r \in ml + 2 .. ml + pl + 1
           /\ p.state \in UrlStates /\ p.method = m.method
           /\ p.marks = {"url"} /\ st = Only("url", First(m.path, r - ml - 1))
        \/ /\ r \in ml + pl + 2 .. ml + pl + 10
           /\ p.state = VersionStates[r - ml - pl - 1] /\ p.method = m.method
           /\ p.marks = {} /\ st = NoStrings
           /\ f.url = m.path /\ f.method = m.method

OnStatusLine(p, st, f, m, r) ==
    /\ r \in 0 .. 15
    /\ p.state = StatusStates[r + 1]
    /\ r = 10 => p.status_code = m.status \div 100
    /\ r = 11 => p.status_code = m.status \div 10
    /\ r \in 12 .. 15 => p.status_code = m.status
    /\ f.url = <<>>
    /\ IF r < 14 THEN p.marks = {} /\ st = NoStrings
       ELSE p.marks = {"status"} /\ st = Only("status", First(Text("OK"), r - 13))

(* What is known once the start line has been read. *)
Begun(p, f, m) ==
    /\ f.url = m.path
    /\ m.type = "HTTP_REQUEST" => f.method = m.method /\ p.method = m.method
    /\ m.type = "HTTP_RESPONSE" => p.status_code = m.status
    /\ f.body = <<>>
    /\ "TRAILING" \notin p.flags

(* The headers that are known: that of an empty value is given with the next byte. *)
HeadersRead(p, f) == IF p.state = "s_header_value_discard_lws" THEN on_header_value(f, <<>>).headers
               ELSE f.headers

(* The name of the length, and the state of a header after so much of it.      *)
LengthName == "content-length"
LengthState(d) == IF d = Length(LengthName) THEN "h_content_length"
                  ELSE IF d <= 3 THEN <<"h_C", "h_CO", "h_CON">>[d]
                  ELSE "h_matching_content_length"

(* What the first k digits of a length come to. *)
Leading(c, k) == IF c > 99 THEN <<c \div 100, c \div 10, c>>[k]
                 ELSE IF c > 9 THEN <<c \div 10, c>>[k] ELSE c

(* After d bytes of the line of the length. *)
OnLength(p, c, d) ==
    LET nl == Length(LengthName)
    IN  /\ d \in 1 .. nl => p.header_state = LengthState(d) /\ p.index = d - 1
        /\ d \in nl + 1 .. nl + 2 => p.header_state = "h_content_length"
        /\ d > nl + 2 => /\ p.header_state = "h_content_length" /\ ~p.skipping
                         /\ "CONTENTLENGTH" \in p.flags /\ p.content_length = Leading(c, d - nl - 2)

(* d bytes of line i have been read. *)
OnLine(p, st, f, m, c, i, d) ==
    LET name == Name(m, c, i)
        val  == Value(m, c, i)
    IN  /\ i = Count(m) => OnLength(p, c, d)
        /\ \/ /\ d = 0
              /\ p.state \in LineStates /\ p.marks = {} /\ st = NoStrings
              /\ HeadersRead(p, f) = HeadersBefore(m, c, i)
           \/ /\ d \in 1 .. Len(name)
              /\ p.state = "s_header_field" /\ p.marks = {"header_field"}
              /\ st = Only("header_field", First(name, d))
              /\ f.headers = HeadersBefore(m, c, i)
           \/ /\ d \in Len(name) + 1 .. Len(name) + 2
              /\ p.state = "s_header_value_discard_ws" /\ p.marks = {} /\ st = NoStrings
              /\ f.headers = HeadersBefore(m, c, i) /\ f.temp_header_field = tolower(name)
           \/ /\ d \in Len(name) + 3 .. Len(name) + 2 + Len(val)
              /\ p.state = "s_header_value" /\ p.marks = {"header_value"}
              /\ st = Only("header_value", First(val, d - Len(name) - 2))
              /\ f.headers = HeadersBefore(m, c, i) /\ f.temp_header_field = tolower(name)

AfterLines(p, st, f, m, c, r) ==
    LET e == Start(m, c, Count(m) + 1)
    IN  /\ f.headers = HeadersBefore(m, c, Count(m) + 1)
        /\ \/ /\ r = e /\ p.state = "s_header_value_lws" /\ p.marks = {} /\ st = NoStrings
              /\ p.content_length = c /\ "CONTENTLENGTH" \in p.flags
           \/ /\ r = e + 1 /\ p.state = "s_headers_almost_done" /\ p.marks = {} /\ st = NoStrings
              /\ p.content_length = c /\ "CONTENTLENGTH" \in p.flags
           \/ /\ r >= e + 2 /\ r - e - 2 < c
              /\ p.state = "s_body_identity" /\ p.content_length = c - (r - e - 2)
              /\ p.marks = IF r = e + 2 THEN {} ELSE {"body"}
              /\ st = Only("body", First(m.body, r - e - 2))
           \/ r >= e + 2 /\ r - e - 2 = c /\ p.state \in Idle

(* A message is read by the parser of its type. *)
Reading(p, st, f, m, c, r) ==
    \/ /\ r < Len(StartLine(m)) /\ f.body = <<>> /\ f.headers = <<>>
       /\ IF m.type = "HTTP_REQUEST" THEN OnRequestLine(p, st, f, m, r)
                                     ELSE OnStatusLine(p, st, f, m, r)
    \/ /\ Begun(p, f, m)
       /\ \E i \in 1 .. Count(m) :
             /\ ~Skipped(m, i)
             /\ r - Start(m, c, i) \in 0 .. Len(HeaderLines(m, c)[i]) - 1
             /\ OnLine(p, st, f, m, c, i, r - Start(m, c, i))
    \/ (p.state \notin Idle => Begun(p, f, m)) /\ AfterLines(p, st, f, m, c, r)

(* The other parser fails on the first byte or the second. *)
Mistaking(p, m, r) ==
    \/ r = 0 /\ p.state = IF p.type = "HTTP_REQUEST" THEN "s_start_req" ELSE "s_start_res"
    \/ r = 1 /\ p.type = "HTTP_REQUEST" /\ p.state = "s_req_method" /\ p.method = "HEAD" /\ p.index = 1
    \/ r = 1 /\ p.type = "HTTP_RESPONSE" /\ p.state = "s_res_H" /\ Nth(m.method, 0) = "H"

(* What is left after r bytes. *)
Rest(w, r) == SubSeq(Append(w, NUL), r + 1, Len(w) + 1)

Place == Len(wire) + 1 - Len(text)

(* The text has been read, its NUL as the last byte of the body. *)
Ended(p, f, m, c) ==
    /\ p.type = m.type /\ Begun(p, [f EXCEPT !.body = <<>>], m)
    /\ f.headers = HeadersBefore(m, c, Count(m) + 1)
    /\ f.body = Append(m.body, NUL)

(* t is what is left of a text of which r bytes have been read. *)
Reached(p, st, f, m, c, t, r) ==
    /\ t # <<>> => IF p.type = m.type THEN Reading(p, st, f, m, c, r) ELSE Mistaking(p, m, r)
    /\ t = <<>> => Failed(p) \/ (p.exited /\ p.upgrade) \/ Ended(p, f, m, c)

CodecInv ==
    /\ Sound(parser) /\ (Stopped(parser) => text = <<>>)
    /\ DOMAIN fields = DOMAIN NoFields
    /\ outcome # "none" => text = <<>>
    /\ outcome = "parsed" => ~Failed(parser)
    /\ \E sent \in {s \in Sent : s[1] = message} :
        LET c == Len(message.body) + sent[2]
        IN  /\ wire = Bytes(message, c)
            /\ Place \in Nat /\ text = Rest(wire, Place)
            /\ Reached(parser, strings, fields, message, c, text, Place)
-----------------------------------------------------------------------------
(* What serialize writes is served: no byte of it fails.                      *)

EncodingName == "transfer-encoding"

(* Much of a word has been read, in any case. *)
Spells(word, s) == \A j \in 1 .. Len(s) : Lowered(s[j]) = Nth(word, j - 1)

(* A state of a header says how much of a name has been read. *)
Spelled(p, s) ==
    /\ p.header_state \in FieldPrefix \cup {"h_matching_content_length"} =>
          p.index = Len(s) - 1 /\ Spells(LengthName, s)
    /\ p.header_state = "h_content_length" => Len(s) = Length(LengthName) /\ Spells(LengthName, s)
    /\ p.header_state = "h_matching_transfer_encoding" => p.index = Len(s) - 1 /\ Spells(EncodingName, s)
    /\ p.header_state = "h_transfer_encoding" => Len(s) = Length(EncodingName) /\ Spells(EncodingName, s)

(* The states of a header that frames a body in chunks. *)
Chunking == {"h_transfer_encoding", "h_matching_transfer_encoding_chunked", "h_transfer_encoding_chunked"}

(* What is known of the parser of a message's type after r bytes, besides.    *)
Serving(p, st, m, c, r) ==
    LET last == Start(m, c, Count(m))
        e    == Start(m, c, Count(m) + 1)
    IN  /\ Load(p) <= r /\ Load(p) <= e + 2
        /\ "CHUNKED" \notin p.flags
        /\ r <= last + Length(LengthName) + 2 => "CONTENTLENGTH" \notin p.flags
        /\ m.type = "HTTP_RESPONSE" => p.method = "DELETE"
        /\ m.type = "HTTP_REQUEST" =>
              \A i \in 1 .. Len(m.path) : r = Len(m.method) + 1 + i => p.state = Walked(m.path)[i]
        /\ IF p.state = "s_header_field" THEN Spelled(p, st["header_field"])
           ELSE /\ p.header_state \notin Chunking
                /\ r < last => p.header_state # "h_content_length"

(* The length is the one that serialize declares. *)
Asked(c, m) == c = Len(m.body) + SerializeExtra

(* What is promised of a message that serialize writes, when t is left of its *)
(* text and r bytes have been read: the parser of its type reads all of it,   *)
(* and the other one fails.                                                   *)
Promised(c, p, st, m, t, r) ==
    /\ m.type = "HTTP_REQUEST" => p.type = "HTTP_REQUEST"
    /\ p.type = m.type => IF t # <<>> THEN Serving(p, st, m, c, r) ELSE ~Failed(p) /\ ~p.exited
    /\ p.type # m.type /\ t = <<>> => Failed(p)

ServeInv ==
    (wire = serialize(message) /\ ~FramesItself(message)) =>
        LET c == Len(message.body) + SerializeExtra
        IN  /\ text = Rest(wire, Place)
            /\ Reached(parser, strings, fields, message, c, text, Place)
            /\ Promised(c, parser, strings, message, text, Place)
            /\ outcome \in {"none", "parsed"}
=============================================================================
