----------------------------- MODULE HttpParser -----------------------------
(***************************************************************************)
(* The HTTP parser core, http_parser_execute, in its strict build.  It     *)
(* reads a buffer byte by byte and keeps what it knows between buffers.    *)
(* Read(p, ch) is one turn of its loop: p is the parser, with the local    *)
(* variables of the call, and ch is the byte.  Handlers that the code      *)
(* chains with REEXECUTE are operators that apply one another.             *)
(*                                                                         *)
(* A character is a string of length one, NUL excepted, and a text is a    *)
(* sequence of characters.  Callbacks return 0, as those of http::parser   *)
(* do, so F_SKIPBODY is never set; type is never HTTP_BOTH.                *)
(***************************************************************************)
EXTENDS Integers, Sequences, FiniteSets

CONSTANTS
    ULLONG_MAX,             \* the largest content_length, which means "not known"
    HTTP_MAX_HEADER_SIZE,
    MaxCount,               \* counts of header bytes stop here
    Words                   \* the buffers that the parser is given

ASSUME ParserAssumption ==
    /\ ULLONG_MAX \in Nat /\ ULLONG_MAX > 16
    /\ HTTP_MAX_HEADER_SIZE \in Nat
    /\ MaxCount \in Nat /\ MaxCount > 0
-----------------------------------------------------------------------------
(* Characters. *)

Text(word)  == [i \in 1 .. Len(word) |-> SubSeq(word, i, i)]
Chars(word) == {SubSeq(word, i, i) : i \in 1 .. Len(word)}

NUL == "NUL"
BACKQUOTE == "BACKQUOTE"
CR  == "\r"
LF  == "\n"
SPACE == " "
TAB   == "\t"
COMMA == ","
SEMICOLON == ";"

UPPER == "ABCDEFGHIJKLMNOPQRSTUVWXYZ"
LOWERCASE == "abcdefghijklmnopqrstuvwxyz"
ALPHA == Chars(UPPER) \cup Chars(LOWERCASE)

IndexIn(word, ch) == CHOOSE i \in 1 .. Len(word) : SubSeq(word, i, i) = ch

Digit == [ch \in Chars("0123456789") |-> IndexIn("0123456789", ch) - 1]
NUM   == DOMAIN Digit

unhex == [ch \in Chars("0123456789abcdefABCDEF") |->
            LET i == IndexIn("0123456789abcdefABCDEF", ch) - 1 IN IF i > 15 THEN i - 6 ELSE i]

(* LOWER sets one bit, of characters that are not letters as well. *)
From == UPPER \o "@[\\]^_\t"
To   == <<BACKQUOTE, "{", "|", "}", "~", "DEL", ")">>
Folded == [ch \in Chars(From) |->
             LET i == IndexIn(From, ch)
             IN  IF i <= 26 THEN SubSeq(LOWERCASE, i, i) ELSE To[i - 26]]
LOWER(ch) == IF ch \in DOMAIN Folded THEN Folded[ch] ELSE ch

TOKEN == ALPHA \cup NUM \cup Chars("!#$%&'*+-.^_|~") \cup {BACKQUOTE}

(* tokens also lowers letters, and only letters. *)
Lowered(ch) == IF ch \in ALPHA THEN LOWER(ch) ELSE ch

IS_URL_CHAR == ALPHA \cup NUM \cup Chars("!\"$%&'()*+,-./:;<=>@[\\]^_{|}~") \cup {BACKQUOTE}

IS_USERINFO_CHAR == ALPHA \cup NUM \cup Chars("-_.!~*'()%;:&=+$,")

IS_HEADER_CHAR(ch) == ch \notin {NUL, "\f", "DEL"}
-----------------------------------------------------------------------------
(* What the parser keeps, and below it what belongs to the call: the marks    *)
(* that are set, the bytes that an inner loop has passed (p - start), whether *)
(* that loop has skipped to the end of a value, and whether the call has      *)
(* returned for an upgrade.  data is the callbacks that the last byte is part *)
(* of, and calls those that were called with no byte for it.                  *)
NewParser(type) ==
    [type |-> type, state |-> IF type = "HTTP_REQUEST" THEN "s_start_req" ELSE "s_start_res",
     header_state |-> "h_general", index |-> 0, flags |-> {}, content_length |-> 0,
     method |-> "DELETE", http_major |-> 0, http_minor |-> 0, status_code |-> 0,
     upgrade |-> FALSE, nread |-> 0, http_errno |-> "OK",
     marks |-> {}, passed |-> 0, skipping |-> FALSE, exited |-> FALSE,
     data |-> {}, calls |-> {}]

Go(p, s)   == [p EXCEPT !.state = s]
Fail(p, e) == [p EXCEPT !.http_errno = e]
Failed(p)  == p.http_errno # "OK"
Flag(p, f) == [p EXCEPT !.flags = @ \cup {f}]
Call(p, f) == [p EXCEPT !.calls = @ \cup {f}]
MARK(p, k) == [p EXCEPT !.marks = @ \cup {k}]

CALLBACK_DATA(p, k) == [p EXCEPT !.marks = @ \ {k}]

Capped(n) == IF n > MaxCount THEN MaxCount ELSE n

COUNT_HEADER_SIZE(p, n) ==
    LET q == [p EXCEPT !.nread = Capped(@ + n)]
    IN  IF q.nread > HTTP_MAX_HEADER_SIZE THEN Fail(q, "HEADER_OVERFLOW") ELSE q

BodyStates == {"s_chunk_data", "s_chunk_data_almost_done", "s_chunk_data_done",
               "s_body_identity", "s_body_identity_eof", "s_message_done"}
PARSING_HEADER(s) == s \notin BodyStates

(* A word that is being matched, by the byte after the one at index.          *)
Nth(word, i) == IF i < Len(word) THEN SubSeq(word, i + 1, i + 1) ELSE NUL
-----------------------------------------------------------------------------
(* Transitions on one character that do nothing else. *)
Moves == {
    <<"s_dead", CR, "s_dead">>, <<"s_dead", LF, "s_dead">>,
    <<"s_res_H", "T", "s_res_HT">>, <<"s_res_HT", "T", "s_res_HTT">>,
    <<"s_res_HTT", "P", "s_res_HTTP">>, <<"s_res_HTTP", "/", "s_res_first_http_major">>,
    <<"s_res_http_major", ".", "s_res_first_http_minor">>,
    <<"s_res_http_minor", SPACE, "s_res_first_status_code">>,
    <<"s_res_first_status_code", SPACE, "s_res_first_status_code">>,
    <<"s_res_status_code", SPACE, "s_res_status_start">>,
    <<"s_res_status_code", CR, "s_res_line_almost_done">>,
    <<"s_res_status_code", LF, "s_header_field_start">>,
    <<"s_res_status_start", CR, "s_res_line_almost_done">>,
    <<"s_res_status_start", LF, "s_header_field_start">>,
    <<"s_res_line_almost_done", LF, "s_header_field_start">>,
    <<"s_start_req", CR, "s_start_req">>, <<"s_start_req", LF, "s_start_req">>,
    <<"s_req_spaces_before_url", SPACE, "s_req_spaces_before_url">>,
    <<"s_req_http_start", "H", "s_req_http_H">>, <<"s_req_http_start", SPACE, "s_req_http_start">>,
    <<"s_req_http_H", "T", "s_req_http_HT">>, <<"s_req_http_HT", "T", "s_req_http_HTT">>,
    <<"s_req_http_HTT", "P", "s_req_http_HTTP">>,
    <<"s_req_http_HTTP", "/", "s_req_first_http_major">>,
    <<"s_req_http_major", ".", "s_req_first_http_minor">>,
    <<"s_req_http_minor", CR, "s_req_line_almost_done">>,
    <<"s_req_http_minor", LF, "s_header_field_start">>,
    <<"s_req_line_almost_done", LF, "s_header_field_start">>,
    <<"s_header_field_start", CR, "s_headers_almost_done">>,
    <<"s_header_value_discard_ws", SPACE, "s_header_value_discard_ws">>,
    <<"s_header_value_discard_ws", TAB, "s_header_value_discard_ws">>,
    <<"s_header_value_discard_ws", CR, "s_header_value_discard_ws_almost_done">>,
    <<"s_header_value_discard_ws", LF, "s_header_value_discard_lws">>,
    <<"s_header_value_discard_ws_almost_done", LF, "s_header_value_discard_lws">>,
    <<"s_header_value_discard_lws", SPACE, "s_header_value_discard_ws">>,
    <<"s_header_value_discard_lws", TAB, "s_header_value_discard_ws">>,
    <<"s_header_almost_done", LF, "s_header_value_lws">>,
    <<"s_chunk_size", CR, "s_chunk_size_almost_done">>,
    <<"s_chunk_size", SEMICOLON, "s_chunk_parameters">>, <<"s_chunk_size", SPACE, "s_chunk_parameters">>,
    <<"s_chunk_parameters", CR, "s_chunk_size_almost_done">> }

Moved(s, ch) == {m \in Moves : m[1] = s /\ m[2] = ch}

(* The errno of a state that has no transition for a character. *)
ErrnoOf(s) ==
    CASE s = "s_dead" -> "CLOSED_CONNECTION"
      [] s \in {"s_req_line_almost_done", "s_header_almost_done"} -> "LF_EXPECTED"
      [] s = "s_req_http_start" -> "INVALID_CONSTANT"
      [] OTHER -> "STRICT"
-----------------------------------------------------------------------------
(* What ends a message, and whether the connection goes on after it. *)

http_message_needs_eof(p) ==
    /\ p.type = "HTTP_RESPONSE"
    /\ ~(p.status_code \div 100 = 1 \/ p.status_code \in {204, 304})
    /\ "CHUNKED" \notin p.flags
    /\ p.content_length = ULLONG_MAX

http_should_keep_alive(p) ==
    /\ IF p.http_major > 0 /\ p.http_minor > 0
       THEN "CONNECTION_CLOSE" \notin p.flags
       ELSE "CONNECTION_KEEP_ALIVE" \in p.flags
    /\ ~http_message_needs_eof(p)

(* NEW_MESSAGE, and the callback that follows it. *)
Completed(p) ==
    LET start == IF p.type = "HTTP_REQUEST" THEN "s_start_req" ELSE "s_start_res"
    IN  Call(Go(p, IF http_should_keep_alive(p) THEN start ELSE "s_dead"), "message_complete")

MessageDone(p) == [Completed(p) EXCEPT !.exited = p.upgrade]

(* Mutant: a body of no bytes is waited for. *)
HeadersDone_zero_length(p) ==
    LET q       == [p EXCEPT !.nread = 0]
        chunked == "CHUNKED" \in q.flags
        sized   == ~chunked /\ q.content_length # ULLONG_MAX
        ends    == ~chunked /\ ~sized /\ http_message_needs_eof(q)
    IN  IF q.upgrade /\ q.method = "CONNECT" THEN MessageDone(q)
        ELSE CASE chunked -> Go(q, "s_chunk_size_start")
               [] sized   -> Go(q, "s_body_identity")
               [] ends    -> Go(q, "s_body_identity_eof")
               [] OTHER   -> Completed(q)

HeadersDone(p) ==
    LET q       == [p EXCEPT !.nread = 0]
        chunked == "CHUNKED" \in q.flags
        sized   == ~chunked /\ q.content_length \notin {0, ULLONG_MAX}
        ends    == ~chunked /\ ~sized /\ http_message_needs_eof(q)
    IN  IF q.upgrade /\ (q.method = "CONNECT" \/ ~(chunked \/ sized)) THEN MessageDone(q)
        ELSE CASE chunked -> Go(q, "s_chunk_size_start")
               [] sized   -> Go(q, "s_body_identity")
               [] ends    -> Go(q, "s_body_identity_eof")
               [] OTHER   -> Completed(q)

(* Mutant: a Content-Length beside chunks is ignored. *)
HeadersAlmostDone_lenient(p, ch) ==
    CASE ch # LF -> Fail(p, "STRICT")
      [] ch = LF /\ "TRAILING" \in p.flags -> MessageDone(p)
      [] OTHER ->
           HeadersDone(Call([p EXCEPT
               !.state = "s_headers_done",
               !.upgrade = {"UPGRADE", "CONNECTION_UPGRADE"} \subseteq p.flags
                               \/ p.method = "CONNECT"], "headers_complete"))

HeadersAlmostDone(p, ch) ==
    CASE ch # LF -> Fail(p, "STRICT")
      [] ch = LF /\ "TRAILING" \in p.flags -> MessageDone(p)
      [] ch = LF /\ "TRAILING" \notin p.flags /\ {"CHUNKED", "CONTENTLENGTH"} \subseteq p.flags ->
           Fail(p, "UNEXPECTED_CONTENT_LENGTH")
      [] OTHER ->
           HeadersDone(Call([p EXCEPT
               !.state = "s_headers_done",
               !.upgrade = {"UPGRADE", "CONNECTION_UPGRADE"} \subseteq p.flags
                               \/ p.method = "CONNECT"], "headers_complete"))
-----------------------------------------------------------------------------
(* Start lines. *)

(* Mutant: the flags of the last message are kept. *)
NewHeaders_keeps_flags(p) == [p EXCEPT !.content_length = ULLONG_MAX]

NewHeaders(p) == [p EXCEPT !.flags = {}, !.content_length = ULLONG_MAX]

StartResponse(p, ch) ==
    CASE ch = "H"         -> Go(NewHeaders(p), "s_res_H")
      [] ch \in {CR, LF}  -> NewHeaders(p)
      [] OTHER            -> Fail(NewHeaders(p), "INVALID_CONSTANT")

FirstMethods == {"ACL", "BIND", "CONNECT", "DELETE", "GET", "HEAD", "LOCK", "MKCOL", "NOTIFY",
                 "OPTIONS", "POST", "REPORT", "SUBSCRIBE", "TRACE", "UNLOCK"}

StartRequest(p, ch) ==
    LET begins == {m \in FirstMethods : Nth(m, 0) = ch}
        q      == [NewHeaders(p) EXCEPT !.method = "DELETE", !.index = 1]
    IN  CASE ch \notin ALPHA -> Fail(NewHeaders(p), "INVALID_METHOD")
          [] ch \in ALPHA /\ begins = {} -> Fail(q, "INVALID_METHOD")
          [] OTHER -> [Go(q, "s_req_method") EXCEPT !.method = CHOOSE m \in begins : TRUE]

(* When a byte is not the method's, the method it may be. *)
OtherMethods == {
    <<"POST", 1, "U", "PUT">>, <<"POST", 1, "A", "PATCH">>, <<"CONNECT", 1, "H", "CHECKOUT">>,
    <<"CONNECT", 2, "P", "COPY">>, <<"MKCOL", 1, "O", "MOVE">>, <<"MKCOL", 1, "E", "MERGE">>,
    <<"MKCOL", 2, "A", "MKACTIVITY">>, <<"MKCOL", 3, "A", "MKCALENDAR">>,
    <<"SUBSCRIBE", 1, "E", "SEARCH">>, <<"REPORT", 2, "B", "REBIND">>,
    <<"POST", 1, "R", "PROPFIND">>, <<"PROPFIND", 4, "P", "PROPPATCH">>,
    <<"PUT", 2, "R", "PURGE">>, <<"LOCK", 1, "I", "LINK">>, <<"UNLOCK", 2, "S", "UNSUBSCRIBE">>,
    <<"UNLOCK", 2, "B", "UNBIND">>, <<"UNLOCK", 3, "I", "UNLINK">>,
    <<"MKCOL", 1, "-", "M-SEARCH">> }

MethodNames == FirstMethods \cup {m[4] : m \in OtherMethods}

Method(p, ch) ==
    LET others == {m \in OtherMethods : m[1] = p.method /\ m[2] = p.index /\ m[3] = ch}
        q      == [p EXCEPT !.index = @ + 1]
    IN  CASE ch = NUL                                      -> Fail(p, "INVALID_METHOD")
          [] ch = SPACE /\ Nth(p.method, p.index) = NUL     -> Go(q, "s_req_spaces_before_url")
          [] ch # NUL /\ ch = Nth(p.method, p.index)        -> q
          [] ch # Nth(p.method, p.index) /\ others # {}     ->
                 [q EXCEPT !.method = (CHOOSE m \in others : TRUE)[4]]
          [] OTHER                                         -> Fail(p, "INVALID_METHOD")

(* parse_url_char: from any of these states, on any of these characters, to. *)
UrlMoves == {
    <<{"s_req_spaces_before_url"}, {"/", "*"}, "s_req_path">>,
    <<{"s_req_spaces_before_url", "s_req_schema"}, ALPHA, "s_req_schema">>,
    <<{"s_req_schema"}, {":"}, "s_req_schema_slash">>,
    <<{"s_req_schema_slash"}, {"/"}, "s_req_schema_slash_slash">>,
    <<{"s_req_schema_slash_slash"}, {"/"}, "s_req_server_start">>,
    <<{"s_req_server_start", "s_req_server", "s_req_server_with_at"}, {"/"}, "s_req_path">>,
    <<{"s_req_server_start", "s_req_server", "s_req_server_with_at"}, {"?"},
        "s_req_query_string_start">>,
    <<{"s_req_server_start", "s_req_server"}, {"@"}, "s_req_server_with_at">>,
    <<{"s_req_server_start", "s_req_server", "s_req_server_with_at"},
        IS_USERINFO_CHAR \cup {"[", "]"}, "s_req_server">>,
    <<{"s_req_path"}, IS_URL_CHAR, "s_req_path">>,
    <<{"s_req_path"}, {"?"}, "s_req_query_string_start">>,
    <<{"s_req_query_string_start", "s_req_query_string"}, IS_URL_CHAR \cup {"?"},
        "s_req_query_string">>,
    <<{"s_req_path", "s_req_query_string_start", "s_req_query_string", "s_req_fragment_start"},
        {"#"}, "s_req_fragment_start">>,
    <<{"s_req_fragment_start"}, IS_URL_CHAR \cup {"?"}, "s_req_fragment">>,
    <<{"s_req_fragment"}, IS_URL_CHAR \cup {"?", "#"}, "s_req_fragment">> }

parse_url_char(s, ch) ==
    LET to == {m[3] : m \in {n \in UrlMoves : s \in n[1] /\ ch \in n[2]}}
    IN  IF to = {} THEN "s_dead" ELSE CHOOSE t \in to : TRUE

UrlEnds == {"s_req_server", "s_req_server_with_at", "s_req_path", "s_req_query_string_start",
            "s_req_query_string", "s_req_fragment_start", "s_req_fragment"}

UrlStates == UrlEnds \cup {"s_req_schema", "s_req_schema_slash", "s_req_schema_slash_slash",
                           "s_req_server_start"}

Url(p, ch) ==
    LET first == p.state = "s_req_spaces_before_url"
        from  == IF first /\ p.method = "CONNECT" THEN "s_req_server_start" ELSE p.state
        to    == parse_url_char(from, ch)
        q     == IF first THEN MARK(p, "url") ELSE p
        (* A request without a version is HTTP/0.9. *)
        old   == [q EXCEPT !.http_major = 0, !.http_minor = 9]
    IN  CASE p.state \in UrlEnds /\ ch = SPACE -> CALLBACK_DATA(Go(q, "s_req_http_start"), "url")
          [] p.state \in UrlEnds /\ ch = CR    -> CALLBACK_DATA(Go(old, "s_req_line_almost_done"), "url")
          [] p.state \in UrlEnds /\ ch = LF    -> CALLBACK_DATA(Go(old, "s_header_field_start"), "url")
          [] to # "s_dead"                     -> Go(q, to)
          [] OTHER                             -> Fail(q, "INVALID_URL")

(* Numbers of start lines: the field, its first digit's state, the others'.   *)
Numbers == {
    <<"http_major", "s_res_first_http_major", "s_res_http_major", "INVALID_VERSION">>,
    <<"http_minor", "s_res_first_http_minor", "s_res_http_minor", "INVALID_VERSION">>,
    <<"http_major", "s_req_first_http_major", "s_req_http_major", "INVALID_VERSION">>,
    <<"http_minor", "s_req_first_http_minor", "s_req_http_minor", "INVALID_VERSION">>,
    <<"status_code", "s_res_first_status_code", "s_res_status_code", "INVALID_STATUS">> }

NumberStates == {n[2] : n \in Numbers} \cup {n[3] : n \in Numbers}

Number(p, ch) ==
    LET n     == CHOOSE m \in Numbers : p.state \in {m[2], m[3]}
        first == p.state = n[2]
        value == IF first THEN Digit[ch] ELSE 10 * p[n[1]] + Digit[ch]
    IN  CASE ch \notin NUM                                     -> Fail(p, n[4])
          [] p.state = "s_req_first_http_major" /\ ch = "0"    -> Fail(p, n[4])
          [] OTHER -> LET q == [Go(p, n[3]) EXCEPT ![n[1]] = value]
                      IN  IF value > 999 THEN Fail(q, n[4]) ELSE q

(* The reason phrase. *)
ReasonPhrase(p, ch) ==
    CASE ch = CR -> CALLBACK_DATA(Go(p, "s_res_line_almost_done"), "status")
      [] ch = LF -> CALLBACK_DATA(Go(p, "s_header_field_start"), "status")
      [] OTHER   -> p
-----------------------------------------------------------------------------
(* Header fields.  header_state is how much of a known name has been read.    *)

Word == [
    h_matching_connection                |-> "connection",
    h_matching_proxy_connection          |-> "proxy-connection",
    h_matching_content_length            |-> "content-length",
    h_matching_transfer_encoding         |-> "transfer-encoding",
    h_matching_upgrade                   |-> "upgrade",
    h_matching_transfer_encoding_chunked |-> "chunked",
    h_matching_connection_keep_alive     |-> "keep-alive",
    h_matching_connection_close          |-> "close",
    h_matching_connection_upgrade        |-> "upgrade"]

Whole == [
    h_matching_connection                |-> "h_connection",
    h_matching_proxy_connection          |-> "h_connection",
    h_matching_content_length            |-> "h_content_length",
    h_matching_transfer_encoding         |-> "h_transfer_encoding",
    h_matching_upgrade                   |-> "h_upgrade",
    h_matching_transfer_encoding_chunked |-> "h_transfer_encoding_chunked",
    h_matching_connection_keep_alive     |-> "h_connection_keep_alive",
    h_matching_connection_close          |-> "h_connection_close",
    h_matching_connection_upgrade        |-> "h_connection_upgrade"]

FieldMatching == {"h_matching_connection", "h_matching_proxy_connection",
                  "h_matching_content_length", "h_matching_transfer_encoding",
                  "h_matching_upgrade"}
FieldPrefix   == {"h_C", "h_CO", "h_CON"}
FieldWhole    == {"h_connection", "h_content_length", "h_transfer_encoding", "h_upgrade"}

ListMatching  == {"h_matching_connection_keep_alive", "h_matching_connection_close",
                  "h_matching_connection_upgrade"}
ListWhole     == {"h_connection_keep_alive", "h_connection_close", "h_connection_upgrade"}
ListToken     == {"h_matching_connection_token_start", "h_matching_connection_token"}

(* The lengths of the words above, none of which is longer than index allows. *)
ASSUME LengthAssumption ==
    /\ Len("0123456789") = 10 /\ Len("0123456789abcdefABCDEF") = 22
    /\ \A h \in DOMAIN Word : Len(Word[h]) \in 5 .. 17
    /\ \A m \in MethodNames : Len(m) \in 1 .. 16
    /\ \A m \in OtherMethods : m[2] \in 0 .. Len(m[4]) - 1

(* Letters, digits and marks are apart. *)
ASSUME LettersAssumption ==
    /\ NUL \notin ALPHA \cup {"-"} /\ ":" \notin TOKEN
    /\ {SPACE, TAB, CR, LF, NUL, ":"} \cap (TOKEN \cup IS_URL_CHAR \cup IS_USERINFO_CHAR) \subseteq {":"}
    /\ "T" # Nth("HEAD", 1) /\ \A o \in OtherMethods : o[1] # "HEAD"
    /\ {Digit[ch] : ch \in NUM} = 0 .. 9 /\ Digit["1"] = 1 /\ "1" \in NUM /\ "." \notin NUM

(* The next byte of a word; otherwise is the state after another byte.        *)
Match(p, c, otherwise) ==
    LET w == Word[p.header_state]
        i == p.index + 1
    IN  [p EXCEPT !.index = i,
                  !.header_state = IF c # Nth(w, i) THEN otherwise
                                   ELSE IF i = Len(w) - 1 THEN Whole[@] ELSE @]

FieldMoves == {<<"h_C", "o", "h_CO">>, <<"h_CO", "n", "h_CON">>,
               <<"h_CON", "n", "h_matching_connection">>,
               <<"h_CON", "t", "h_matching_content_length">>}

FieldByte(p, c) ==
    LET to == {m[3] : m \in {n \in FieldMoves : n[1] = p.header_state /\ n[2] = c}}
    IN  CASE p.header_state \in FieldPrefix ->
                 [p EXCEPT !.index = @ + 1,
                           !.header_state = IF to = {} THEN "h_general" ELSE CHOOSE t \in to : TRUE]
          [] p.header_state \in FieldMatching -> Match(p, c, "h_general")
          [] OTHER                            -> [p EXCEPT !.header_state = "h_general"]

FirstLetter(c) ==
    CASE c = "c" -> "h_C"
      [] c = "p" -> "h_matching_proxy_connection"
      [] c = "t" -> "h_matching_transfer_encoding"
      [] c = "u" -> "h_matching_upgrade"
      [] OTHER   -> "h_general"

HeaderFieldStart(p, ch) ==
    CASE ch = LF       -> HeadersAlmostDone(Go(p, "s_headers_almost_done"), ch)
      [] ch = CR       -> Go(p, "s_headers_almost_done")
      [] ch \in TOKEN  -> [MARK(Go(p, "s_header_field"), "header_field") EXCEPT
                             !.index = 0, !.header_state = FirstLetter(Lowered(ch))]
      [] OTHER         -> Fail(p, "INVALID_HEADER_TOKEN")

(* An inner loop ends.  Its first byte was counted before: it is counted here *)
(* in place of the byte that ended the loop.                                  *)
LoopEnd(p) == [COUNT_HEADER_SIZE(p, p.passed) EXCEPT !.passed = 0, !.skipping = FALSE]

HeaderField(p, ch) ==
    LET q == LoopEnd(p)
    IN  CASE ch \in TOKEN -> [FieldByte(p, Lowered(ch)) EXCEPT !.passed = Capped(@ + 1)]
          [] ch \notin TOKEN /\ Failed(q) -> q
          [] ch \notin TOKEN /\ ~Failed(q) /\ ch = ":" ->
                 CALLBACK_DATA(Go(q, "s_header_value_discard_ws"), "header_field")
          [] OTHER     -> Fail(q, "INVALID_HEADER_TOKEN")
-----------------------------------------------------------------------------
(* Header values. *)

(* The first digit of a length replaces the one that means "not known". *)
FirstOfLength(p, ch) ==
    CASE ch \notin NUM -> Fail(p, "INVALID_CONTENT_LENGTH")
      [] ch \in NUM /\ "CONTENTLENGTH" \in p.flags -> Fail(p, "UNEXPECTED_CONTENT_LENGTH")
      [] OTHER -> [Flag(p, "CONTENTLENGTH") EXCEPT !.content_length = Digit[ch]]

HeaderValueStart(p, ch) ==
    LET q  == [MARK(Go(p, "s_header_value"), "header_value") EXCEPT !.index = 0]
        c  == LOWER(ch)
        In(h) == [q EXCEPT !.header_state = h]
    IN  CASE q.header_state = "h_upgrade"          -> Flag(In("h_general"), "UPGRADE")
          [] q.header_state = "h_content_length"   -> FirstOfLength(q, ch)
          [] q.header_state = "h_transfer_encoding" ->
                 In(IF c = "c" THEN "h_matching_transfer_encoding_chunked" ELSE "h_general")
          [] q.header_state = "h_connection" ->
                 In(CASE c = "k" -> "h_matching_connection_keep_alive"
                      [] c = "c" -> "h_matching_connection_close"
                      [] c = "u" -> "h_matching_connection_upgrade"
                      [] OTHER   -> "h_matching_connection_token")
          [] q.header_state = "h_matching_connection_token_start" -> q
          [] OTHER                                  -> In("h_general")

(* Mutant: the test for overflow leaves no room for the digit. *)
TooLong_without_room(n, base) == ULLONG_MAX \div base < n

(* Another digit might not fit into a length, or make it "not known". *)
TooLong(n, base) == (ULLONG_MAX - base) \div base < n

Longer(n, base, d) == (n * base + d) % (ULLONG_MAX + 1)

(* One more digit of a length, decimal or hexadecimal. *)
Grown(p, base, d) ==
    IF TooLong(p.content_length, base) THEN Fail(p, "INVALID_CONTENT_LENGTH")
    ELSE [p EXCEPT !.content_length = Longer(@, base, d)]

FlagOf == [h_connection_keep_alive |-> "CONNECTION_KEEP_ALIVE",
           h_connection_close      |-> "CONNECTION_CLOSE",
           h_connection_upgrade    |-> "CONNECTION_UPGRADE",
           h_transfer_encoding_chunked |-> "CHUNKED"]

(* The flag of a word that the value ended with. *)
Flagged(p) ==
    IF p.header_state \in DOMAIN FlagOf THEN Flag(p, FlagOf[p.header_state]) ELSE p

(* An element of Connection's list begins. *)
ListStart(p, c) ==
    [p EXCEPT !.header_state =
        CASE c = "k" -> "h_matching_connection_keep_alive"
          [] c = "c" -> "h_matching_connection_close"
          [] c = "u" -> "h_matching_connection_upgrade"
          [] c \in TOKEN \ {"k", "c", "u"} -> "h_matching_connection_token"
          [] c \in {SPACE, TAB} -> @
          [] OTHER -> "h_general"]

(* Mutant: a word counts although more follows it. *)
ListRest_sticky(p, ch) ==
    IF ch = COMMA
    THEN [Flagged(p) EXCEPT !.header_state = "h_matching_connection_token_start", !.index = 0]
    ELSE p

(* After a word of the list, or in an element that is none of them. *)
ListRest(p, ch) ==
    CASE ch = COMMA -> [Flagged(p) EXCEPT !.header_state = "h_matching_connection_token_start",
                                          !.index = 0]
      [] ch # COMMA /\ ch # SPACE /\ p.header_state \in ListWhole ->
             [p EXCEPT !.header_state = "h_matching_connection_token"]
      [] OTHER -> p

ValueByte(p, ch) ==
    LET c == LOWER(ch)
    IN  CASE p.header_state = "h_content_length" ->
                 CASE ch = SPACE  -> p
                   [] ch \in NUM  -> Grown(p, 10, Digit[ch])
                   [] OTHER       -> Fail(p, "INVALID_CONTENT_LENGTH")
          [] p.header_state = "h_matching_transfer_encoding_chunked" -> Match(p, c, "h_general")
          [] p.header_state = "h_transfer_encoding_chunked" ->
                 IF ch = SPACE THEN p ELSE [p EXCEPT !.header_state = "h_general"]
          [] p.header_state = "h_matching_connection_token_start" -> ListStart(p, c)
          [] p.header_state \in ListMatching -> Match(p, c, "h_matching_connection_token")
          [] p.header_state \in ListWhole \cup {"h_matching_connection_token"} -> ListRest(p, ch)
          (* The loop skips to the end of the value without a look at it. *)
          [] OTHER -> [p EXCEPT !.header_state = "h_general", !.skipping = TRUE]

HeaderValue(p, ch) ==
    LET q == LoopEnd(p)
    IN  CASE ch = CR -> LoopEnd(CALLBACK_DATA(Go(p, "s_header_almost_done"), "header_value"))
          [] ch = LF -> IF Failed(q) THEN q ELSE CALLBACK_DATA(Go(q, "s_header_value_lws"), "header_value")
          [] ch \notin {CR, LF} /\ ~p.skipping /\ ~IS_HEADER_CHAR(ch) -> Fail(p, "INVALID_HEADER_TOKEN")
          [] OTHER -> LET v == IF p.skipping THEN p ELSE ValueByte(p, ch)
                      IN  [v EXCEPT !.passed = Capped(@ + 1)]

HeaderValueLws(p, ch) ==
    IF ch \in {SPACE, TAB} THEN HeaderValueStart(p, ch)
    ELSE HeaderFieldStart(Go(Flagged(p), "s_header_field_start"), ch)

(* The value was empty: the callback gets no bytes. *)
HeaderValueDiscardLws(p, ch) ==
    HeaderFieldStart(Call(Go(Flagged(p), "s_header_field_start"), "header_value"), ch)
-----------------------------------------------------------------------------
(* Bodies. *)

BodyByte(p) == [MARK(p, "body") EXCEPT !.content_length = @ - 1]

(* The last byte of the body is in the callback. *)
BodyIdentity(p) ==
    LET q == BodyByte(p)
    IN  IF q.content_length > 0 THEN q
        ELSE MessageDone(CALLBACK_DATA(Go(q, "s_message_done"), "body"))

ChunkSizeStart(p, ch) ==
    IF ch \in DOMAIN unhex THEN [Go(p, "s_chunk_size") EXCEPT !.content_length = unhex[ch]]
    ELSE Fail(p, "INVALID_CHUNK_SIZE")

ChunkSize(p, ch) ==
    IF ch \in DOMAIN unhex THEN Grown(p, 16, unhex[ch]) ELSE Fail(p, "INVALID_CHUNK_SIZE")

(* Mutant: the last chunk is taken for one with data. *)
ChunkSizeAlmostDone_no_trailer(p, ch) ==
    IF ch # LF THEN Fail(p, "STRICT") ELSE [Go(p, "s_chunk_data") EXCEPT !.nread = 0]

ChunkSizeAlmostDone(p, ch) ==
    CASE ch # LF -> Fail(p, "STRICT")
      [] ch = LF /\ p.content_length = 0 ->
             [Flag(Go(p, "s_header_field_start"), "TRAILING") EXCEPT !.nread = 0]
      [] OTHER -> [Go(p, "s_chunk_data") EXCEPT !.nread = 0]

ChunkData(p) ==
    LET q == BodyByte(p)
    IN  IF q.content_length > 0 THEN q ELSE Go(q, "s_chunk_data_almost_done")

ChunkDataAlmostDone(p, ch) ==
    IF ch # CR THEN Fail(p, "STRICT") ELSE CALLBACK_DATA(Go(p, "s_chunk_data_done"), "body")

ChunkDataDone(p, ch) ==
    IF ch # LF THEN Fail(p, "STRICT") ELSE [Go(p, "s_chunk_size_start") EXCEPT !.nread = 0]
-----------------------------------------------------------------------------
(* http_parser_execute *)

Handled(p, ch) ==
    CASE p.state = "s_start_req"                -> StartRequest(p, ch)
      [] p.state = "s_start_res"                -> StartResponse(p, ch)
      [] p.state = "s_req_method"               -> Method(p, ch)
      [] p.state \in UrlStates \cup {"s_req_spaces_before_url"} -> Url(p, ch)
      [] p.state \in NumberStates               -> Number(p, ch)
      [] p.state = "s_res_status_start"         -> MARK([Go(p, "s_res_status") EXCEPT !.index = 0], "status")
      [] p.state = "s_res_status"               -> ReasonPhrase(p, ch)
      [] p.state = "s_header_field_start"       -> HeaderFieldStart(p, ch)
      [] p.state = "s_header_field"             -> HeaderField(p, ch)
      [] p.state = "s_header_value_discard_ws"  -> HeaderValueStart(p, ch)
      [] p.state = "s_header_value"             -> HeaderValue(p, ch)
      [] p.state = "s_header_value_lws"         -> HeaderValueLws(p, ch)
      [] p.state = "s_header_value_discard_lws" -> HeaderValueDiscardLws(p, ch)
      [] p.state = "s_headers_almost_done"      -> HeadersAlmostDone(p, ch)
      [] p.state = "s_body_identity"            -> BodyIdentity(p)
      [] p.state = "s_body_identity_eof"        -> MARK(p, "body")
      [] p.state = "s_chunk_size_start"         -> ChunkSizeStart(p, ch)
      [] p.state = "s_chunk_size"               -> ChunkSize(p, ch)
      [] p.state = "s_chunk_size_almost_done"   -> ChunkSizeAlmostDone(p, ch)
      [] p.state = "s_chunk_data"               -> ChunkData(p)
      [] p.state = "s_chunk_data_almost_done"   -> ChunkDataAlmostDone(p, ch)
      [] p.state = "s_chunk_data_done"          -> ChunkDataDone(p, ch)
      [] p.state = "s_chunk_parameters"         -> p
      [] OTHER                                  -> Fail(p, ErrnoOf(p.state))

(* A byte inside an inner loop is not counted here. *)
Counted(p) ==
    IF PARSING_HEADER(p.state) /\ p.passed = 0 THEN COUNT_HEADER_SIZE(p, 1) ELSE p

(* The callbacks that get the byte: those whose mark is set, and that of the  *)
(* body whose last byte it is.                                                *)
Attributed(p, q) ==
    [q EXCEPT !.data = q.marks \cup (IF p.state = "s_body_identity" THEN {"body"} ELSE {})]

Transition(p, ch) ==
    IF Moved(p.state, ch) # {} THEN Go(p, (CHOOSE m \in Moved(p.state, ch) : TRUE)[3])
    ELSE Handled(p, ch)

Stopped(p) == Failed(p) \/ p.exited

(* One turn of the loop. *)
Read(p, ch) ==
    LET q == Counted([p EXCEPT !.calls = {}])
    IN  CASE Stopped(p)                  -> p
          [] ~Stopped(p) /\ Failed(q)    -> q
          [] OTHER                       -> Attributed(p, Transition(q, ch))

(* Mutant: a reason phrase that was cut is not marked again. *)
Remarked_without_status(s) ==
    CASE s = "s_header_field" -> {"header_field"}
      [] s = "s_header_value" -> {"header_value"}
      [] s \in UrlStates      -> {"url"}
      [] OTHER                -> {}

(* A buffer begins: what the last one left unfinished is marked again.        *)
Remarked(s) ==
    CASE s = "s_header_field" -> {"header_field"}
      [] s = "s_header_value" -> {"header_value"}
      [] s = "s_res_status"   -> {"status"}
      [] s \in UrlStates      -> {"url"}
      [] OTHER                -> {}

BufferBegins(p) == [p EXCEPT !.marks = Remarked(p.state), !.exited = FALSE]

(* A buffer ends: a loop that ran to its end counts its bytes, and the marks  *)
(* that are left get their callbacks.                                         *)
BufferEnds(p) ==
    LET q == LoopEnd(p)
    IN  CASE Stopped(p)                -> p
          [] ~Stopped(p) /\ Failed(q)  -> q
          [] OTHER                     -> [q EXCEPT !.marks = {}]

(* A call with no bytes: the peer has closed. *)
EndOfInput(p) ==
    LET q == [p EXCEPT !.calls = {}, !.data = {}]
    IN  CASE p.state = "s_body_identity_eof" -> Call(q, "message_complete")
          [] p.state \in {"s_dead", "s_start_res", "s_start_req"} -> q
          [] OTHER -> Fail(q, "INVALID_EOF_STATE")
-----------------------------------------------------------------------------
(* The parser of a connection. *)

VARIABLES
    parser,
    text,       \* what is left of the buffer
    open,       \* the end of the input has not been reported
    pending     \* headers_complete calls, less message_complete calls

vars == <<parser, text, open, pending>>

Init ==
    /\ parser \in {NewParser("HTTP_REQUEST"), NewParser("HTTP_RESPONSE")}
    /\ text = <<>>
    /\ open = TRUE
    /\ pending = 0

(* The caller passes another buffer, unless the last call stopped early. *)
Execute ==
    /\ text = <<>> /\ open /\ ~Stopped(parser)
    /\ \E word \in Words : text' = Text(word)
    /\ parser' = BufferBegins(parser)
    /\ UNCHANGED <<open, pending>>

One(f, p) == IF f \in p.calls THEN 1 ELSE 0
Noted(p)  == pending + One("headers_complete", p) - One("message_complete", p)

Byte ==
    /\ text # <<>>
    /\ LET q    == Read(parser, Head(text))
           last == Stopped(q) \/ Len(text) = 1
       IN  /\ parser' = IF last THEN BufferEnds(q) ELSE q
           /\ text' = IF last THEN <<>> ELSE Tail(text)
           /\ pending' = Noted(q)
    /\ UNCHANGED open

Eof ==
    /\ text = <<>> /\ open /\ ~Stopped(parser)
    /\ open' = FALSE
    /\ parser' = EndOfInput(parser)
    /\ pending' = Noted(parser')
    /\ UNCHANGED text

Next == Execute \/ Byte \/ Eof

Spec == Init /\ [][Next]_vars
-----------------------------------------------------------------------------
(* Properties. *)

ChunkStates == {"s_chunk_size_start", "s_chunk_size", "s_chunk_parameters",
                "s_chunk_size_almost_done", "s_chunk_data", "s_chunk_data_almost_done",
                "s_chunk_data_done"}

(* Every field keeps its range.  index does not grow with a header's length,  *)
(* and its 7 bits are never short: a word stops matching before it passes it. *)
TypeOK ==
    /\ parser.content_length \in 0 .. ULLONG_MAX
    /\ parser.nread \in 0 .. MaxCount /\ parser.passed \in 0 .. MaxCount
    /\ parser.index \in 0 .. 17
    /\ parser.flags \subseteq {"CHUNKED", "CONNECTION_KEEP_ALIVE", "CONNECTION_CLOSE",
                               "CONNECTION_UPGRADE", "TRAILING", "UPGRADE", "CONTENTLENGTH"}
    /\ pending \in Int
    /\ open \in BOOLEAN

(* The assertions inside http_parser_execute hold whenever they are reached:  *)
(* header bytes are counted from nothing at each chunk, a body is read only   *)
(* while some of a known length is left, chunks belong to chunked messages,   *)
(* no value is read with a name still in header_state, and no two callbacks   *)
(* have data to get at once.                                                  *)
AssertionsHold ==
    LET s == parser.state
    IN  Failed(parser) \/
        /\ s = "s_chunk_size_start" => parser.nread = 0
        /\ s \in ChunkStates => "CHUNKED" \in parser.flags
        /\ s \in {"s_body_identity", "s_chunk_data"} =>
              parser.content_length \notin {0, ULLONG_MAX}
        /\ s = "s_chunk_data_almost_done" => parser.content_length = 0
        /\ s = "s_header_value" =>
              parser.header_state \notin {"h_connection", "h_transfer_encoding"}
        /\ s = "s_header_field" =>
              parser.header_state \in FieldPrefix \cup FieldMatching \cup FieldWhole \cup {"h_general"}
        /\ Cardinality(parser.marks) <= 1

(* A length that was declared is never the one that stands for "not known",   *)
(* whatever its digits: else the body would run to the end of the connection. *)
LengthKnown ==
    (~Failed(parser) /\ ("CONTENTLENGTH" \in parser.flags 
                             \/ parser.state \in ChunkStates \ {"s_chunk_size_start"}))
        => parser.content_length < ULLONG_MAX

(* A body is framed in one way: none is read in chunks that also declared a   *)
(* length.  Only the trailer after the last chunk may still name one.         *)
FramedOnce ==
    parser.state \in ChunkStates => {"CONTENTLENGTH", "TRAILING"} \cap parser.flags = {}

(* on_headers_complete and on_message_complete alternate over any sequence of *)
(* messages and buffers, and a message waits for its end exactly while the    *)
(* parser is in its body or in its trailer.                                   *)
CallbacksAlternate ==
    (~Failed(parser) /\ open) =>
        pending = IF parser.state \in BodyStates \cup ChunkStates
                     \/ ("TRAILING" \in parser.flags
                           /\ parser.state \notin {"s_start_req", "s_start_res", "s_dead"})
                  THEN 1 ELSE 0
=============================================================================
