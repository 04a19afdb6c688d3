--------------------------- MODULE HttpParserInv ----------------------------
(***************************************************************************)
(* The inductive invariant of HttpParser: what each state of the machine   *)
(* promises to the handler of the next byte.                               *)
(***************************************************************************)
EXTENDS HttpParser

(* The values that fields take. *)

Flags == {"CHUNKED", "CONNECTION_KEEP_ALIVE", "CONNECTION_CLOSE", "CONNECTION_UPGRADE",
          "TRAILING", "UPGRADE", "CONTENTLENGTH"}

Errnos == {"OK", "CLOSED_CONNECTION", "LF_EXPECTED", "INVALID_CONSTANT", "STRICT",
           "HEADER_OVERFLOW", "UNEXPECTED_CONTENT_LENGTH", "INVALID_METHOD", "INVALID_URL",
           "INVALID_VERSION", "INVALID_STATUS", "INVALID_HEADER_TOKEN",
           "INVALID_CONTENT_LENGTH", "INVALID_CHUNK_SIZE", "INVALID_EOF_STATE"}

Data == {"url", "status", "header_field", "header_value", "body"}

Calls == {"headers_complete", "message_complete", "header_value"}

-----------------------------------------------------------------------------
(* The states, by what they are part of. *)

Idle == {"s_start_req", "s_start_res", "s_dead"}

(* Start lines. *)
Lines == UrlStates \cup {
    "s_res_H", "s_res_HT", "s_res_HTT", "s_res_HTTP", "s_res_first_http_major",
    "s_res_http_major", "s_res_first_http_minor", "s_res_http_minor",
    "s_res_first_status_code", "s_res_status_code", "s_res_status_start", "s_res_status",
    "s_res_line_almost_done", "s_req_method", "s_req_spaces_before_url",
    "s_req_http_start", "s_req_http_H", "s_req_http_HT", "s_req_http_HTT", "s_req_http_HTTP",
    "s_req_first_http_major", "s_req_http_major", "s_req_first_http_minor",
    "s_req_http_minor", "s_req_line_almost_done"}

(* Header lines, and those of a trailer. *)
Heads == {"s_header_field_start", "s_header_field", "s_header_value_discard_ws",
          "s_header_value_discard_ws_almost_done", "s_header_value_discard_lws",
          "s_header_value", "s_header_value_lws", "s_header_almost_done",
          "s_headers_almost_done"}

Bodies == {"s_body_identity", "s_body_identity_eof"}

Lasting == Idle \cup Lines \cup Heads \cup Bodies \cup ChunkStates

(* Two more begin and end within one turn of the loop. *)
States == Lasting \cup {"s_headers_done", "s_message_done"}

(* States whose handlers are loops of their own. *)
Loops == {"s_header_field", "s_header_value"}

(* States in which a header line begins, or the end of them. *)
LineStates == {"s_header_field_start", "s_header_value_lws", "s_header_value_discard_lws"}

(* header_state while a name is read, and while a value is. *)
FieldHeaders == FieldPrefix \cup FieldMatching \cup FieldWhole \cup {"h_general"}

ValueHeaders == {"h_general", "h_content_length", "h_matching_transfer_encoding_chunked",
                 "h_transfer_encoding_chunked"} \cup ListMatching \cup ListWhole \cup ListToken

Headers == FieldHeaders \cup ValueHeaders

(* Every field keeps its range. *)
Parser == [
    type : {"HTTP_REQUEST", "HTTP_RESPONSE"}, state : States, header_state : Headers,
    index : 0 .. 17, flags : SUBSET Flags, content_length : 0 .. ULLONG_MAX,
    method : MethodNames, http_major : Nat, http_minor : Nat, status_code : Nat,
    upgrade : BOOLEAN, nread : 0 .. MaxCount, http_errno : Errnos, marks : SUBSET Data,
    passed : 0 .. MaxCount, skipping : BOOLEAN, exited : BOOLEAN, data : SUBSET Data,
    calls : SUBSET Calls]

-----------------------------------------------------------------------------
(* The only callback that may have data to get in a state. *)
MarkOf(s) == IF s \in Bodies \cup {"s_chunk_data", "s_chunk_data_almost_done"} THEN {"body"}
             ELSE Remarked(s)

(* What an inner loop keeps is left behind with it. *)
Looped(p) == p.state \notin Loops => p.passed = 0 /\ p.skipping = FALSE

(* Chunks are not read of a message that declared a length. *)
Framed(p) == p.state \in ChunkStates => "CONTENTLENGTH" \notin p.flags /\ "TRAILING" \notin p.flags

(* Flags are those of the headers that have been read. *)
Flagging(p) ==
    /\ p.state \in Lines => p.flags = {}
    /\ p.state \in Bodies => "TRAILING" \notin p.flags
    /\ p.state \in ChunkStates => "CHUNKED" \in p.flags

(* States in which the length of what follows is known. *)
Known == (ChunkStates \ {"s_chunk_size_start"}) \cup {"s_body_identity"}

(* content_length, and the bytes that are counted before a chunk. *)
Sized(p) ==
    /\ p.state = "s_chunk_size_start" => p.nread = 0
    /\ p.state \in {"s_body_identity", "s_chunk_data"} => p.content_length > 0
    /\ p.state = "s_chunk_data_almost_done" => p.content_length = 0
    /\ "CONTENTLENGTH" \in p.flags \/ p.state \in Known => p.content_length < ULLONG_MAX

Length(w) == Len(w)

(* index is inside the word that is being matched, or at its known place. *)
Indexed(p) ==
    /\ p.header_state \in DOMAIN Word => p.index + 1 < Length(Word[p.header_state])
    /\ p.header_state \in {"h_C", "h_matching_connection_token_start"} => p.index = 0
    /\ p.header_state = "h_CO" => p.index = 1
    /\ p.header_state = "h_CON" => p.index = 2

(* What is being matched belongs to the state. *)
Matching(p) ==
    /\ p.state = "s_req_method" => p.index <= Length(p.method)
    /\ p.state = "s_header_field" => p.header_state \in FieldHeaders
    /\ p.state = "s_header_value" => p.header_state \in ValueHeaders
    /\ p.state \in Loops => Indexed(p)

(* What holds of a parser between two bytes.  One that has failed is not     *)
(* read again, and keeps its types only.                                      *)
Sound(p) ==
    /\ p \in Parser /\ p.state \in Lasting
    /\ Framed(p)
    /\ ~Failed(p) => /\ p.marks \subseteq MarkOf(p.state)
                     /\ Looped(p) /\ Flagging(p) /\ Sized(p) /\ Matching(p)

(* The messages whose headers are complete and that are not. *)
Waits(p) == IF p.state \in Bodies \cup ChunkStates \/ ("TRAILING" \in p.flags /\ p.state \notin Idle)
            THEN 1 ELSE 0

(* The header bytes that have been counted, or will be where an inner loop ends. *)
Load(p) == p.nread + p.passed - (IF p.passed > 0 THEN 1 ELSE 0)

(* The inductive invariant.  A parser that has stopped drops what is left of  *)
(* the buffer, so that no byte is read after an error or an upgrade.          *)
ParserInv ==
    /\ Sound(parser)
    /\ Stopped(parser) => text = <<>>
    /\ ~Failed(parser) /\ open => pending = Waits(parser)
    /\ pending \in Int /\ open \in BOOLEAN
=============================================================================
