----------------------------- MODULE HttpCodec ------------------------------
(***************************************************************************)
(* Messages to bytes and back: serialize, and parse_http of the bytes with *)
(* the NUL that parser::parse appends, first as a request and then as a    *)
(* response, each with a parser of its own and in one buffer.  The actions *)
(* are one byte of the parser core with the callbacks that it makes.       *)
(*                                                                         *)
(* The bytes are those of serialize, or of another sender that declares a  *)
(* length of its own.                                                      *)
(***************************************************************************)
EXTENDS HttpParser

CONSTANT Sent    \* pairs: a message, and how far its declared length exceeds its body's

S == INSTANCE SequencesExt

VARIABLES
    message,
    wire,
    strings,    \* what each data callback has been given so far
    fields,     \* the members of http::parser that its callbacks set
    outcome     \* "none" until parse_http returns: then "parsed" or "refused"

codecVars == <<vars, message, wire, strings, fields, outcome>>
-----------------------------------------------------------------------------
(* serialize *)

status_strings == {100, 101, 102} \cup 200 .. 208 \cup {226} \cup (300 .. 308 \ {306})
    \cup 400 .. 417 \cup {421, 422, 423, 424, 426, 428, 429, 431, 451}
    \cup (500 .. 511 \ {509})

(* The phrases are words: none of their letters decides anything. *)
Phrase == "OK"

to_string(n) ==
    LET digits == IF n > 99 THEN <<n \div 100, (n \div 10) % 10, n % 10>>
                  ELSE IF n > 9 THEN <<n \div 10, n % 10>> ELSE <<n>>
    IN  [i \in 1 .. Len(digits) |-> CHOOSE ch \in NUM : Digit[ch] = digits[i]]

Blanks == {SPACE, TAB}

tolower(name) == [i \in 1 .. Len(name) |-> Lowered(name[i])]

StartLine(m) ==
    IF m.type = "HTTP_REQUEST"
    THEN Text(m.method) \o <<" ">> \o m.path \o Text(" HTTP/1.1\n")
    ELSE Text("HTTP/1.1 ") \o to_string(m.status) \o <<" ">> \o Text(Phrase) \o <<LF>>

Line(name, val) == name \o Text(": ") \o val \o <<LF>>

(* The headers that are written, the length last. *)
AllHeaders(m, length) == Append(m.headers, <<Text("content-length"), to_string(length)>>)

(* A length that the message has among its headers is left out. *)
Skipped(m, i) == i <= Len(m.headers) /\ tolower(m.headers[i][1]) = Text("content-length")

HeaderLines(m, length) ==
    LET all == AllHeaders(m, length)
    IN  [i \in 1 .. Len(all) |-> IF Skipped(m, i) THEN <<>> ELSE Line(all[i][1], all[i][2])]

Bytes(m, length) ==
    StartLine(m) \o S!FlattenSeq(HeaderLines(m, length)) \o <<CR, LF>> \o m.body

(* serialize declares two bytes more than the body has. *)
SerializeExtra == 2
serialize(m) == Bytes(m, Len(m.body) + SerializeExtra)
-----------------------------------------------------------------------------
(* What its maker owes, for a message's bytes to be read as one: lines that    *)
(* end where they should, names that are tokens and that differ in more than   *)
(* case, values without a blank in front, a path without blanks.  serialize    *)
(* checks none of it.                                                          *)
Sendable(m) ==
    /\ m \in [type : {"HTTP_REQUEST", "HTTP_RESPONSE"}, method : STRING, status : Nat,
              path : Seq(STRING), headers : Seq(Seq(STRING) \X Seq(STRING)), body : Seq(STRING)]
    /\ \/ /\ m.type = "HTTP_REQUEST" /\ m.method \in MethodNames /\ m.status = 0
          /\ m.path # <<>> /\ \A i \in 1 .. Len(m.path) : m.path[i] \notin {SPACE, CR, LF}
       \/ /\ m.type = "HTTP_RESPONSE" /\ m.method = "" /\ m.path = <<>>
          /\ m.status \in status_strings
    /\ \A i \in 1 .. Len(m.headers) :
          LET name == m.headers[i][1]
              val  == m.headers[i][2]
          IN  /\ name # <<>> /\ \A j \in 1 .. Len(name) : name[j] \in TOKEN
              /\ \A j \in 1 .. Len(val) : val[j] \notin {CR, LF}
              /\ val # <<>> => val[1] \notin Blanks
              /\ \A k \in 1 .. Len(m.headers) : tolower(m.headers[k][1]) = tolower(name) => k = i

(* Lengths have as many digits as to_string writes. *)
MaxLength == 999

ASSUME SentAssumption ==
    \A s \in Sent : Sendable(s[1]) /\ s[2] \in Nat /\ Len(s[1].body) + s[2] <= MaxLength

(* The method that the parser takes the first bytes of a name for. *)
Tried[n \in MethodNames] ==
    LET t[i \in 1 .. Len(n)] ==
            IF i = 1 THEN CHOOSE first \in FirstMethods : Nth(first, 0) = Nth(n, 0)
            ELSE IF Nth(t[i - 1], i - 1) = Nth(n, i - 1) THEN t[i - 1]
            ELSE (CHOOSE o \in OtherMethods : o[1] = t[i - 1] /\ o[2] = i - 1 /\ o[3] = Nth(n, i - 1))[4]
    IN  t

(* Every name is found by its letters, whatever it is taken for before. *)
ASSUME MethodsAssumption ==
    \A n \in MethodNames :
        LET methods == Tried[n]
        IN  /\ \A i \in 0 .. Len(n) - 1 : Nth(n, i) \in ALPHA \cup {"-"}
            /\ Nth(n, 0) \in ALPHA
            /\ {m \in FirstMethods : Nth(m, 0) = Nth(n, 0)} = {methods[1]}
            /\ \A i \in 1 .. Len(n) - 1 :
                  \/ Nth(methods[i], i) = Nth(n, i) /\ methods[i + 1] = methods[i]
                  \/ /\ Nth(methods[i], i) # Nth(n, i)
                     /\ \E o \in OtherMethods :
                           /\ {x \in OtherMethods : x[1] = methods[i] /\ x[2] = i /\ x[3] = Nth(n, i)} = {o}
                           /\ methods[i + 1] = o[4]
            /\ methods[Len(n)] = n
            /\ Nth(n, 0) = "H" => Len(n) > 1 /\ methods[1] = "HEAD" /\ Nth(n, 1) # "T"

(* The texts that are written, letter by letter. *)
ASSUME TextAssumption ==
    /\ {m \in FirstMethods : Nth(m, 0) = "H"} = {"HEAD"} /\ "H" \in ALPHA
    /\ Text(" HTTP/1.1\n") = <<" ", "H", "T", "T", "P", "/", "1", ".", "1", LF>>
    /\ Text("HTTP/1.1 ") = <<"H", "T", "T", "P", "/", "1", ".", "1", " ">>
    /\ Text(": ") = <<":", " ">> /\ Text(Phrase) = <<"O", "K">>
    /\ Chars("content-length") \subseteq TOKEN /\ tolower(Text("content-length")) = Text("content-length")
    /\ \A i \in 1 .. 4 : Nth("content-length", i - 1) = <<"c", "o", "n", "t">>[i]
    /\ Nth("transfer-encoding", 0) = "t" /\ \A ch \in NUM : IS_HEADER_CHAR(ch)
-----------------------------------------------------------------------------
(* http::parser *)

NoFields == [url |-> <<>>, method |-> "", temp_header_field |-> <<>>, headers |-> <<>>, body |-> <<>>]
NoStrings == [k \in {"url", "status", "header_field", "header_value", "body"} |-> <<>>]

Started(type) ==
    /\ parser' = BufferBegins(NewParser(type))
    /\ strings' = NoStrings
    /\ fields' = NoFields

(* The strings after a byte, and the callbacks that are made with them. *)
Given(ch) == [k \in DOMAIN strings |->
                IF k \in parser'.data THEN Append(strings[k], ch) ELSE strings[k]]
Made == ((parser.marks \cup parser'.data) \ parser'.marks) \cup (parser'.calls \cap DOMAIN strings)

(* Mutant: names of headers are kept as they are written. *)
on_header_field_as_is(f, s) == [f EXCEPT !.temp_header_field = s]

on_url(f, s)          == [f EXCEPT !.url = s, !.method = parser'.method]
on_header_field(f, s) == [f EXCEPT !.temp_header_field = tolower(s)]
on_header_value(f, s) ==
    [f EXCEPT !.headers = [name \in DOMAIN @ \cup {f.temp_header_field} |->
                              IF name = f.temp_header_field THEN s ELSE @[name]]]
on_body(f, s)         == [f EXCEPT !.body = @ \o s]

ParseByte ==
    /\ outcome = "none"
    /\ Byte
    /\ IF Failed(parser') THEN UNCHANGED <<strings, fields>>
       ELSE LET s == Given(Head(text))
            IN  /\ strings' = [k \in DOMAIN s |-> IF k \in Made THEN <<>> ELSE s[k]]
                /\ fields' = CASE "url" \in Made          -> on_url(fields, s["url"])
                               [] "header_field" \in Made -> on_header_field(fields, s["header_field"])
                               [] "header_value" \in Made -> on_header_value(fields, s["header_value"])
                               [] "body" \in Made         -> on_body(fields, s["body"])
                               [] OTHER                   -> fields
    /\ UNCHANGED <<message, wire, outcome>>

(* Mutant: the body is given with the NUL that parse appended. *)
Parsed_with_NUL ==
    [type |-> parser.type, method |-> IF parser.type = "HTTP_REQUEST" THEN fields.method ELSE "",
     status |-> IF parser.type = "HTTP_REQUEST" THEN 0 ELSE parser.status_code,
     path |-> fields.url, headers |-> fields.headers, body |-> fields.body]

(* The message that parse makes of what its callbacks kept. *)
Parsed ==
    [type |-> parser.type, method |-> IF parser.type = "HTTP_REQUEST" THEN fields.method ELSE "",
     status |-> IF parser.type = "HTTP_REQUEST" THEN 0 ELSE parser.status_code,
     path |-> fields.url, headers |-> fields.headers,
     body |-> IF fields.body = <<>> THEN <<>> ELSE SubSeq(fields.body, 1, Len(fields.body) - 1)]

(* The text was parsed. *)
Return ==
    /\ text = <<>> /\ outcome = "none" /\ ~Failed(parser)
    /\ outcome' = "parsed"
    /\ UNCHANGED <<vars, message, wire, strings, fields>>

(* It is no request: parse_http tries it as a response. *)
TryResponse ==
    /\ text = <<>> /\ outcome = "none" /\ Failed(parser) /\ parser.type = "HTTP_REQUEST"
    /\ Started("HTTP_RESPONSE")
    /\ text' = Append(wire, NUL)
    /\ pending' = 0
    /\ UNCHANGED <<open, message, wire, outcome>>

Refuse ==
    /\ text = <<>> /\ outcome = "none" /\ Failed(parser) /\ parser.type = "HTTP_RESPONSE"
    /\ outcome' = "refused"
    /\ UNCHANGED <<vars, message, wire, strings, fields>>

CodecInit ==
    /\ \E m \in Sent : /\ message = m[1]
                      /\ wire = Bytes(m[1], Len(m[1].body) + m[2])
    /\ text = Append(wire, NUL)
    /\ parser = BufferBegins(NewParser("HTTP_REQUEST"))
    /\ strings = NoStrings /\ fields = NoFields
    /\ open = TRUE /\ pending = 0
    /\ outcome = "none"

CodecNext == ParseByte \/ Return \/ TryResponse \/ Refuse

CodecSpec == CodecInit /\ [][CodecNext]_codecVars
-----------------------------------------------------------------------------
(* The message that the other side should see: the same, but that names of    *)
(* headers are in lower case and that there is a content-length.              *)
Expected(m) ==
    [m EXCEPT !.headers = [name \in {tolower(m.headers[i][1]) : i \in 1 .. Len(m.headers)} |->
                              m.headers[CHOOSE i \in 1 .. Len(m.headers) :
                                          tolower(m.headers[i][1]) = name][2]]]

Without(headers) == [name \in DOMAIN headers \ {Text("content-length")} |-> headers[name]]

AsMeant == [Parsed EXCEPT !.headers = Without(@)] = [Expected(message) EXCEPT !.headers = Without(@)]

(* Its body ends otherwise than by its content-length. *)
FramesItself(m) ==
    \/ m.method = "CONNECT"
    \/ \E i \in 1 .. Len(m.headers) : tolower(m.headers[i][1]) = Text("transfer-encoding")

(* Where parse_url_char is after each character of a path. *)
Walked(path) ==
    LET u[i \in 1 .. Len(path)] ==
            parse_url_char(IF i = 1 THEN "s_req_spaces_before_url" ELSE u[i - 1], path[i])
    IN  u

(* What the parser core asks for of a message that serialize writes: a path    *)
(* that it walks to an end, values of the characters that it takes, a length   *)
(* that it can hold, and no more bytes before the body than it counts.         *)
Readable(m) ==
    /\ m.type = "HTTP_REQUEST" =>
          /\ \A i \in 1 .. Len(m.path) : Walked(m.path)[i] # "s_dead"
          /\ Walked(m.path)[Len(m.path)] \in UrlEnds
    /\ \A i \in 1 .. Len(m.headers) :
          \A j \in 1 .. Len(m.headers[i][2]) : IS_HEADER_CHAR(m.headers[i][2][j])
    /\ Len(m.body) + SerializeExtra <= MaxLength
    /\ Len(m.body) + SerializeExtra <= ULLONG_MAX - 10
    /\ Len(serialize(m)) - Len(m.body) <= HTTP_MAX_HEADER_SIZE

ASSUME ReadableAssumption == \A s \in Sent : FramesItself(s[1]) \/ Readable(s[1])

(* What serialize writes is read back as what was meant, and as nothing else: *)
(* a request as that request, a response as that response, with every header, *)
(* every byte of the body and not the NUL, for every method and status.       *)
RoundTrip ==
    (outcome # "none" /\ wire = serialize(message) /\ ~FramesItself(message))
        => outcome = "parsed" /\ AsMeant

(* Another sender's length, and headers that frame the body in another way,   *)
(* may make parse_http refuse a message, but never read it as another one:    *)
(* no byte of a body is lost or added, and none is taken for a header.  (What *)
(* follows the headers of an upgrade belongs to the other protocol.)          *)
NeverMisread == (outcome = "parsed" /\ ~parser.upgrade) => AsMeant

(* A body that is no longer than its content-length says is accepted, as the  *)
(* comment in test/http_test.cpp says of content-length.                      *)
AtMostAccepted == outcome # "refused"
-----------------------------------------------------------------------------
(* Reference: the elements of a Connection header are what its commas         *)
(* separate, without the blanks around them and without regard to case.       *)
(* What stands between two places, the blanks around it left out. *)
Element(v, i, j) ==
    LET solid == {k \in i + 1 .. j - 1 : v[k] \notin Blanks}
    IN  IF solid = {} THEN <<>> ELSE tolower(SubSeq(v, S!Min(solid), S!Max(solid)))

Elements(v) ==
    LET ends == {0, Len(v) + 1} \cup {i \in 1 .. Len(v) : v[i] = ","}
    IN  {Element(v, i, S!Min({j \in ends : j > i})) : i \in ends \ {Len(v) + 1}}

Named == [CONNECTION_KEEP_ALIVE |-> "keep-alive", CONNECTION_CLOSE |-> "close",
          CONNECTION_UPGRADE |-> "upgrade"]

(* A word of a Connection header counts exactly when it is an element of the  *)
(* list: neither when it is part of one, nor is one lost for what stands      *)
(* beside it.  The flags decide whether the connection goes on after the      *)
(* message, or becomes another protocol's.                                    *)
ConnectionListed ==
    outcome = "parsed" =>
        parser.flags \cap DOMAIN Named =
            {f \in DOMAIN Named : \E i \in 1 .. Len(message.headers) :
                /\ tolower(message.headers[i][1]) = Text("connection")
                /\ Text(Named[f]) \in Elements(message.headers[i][2])}
=============================================================================
