------------------------------- MODULE Urls --------------------------------
(***************************************************************************)
(* Texts that name things: urls, endpoints and the query of a request, and *)
(* the functions that take them apart and put them together.  A text is a  *)
(* sequence of symbols; a symbol is a delimiter or a word, which holds no  *)
(* delimiter.                                                              *)
(***************************************************************************)
EXTENDS Integers, Sequences, SequencesExt

CONSTANTS
    Numbers,     \* the words that stoi accepts
    Schemes      \* the words "http://", "tcp://" and "udp://"

(* What delimiters separate, when one more symbol is read: the last piece may *)
(* be empty.                                                                  *)
Longer(pieces, symbol, delimiter) ==
    IF symbol = delimiter THEN Append(pieces, <<>>)
    ELSE Append(Front(pieces), Append(Last(pieces), symbol))

Pieces(s, delimiter) ==
    LET pieces[i \in 0 .. Len(s)] ==
          IF i = 0 THEN << <<>> >> ELSE Longer(pieces[i - 1], s[i], delimiter)
    IN  pieces[Len(s)]

(* getline finds no piece after the last delimiter when nothing is left, and  *)
(* none at all in an empty text.                                              *)
split(s, delimiter) ==
    LET p == Pieces(s, delimiter) IN IF Last(p) = <<>> THEN Front(p) ELSE p

(* What comes before the first of a symbol. *)
UpTo(s, symbol) == SubSeq(s, 1, SelectInSeq(Append(s, symbol), LAMBDA x : x = symbol) - 1)

(* stoi reads the digits that a text begins with, and throws if it has none. *)
IsNumber(s) == s # <<>> /\ Head(s) \in Numbers
stoi(s)     == Head(s)
-----------------------------------------------------------------------------
(* Endpoints.  A failed parse is <<>>: an empty QhmEndpoint, an empty path. *)

NoScheme(url) == IF url # <<>> /\ Head(url) \in Schemes THEN Tail(url) ELSE url

(* QhmEndpoint's constructor, and the text of its endpoint. *)
QhmEndpoint(ip, p) == [address |-> ip, port |-> p]
Endpoint(node)     == node.address \o <<":", node.port>>

(* Mutant: the port is what follows the last colon. *)
parse_url_last(url) ==
    LET tokens == split(NoScheme(url), ":")
    IN  IF Len(tokens) < 2 \/ ~IsNumber(Last(tokens)) THEN <<>>
        ELSE QhmEndpoint(tokens[1], stoi(Last(tokens)))

parse_url(url) ==
    LET tokens == split(NoScheme(url), ":")
    IN  IF Len(tokens) < 2 \/ ~IsNumber(tokens[2]) THEN <<>>
        ELSE QhmEndpoint(tokens[1], stoi(tokens[2]))

parse_path(url) ==
    LET rest == NoScheme(url)
    IN  IF Len(split(rest, ":")) < 2 THEN <<>>
        ELSE SubSeq(rest, Len(split(rest, "/")[1]) + 1, Len(rest))

(* Socket::parse_endpoint takes an address and a port and nothing else. *)
parse_endpoint(endpoint) ==
    LET tokens == split(NoScheme(endpoint), ":")
    IN  IF Len(tokens) # 2 \/ ~IsNumber(tokens[2]) THEN <<>>
        ELSE QhmEndpoint(tokens[1], stoi(tokens[2]))
-----------------------------------------------------------------------------
(* Queries.  A key's value is a list: of one text for a JSON string, of more  *)
(* for an array.                                                              *)

NoParams == [key \in {} |-> <<>>]

FieldDefined(field) == Len(split(field, "=")) > 1

(* Mutant: the first field with a key wins. *)
ParamsOf_first(fields) ==
    LET key(f) == split(f, "=")[1]
    IN  [k \in {key(f) : f \in ToSet(fields)} |->
            LET text   == split(fields[Min({i \in DOMAIN fields : key(fields[i]) = k})], "=")[2]
                values == split(text, ",")
            IN  IF Len(values) > 1 THEN values ELSE <<text>>]

(* The last field with a key wins.                                            *)
ParamsOf(fields) ==
    LET key(f) == split(f, "=")[1]
    IN  [k \in {key(f) : f \in ToSet(fields)} |->
            LET text   == split(fields[Max({i \in DOMAIN fields : key(fields[i]) = k})], "=")[2]
                values == split(text, ",")
            IN  IF Len(values) > 1 THEN values ELSE <<text>>]

QueryFields(token) ==
    LET parts == split(token, "?") IN IF Len(parts) > 1 THEN split(parts[2], "&") ELSE <<>>

(* parse_params_in_token reads el[1] of each field: there is none without an  *)
(* equals sign that something follows, and then the outcome is undefined.     *)
TokenDefined(token) == \A field \in ToSet(QueryFields(token)) : FieldDefined(field)

parse_params_in_token(token) ==
    IF QueryFields(token) = <<>> THEN NoParams ELSE ParamsOf(QueryFields(token))

(* form_get_request throws for a value that is an array. *)
FormDefined(params) == \A key \in DOMAIN params : Len(params[key]) = 1

(* Mutant: every field begins with a question mark. *)
form_get_request_marked(url, params) ==
    url \o FlattenSeq([i \in 1 .. Len(SetToSeq(DOMAIN params)) |->
                        LET key == SetToSeq(DOMAIN params)[i]
                        IN  <<"?">> \o key \o <<"=">> \o params[key][1]])

form_get_request(url, params) ==
    Front(url \o <<"?">> \o
          FlattenSeq([i \in 1 .. Len(SetToSeq(DOMAIN params)) |->
                        LET key == SetToSeq(DOMAIN params)[i]
                        IN  key \o <<"=">> \o params[key][1] \o <<"&">>]))
=============================================================================
