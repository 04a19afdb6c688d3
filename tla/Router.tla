------------------------------- MODULE Router -------------------------------
(***************************************************************************)
(* A service's routes: those that its init adds, and process_http, which   *)
(* finds the route of a request's path and takes the parameters from it.   *)
(* A request is kept by its parts, its path's segments and its query's     *)
(* fields; the code sees the text that they make.                          *)
(***************************************************************************)
EXTENDS Urls

CONSTANTS
    Symbols,       \* the symbols that texts are made of
    RouteTexts,    \* the routes that add_route may be called with
    Requests,      \* the requests that come
    Callbacks,     \* the urls of callbacks, by their parts
    Curly,         \* the words of routes that are a name in curly braces
    MaxRoutes      \* bound: how many routes a service has

ANY == ".*"

(* What a regex would read otherwise is no symbol.  A route begins with a     *)
(* slash, ends with a word or a parameter, and has no query.                  *)
ASSUME RouteAssumption ==
    /\ MaxRoutes \in Nat
    /\ {"/", "?", "&", "=", ",", ":"} \subseteq Symbols /\ ANY \notin Symbols
    /\ \A text \in RouteTexts : /\ text \in Seq(Symbols \ {"?"}) /\ text # <<>>
                                /\ Head(text) = "/" /\ Last(text) # "/"

(* The parts of a request hold none of the delimiters that separate them, but  *)
(* for slashes in values.  A path has a slash, a value is not empty.           *)
Plaintext(delimiters) == Seq(Symbols \ delimiters)

ASSUME RequestAssumption == \A r \in Requests :
    /\ r.segments \in Seq(Plaintext({"/", "?"})) /\ r.segments # <<>>
    /\ r.query \in Seq([key : Plaintext({"/", "?", "&", "=", ","}), equals : BOOLEAN,
                        values : Seq(Plaintext({"?", "&", "=", ","}) \ {<<>>})])

(* The same for a callback's url: a scheme or none, an address, a port or none *)
(* and a path or none.                                                        *)
ASSUME CallbackAssumption ==
    /\ Numbers \subseteq Symbols \ {"/", ":"} /\ Schemes \subseteq Symbols
    /\ \A c \in Callbacks :
          /\ c.scheme = <<>> \/ c.scheme \in {<<word>> : word \in Schemes}
          /\ c.address \in Plaintext({"/", ":"}) \ {<<>>} /\ Head(c.address) \notin Schemes
          /\ c.port = <<>> \/ c.port \in {<<":", n>> : n \in Numbers}
          /\ c.path \in Seq(Symbols) /\ (c.path # <<>> => Head(c.path) = "/")

(* A segment is a sequence of words.  A field may lack its equals sign, and    *)
(* then it has no values.                                                     *)
FieldText(f) ==
    f.key \o (IF f.equals THEN <<"=">> ELSE <<>>)
    \o FlattenSeq([i \in 1 .. Len(f.values) |-> (IF i = 1 THEN <<>> ELSE <<",">>) \o f.values[i]])

QueryText(query) ==
    FlattenSeq([i \in 1 .. Len(query) |-> <<IF i = 1 THEN "?" ELSE "&">> \o FieldText(query[i])])

PathText(segments) == FlattenSeq([i \in 1 .. Len(segments) |-> <<"/">> \o segments[i]])

RequestText(r) == PathText(r.segments) \o QueryText(r.query)

VARIABLES
    routes,     \* the router's routes, in the order of add_route
    request,    \* the request in hand
    answer,     \* the index of its route (0: none) and what its handler gets
    callback    \* a callback of the relay service

routerVars == <<routes, request, answer, callback>>

NoRequest == [segments |-> <<>>, query |-> <<>>]
Unrouted  == [route |-> 0, defined |-> TRUE, params |-> <<>>]
NoCallback == [uri |-> <<>>, destination |-> <<>>, callback_path |-> <<>>]

Init ==
    /\ routes = <<>>
    /\ request = NoRequest
    /\ answer = Unrouted
    /\ callback = NoCallback
-----------------------------------------------------------------------------
(* add_route. *)

IsParam(token) == Len(token) = 1 /\ Head(token) \in Curly

(* Positions count from 0.  The last token is a parameter in any case. *)
parse_param_ids_in_route(text) ==
    LET tokens == split(text, "/")
        param_ids[count \in 0 .. Len(tokens)] ==
          IF count = 0 THEN <<>>
          ELSE param_ids[count - 1]
               \o IF IsParam(tokens[count]) \/ count = Len(tokens)
                  THEN << [pos |-> count - 1, name |-> tokens[count]] >> ELSE <<>>
    IN  param_ids[Len(tokens)]

(* What a handler gets is a JSON object, its keys the parameters' names: with  *)
(* two of one name the later would overwrite.  A name's braces are cut off: no *)
(* word of a route is a name that another has in braces.                      *)
ASSUME NamesAssumption == \A text \in RouteTexts :
    LET ids == parse_param_ids_in_route(text)
    IN  \A j, k \in DOMAIN ids : ids[j].name = ids[k].name => j = k

(* The route's tokens, each followed by a slash but the last. *)
generate_route_regex(text) ==
    LET tokens == split(text, "/")
        piece(token) == (IF IsParam(token) THEN <<ANY>> ELSE token) \o <<"/">>
        all == FlattenSeq([i \in 1 .. Len(tokens) |-> piece(tokens[i])])
    IN  SubSeq(all, 1, Len(all) - 1)

url_depth(url) == Len(split(url, "/"))

add_route(text) ==
    /\ request = NoRequest /\ callback = NoCallback /\ Len(routes) < MaxRoutes
    /\ routes' = Append(routes, [text |-> text,
                                 regex |-> generate_route_regex(text),
                                 depth |-> url_depth(text),
                                 params |-> parse_param_ids_in_route(text)])
    /\ UNCHANGED <<request, answer, callback>>
-----------------------------------------------------------------------------
(* match, and process_http up to the call of the handler. *)

(* How much of the text may match one more symbol of the regex.  Any symbol   *)
(* may be part of ".*", a slash too.                                          *)
Further(reached, s, symbol) ==
    IF symbol = ANY THEN {k \in 0 .. Len(s) : \E j \in reached : j <= k}
    ELSE {k \in 1 .. Len(s) : k - 1 \in reached /\ s[k] = symbol}

Reached(s, regex) ==
    LET reached[i \in 0 .. Len(regex)] ==
          IF i = 0 THEN {0} ELSE Further(reached[i - 1], s, regex[i])
    IN  reached[Len(regex)]

regex_match(s, regex) == Len(s) \in Reached(s, regex)

(* Mutant: depths are not compared. *)
match_any_depth(url) ==
    LET queryless == UpTo(url, "?")
    IN  SelectInSeq(routes, LAMBDA r : regex_match(queryless, r.regex))

match(url) ==
    LET queryless == UpTo(url, "?")
    IN  SelectInSeq(routes, LAMBDA r : /\ r.depth = url_depth(queryless)
                                       /\ regex_match(queryless, r.regex))

(* parse_all_params_in_url: the tokens of the whole url, its query's slashes  *)
(* among them, at the positions of the route's parameters.                    *)
TokensOf(url, schema) == [k \in 1 .. Len(schema) |-> split(url, "/")[schema[k].pos + 1]]

(* split finds no piece in an empty token, and [0] of it is undefined. *)
ParamsDefined(url, schema) ==
    \A token \in ToSet(TokensOf(url, schema)) : token # <<>> /\ TokenDefined(token)

(* Mutant: the value keeps the query. *)
parse_all_params_in_url_whole(url, schema) ==
    LET tokens == TokensOf(url, schema)
    IN  [k \in 1 .. Len(schema) |-> [name |-> schema[k].name, value |-> tokens[k],
                                     params |-> parse_params_in_token(tokens[k])]]

parse_all_params_in_url(url, schema) ==
    LET tokens == TokensOf(url, schema)
    IN  [k \in 1 .. Len(schema) |-> [name |-> schema[k].name,
                                     value |-> split(tokens[k], "?")[1],
                                     params |-> parse_params_in_token(tokens[k])]]

InRange(url, schema) == \A k \in 1 .. Len(schema) : schema[k].pos < Len(split(url, "/"))

Answer(i, url) ==
    LET schema  == routes[i].params
        defined == InRange(url, schema) /\ ParamsDefined(url, schema)
    IN  [route |-> i, defined |-> defined,
         params |-> IF defined THEN parse_all_params_in_url(url, schema) ELSE <<>>]

process_http(r) ==
    LET url   == RequestText(r)
        found == match(url)
    IN  /\ request = NoRequest /\ callback = NoCallback
        /\ request' = r
        /\ answer' = IF found = 0 THEN Unrouted ELSE Answer(found, url)
        /\ UNCHANGED <<routes, callback>>
-----------------------------------------------------------------------------
(* The relay's add_callback: where a callback will go.  Bound: it has nothing *)
(* to do with the routes, and is called before there are any.                 *)
CallbackText(c) == c.scheme \o c.address \o c.port \o c.path

add_callback(c) ==
    /\ routes = <<>> /\ request = NoRequest /\ callback = NoCallback
    /\ callback' = [uri |-> c,
                    destination |-> parse_url(CallbackText(c)),
                    callback_path |-> parse_path(CallbackText(c))]
    /\ UNCHANGED <<routes, request, answer>>

Next ==
    \/ \E text \in RouteTexts : add_route(text)
    \/ \E r \in Requests : process_http(r)
    \/ \E c \in Callbacks : add_callback(c)

Spec == Init /\ [][Next]_routerVars
-----------------------------------------------------------------------------
(* Properties, stated on the parts of the request. *)

Tokens(i) == Tail(split(routes[i].text, "/"))

(* A route fits when its segments are as many as the request's, and those     *)
(* that are no parameters are the same.                                       *)
Fits(i) ==
    /\ Len(Tokens(i)) = Len(request.segments)
    /\ \A k \in 1 .. Len(Tokens(i)) : IsParam(Tokens(i)[k]) \/ Tokens(i)[k] = request.segments[k]

Served == request # NoRequest

(* A path that does not end with a slash goes to the first route that fits it *)
(* segment by segment, and to none when there is none: although ".*" spans    *)
(* slashes, and whatever slashes the query holds.                             *)
FirstFit ==
    (Served /\ request.segments # <<>> /\ Last(request.segments) # <<>>) =>
        answer.route = SelectInSeq([i \in 1 .. Len(routes) |-> i], Fits)

(* The positions that a route's parameters have in the route are positions of *)
(* the url, whichever of its slashes and of its query's the code counts.      *)
PositionsInRange ==
    answer.route # 0 => InRange(RequestText(request), routes[answer.route].params)

(* What the handler is given for a parameter of the path is the segment at    *)
(* its place, whatever follows in the query.                                  *)
ValuesFromPath ==
    \A k \in DOMAIN answer.params :
        answer.params[k].value = request.segments[routes[answer.route].params[k].pos]

(* The query, as whoever sent it meant it. *)
Meant(query) ==
    [key \in {query[i].key : i \in 1 .. Len(query)} |->
        query[Max({i \in 1 .. Len(query) : query[i].key = key})].values]

Plain(field)  == field.equals /\ field.values # <<>>
                   /\ \A v \in ToSet(field.values) : ~Contains(v, "/")
Wellformed(r) == <<>> \notin ToSet(r.segments) /\ \A f \in ToSet(r.query) : Plain(f)

(* A request whose segments and values are there, and whose values hold no    *)
(* slash, reaches its handler with every field of its query in the params of  *)
(* the last segment, and none elsewhere; nothing undefined is read for it.    *)
QueryDelivered ==
    (answer.route # 0 /\ Wellformed(request)) =>
        /\ answer.defined
        /\ \A k \in DOMAIN answer.params :
              answer.params[k].params =
                  IF k = Len(answer.params) THEN Meant(request.query) ELSE NoParams

(* What the relay service forwards with form_get_request, the time service    *)
(* reads back as it was, unless a value is a list (then form_get_request      *)
(* throws).                                                                   *)
QueryForwarded ==
    \A k \in DOMAIN answer.params :
        LET params == answer.params[k].params
        IN  (params # NoParams /\ FormDefined(params)) =>
               parse_params_in_token(form_get_request(<<"get_time">>, params)) = params

(* A callback goes to the address, the port and the path that its url names,  *)
(* colons in the path or not; the endpoint's text is one that a Socket takes; *)
(* and a url without a port is refused.                                       *)
CallbackAddressed ==
    callback # NoCallback =>
        LET c == callback.uri
        IN  /\ c.port # <<>> =>
                  /\ callback.destination = QhmEndpoint(c.address, c.port[2])
                  /\ callback.callback_path = c.path
                  /\ parse_endpoint(Endpoint(callback.destination)) = callback.destination
            /\ (c.port = <<>> /\ ~Contains(c.path, ":")) =>
                  callback.destination = <<>> /\ callback.callback_path = <<>>
=============================================================================
