------------------------------ MODULE MCRouter ------------------------------
(***************************************************************************)
(* Routes like those of the tutorial services, that overlap; requests with *)
(* every path of up to four segments, and with queries that are not what   *)
(* they should be; and the urls of callbacks.                              *)
(***************************************************************************)
EXTENDS Router

MCCurly   == {"{x}", "{y}"}
MCNumbers == {"80", "443"}
MCSchemes == {"http://", "tcp://", "udp://"}

MCSymbols == {"/", "?", "&", "=", ",", ":", "a", "b", "k", "l", "v", "w", "127.0.0.1", "host"}
             \cup MCCurly \cup MCNumbers \cup MCSchemes

MCRoutes == {
    <<"/", "a">>, <<"/", "a", "/", "b">>, <<"/", "a", "/", "{x}">>, <<"/", "{x}", "/", "b">>,
    <<"/", "{x}", "/", "a", "/", "{y}">>, <<"/", "a", "/", "{x}", "/", "b">>}

Words    == {<<>>, <<"a">>, <<"b">>}
Segments == UNION {[1 .. n -> Words] : n \in 1 .. 4}
Asked    == {<< <<"a">>, <<"b">> >>, << <<"b">>, <<"a">>, <<"b">> >>}

Values == {<<>>, << <<"v">> >>, << <<"v">>, <<"w">> >>, << <<"v", "/", "w">> >>}
Fields == [key : {<<"k">>, <<"l">>}, equals : {TRUE}, values : Values]
          \cup {[key |-> <<"k">>, equals |-> FALSE, values |-> <<>>],
                [key |-> <<>>, equals |-> TRUE, values |-> << <<"v">> >>]}
Queries == UNION {[1 .. n -> Fields] : n \in 1 .. 2}

MCRequests == [segments : Segments, query : {<<>>, << [key |-> <<"k">>, equals |-> TRUE,
                                                         values |-> << <<"/">> >>] >>}]
              \cup [segments : Asked, query : Queries]

MCCallbacks == [scheme : {<<>>, <<"http://">>, <<"udp://">>}, address : {<<"127.0.0.1">>, <<"host">>},
                port : {<<>>, <<":", "80">>},
                path : {<<>>, <<"/">>, <<"/", "a", "/", "b">>, <<"/", "a", ":", "443">>}]
=============================================================================
