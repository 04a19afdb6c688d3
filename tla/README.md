# A formal model of quick-http-messages

quick-http-messages is a C++ library for small services that speak HTTP messages over UDP. A service subclasses
`Messenger`, registers handlers for routes, message types and events, and calls `run()`; clients call
`sync_send_request` or `async_send_request`. This directory holds TLA+ modules that model the library, TLC
configurations that check them on small instances, and proofs that TLAPS checks for every instance. Paths below
are relative to the repository, which `PROJECT.json` calls `src/`.

## 1. The system

### 1.1 Components

| Component | Code | State | Operations | What makes it correct |
|---|---|---|---|---|
| Run loop | `src/messenger/messenger.cpp` 31-179 | `should_run`, `timeout`, and `request`, `reply`, `dest`, which live from turn to turn | `init`, `run`, `process_event`, `process_message`, `process_http`, `finalize` | a reply goes where its request came from; a terminate stops it; it does not sleep on a queued event |
| Node table | `messenger.cpp` 235-261, 285-323, `messenger_neighbour_node.cpp` | `known_nodes`: tag to node with a connected socket | `add_node`, `del_node`, `find_node_by_uri`, `transaction_commit`, `error` | an entry's socket is the right one; clients' entries do not leak |
| Events | `messenger.cpp` 93-114, 281-283, `event.h` | `event_queue` | `dispatch_event`, `process_event` | every event is handled, in order |
| Handler tables | `messenger.cpp` 181-233 | `app_msg_handlers`, `evt_handlers` | register (numbered or not), deregister, look up | a type names one handler for as long as something refers to it |
| Schema | `messenger_utils.cpp` 44-59, `messenger.cpp` 263-279 | none | `parse_http`, `validate_http_message`, `generate_response` | what one side sends the other accepts |
| Callers | `messenger_utils.cpp` 61-140 | a port and a socket per call | `_random_endpoint`, `sync_send_request`, `async_send_request` | a call returns, with the answer to its own request |
| UDP sockets | `lib/udp/udp.cpp` | `server_initialized`, `client_initialized`, pointers | `bind`, `unbind`, `connect`, `disconnect`, `send`, `recv`, `~Socket` | the flags say what the pointers are; nothing leaks or is freed twice |
| Router | `messenger_router.cpp` | list of routes | `add_route`, `match`, parameter parsing | the route that matches is the one meant; parameters come from their places |
| HTTP facade | `lib/http/parser.cpp` | a parser's accumulators | `serialize`, `parse_request`, `parse_response` | what was serialized is parsed back; nothing is taken for another message |
| HTTP parser core, URI | `lib/http/http_parser_core.cpp`, `uri_t.cpp` (vendored) | parser state, flags, counters | `http_parser_execute` | a body has one framing and a known length; callbacks pair up; the same result however the input is split |
| Endpoint parsing | `messenger.cpp` 325-371, `messenger_utils.cpp` 24-42 | none | `parse_url`, `parse_path`, `parse_qhm_endpoint` | round trips |
| Configuration | `messenger_configuration.cpp` | a map | `incorporate`, `safe_at` | |
| Tutorial services | `test/utils/tutorial_*.cpp` | callbacks, event numbers, a count | route and event handlers, a nested `sync_send_request` | a relayed call ends, with the answer and the time of its own request |
| Test fixtures | `test/utils/test_utils.h` | | `kill_node`, `client_fixture` | |
| Logger, uuid, base64, udplib, periodic_task | `lib/` | | | not part of any protocol |

### 1.2 How they interact

A service is one thread. Each turn of `run()` handles at most one queued event, waits for one datagram (3 s, or
100 ms while events are queued), gives it to a handler and sends the reply on the socket that `known_nodes` has
for the *tag* in the reply's DST header, adding a node when the tag is unknown. A client's tag is `temp_` and its
host's tag; `transaction_commit` queues a `DELETE_NODE` event that removes it again. Handlers run on the same
thread; they may dispatch events, add nodes and call other services. A terminate is a message that becomes an event.

A caller binds a socket to a random port, puts port and tag into the SRC header, sends, and takes the first
datagram on that port for its response. Threads of one host share a tag; each call has another port. Callers and
services share no memory, only datagrams, which UDP loses, repeats and reorders.

### 1.3 What is hard

* Replies are routed by tag while the address changes with every call: the table must forget a client before
  its tag's next request is answered (hazards at `messenger.cpp:286` and `messenger_utils.cpp:92`).
* Deletions, terminates and applications' events share one queue, drained one per turn.
* `reply`, `dest` and `timeout` outlive the turn that set them.
* A failed `bind` or `connect` leaves a socket that says it succeeded.
* Nothing in a datagram relates a response to its request.
* Handlers that call other services block their own service.
* The parser is a state machine that may stop after any byte and resume, with loops, marks and counters that
  live in one call; its assertions hold by agreement of distant places.
* `serialize` declares two bytes more than the body has and `parse` adds one and drops one: the pair works because
  of what the parser does with a body that never completes.

`PROJECT.json` lists these and the rest under `hazards`, each at its line with the properties about it.

## 2. The modules

| Module | What it is |
|---|---|
| `Messenger` | the run loop, node table, event queue, and the outcomes of parsing, routing and handlers |
| `MessengerProofs` | theorems about `Messenger`; the refinement `RequestService` implements `SyncRequest`, and what callers get from it; theorems about `Relay` and `RelayQuiet` |
| `SyncRequest` | callers, their sockets and ports, the network, and the service as callers see it: also the abstract specification of a service |
| `SyncDraws` | `SyncRequest` with a variable that remembers whether every bind has succeeded and every drawn port was quiet so far |
| `SyncRequestProofs` | theorems about `SyncRequest` and `SyncDraws` |
| `RequestService` | composition: `SyncRequest`'s callers and network with `Messenger` in place of the abstract service, and `kill_node` |
| `HttpParser` | `http_parser_execute` of the strict build, byte by byte, and the buffers and end of input that a caller passes |
| `HttpParserInv` | the inductive invariant of `HttpParser`: what each state promises to the handler of the next byte |
| `HttpParserProofs` | theorems about `HttpParser`, one lemma per handler |
| `HttpSplit` | two `HttpParser`s that read the same bytes, one of them cut at will |
| `HttpSplitProofs` | theorems about `HttpSplit`: what a cut may change |
| `HttpCodec` | `serialize`, `parse` and `parse_http` on top of `HttpParser` |
| `HttpCodecInv` | the inductive invariants of `HttpCodec`: what parser, strings and fields are at each place of a message, and of one that `serialize` wrote |
| `HttpCodecProofs` | theorems about `HttpCodec`: the bytes of a message, place by place, and what is accepted |
| `HttpServeProofs` | what `serialize` writes is accepted: the round trip |
| `Relay` | the tutorial's relay on top of `RequestService`, with the time service it calls and timeouts that pass |
| `RelayQuiet` | `Relay` with variables that remember whether every request met a table without clients, and whether every nested call waited its time |
| `Sockets` | class `Socket` over `udp_server` and `udp_client`: pointers and flags under any sequence of calls |
| `SocketsProofs` | theorems about `Sockets` |
| `Urls` | the functions that take urls, endpoints and queries apart and put them together |
| `Router` | `add_route`, and `process_http` up to the handler; `add_callback` |
| `RouterProofs` | theorems about `Router` and the functions of `Urls` |
| `MCMessenger`, `MCSyncRequest`, `MCRequestService`, `MCRelay`, `MCSockets`, `MCRouter`, `MCHttpParser`, `MCHttpCodec` | constants for TLC |

Operators whose comment starts with "Mutant" are variants of the definition that follows them, each a bug that one
property detects; no specification uses them.

### 2.1 Messenger

The variables are the loop's: `should_run`, `known_nodes`, `event_queue`, `timeout`, `reply` and `dest`, with `pc` for
the place in `run()` and `sent` for what the last step put on the wire (observed by properties, never read by actions).

| Actions | Code |
|---|---|
| `NoEvent`, `EventTerminate`, `EventDelete`, `EventApp`, `EventUnhandled` | `process_event`, by type of event |
| `RecvNothing` | `recv` timed out |
| `RejectUnparsable`, `HandleTerminate`, `HandleUnknownType`, `AppMessageAnswered`, `AppMessageUnanswered` | `process_message` |
| `IgnoreResponse`, `RouteAnswered`, `RouteFailed`, `RouteNotFound` | `process_http` |
| `HandleAdvertise`, `RejectAdvertise` | the tutorial's `advertise`, the one handler in the repository that adds nodes |
| `ErrorReply`, `ErrorDropped` | `error()` after a negative status |
| `Commit` | `transaction_commit` |
| `Finalize`, `Stopped` | `finalize`, and the object after `run()` |

The environment is open: any `Datagram` may come on any turn. A datagram is what the code tells apart: whether and as
what `parse_http` takes it, its message type, its route, its SRC node. A node whose endpoint does not resolve has
a socket that drops what it is given (`NoEndpoint`). Handlers are a parameter of the library: they answer or fail,
and dispatch up to `MaxEmit` events. Undefined behaviour is a choice: `del_node` uses an iterator that it has
erased and returns no value, so it deletes or ends the process; a null event handler ends the process.

`Advertised` are the nodes that peers may put into the body of an advertise, with any tag: the handler does not look at
it (`tutorial_relay_service.cpp` 84-86). A peer that takes a client's tag gets a node that no event deletes and that this client's
replies go to; what the properties promise to clients, they promise to the tags that nobody else has taken (`ClientTags`).

### 2.2 SyncRequest

`owner` is the operating system's table of bound ports; `cpc`, `call`, `port` and `outcome` belong to a caller's
current call; `requests`, `serving` and `replies` are datagrams. A datagram carries an identifier of the call
that caused it for the properties only; no guard of the code's side reads it.

`Bind` is the whole of `_random_endpoint`: the first draw is always taken, because `Socket::bind` sets
`server_initialized` after a failure that it has caught. `ServerThrows` is that failure: `udp_server`'s constructor throws when
another socket has the port, and on a port that is free among the modelled callers when the address does not resolve or is not
local, another process has the port, or there is no descriptor left (`udp.cpp` 254-271). A caller whose bind failed has a
socket that claims to be bound and a `server` pointer that was never set: its receive may time out, end the process or read
from a descriptor that belongs to another socket, and `~Socket` may end the process (`Holds`, `CanRead`, `ReceiveCrash`,
`Return`). Three constants state the circumstances instead of hiding them: `MayCollide` (a draw may hit a bound port),
`MayFail` (bind may fail on a free port) and `MayReuse` (a draw may hit a port that datagrams of a finished call still name). The
range has about 4000 ports, so all are rare and none is excluded by the code; run `sync` has all three. `SyncDraws` adds `draws`, which
remembers which of them happened: `PortsHeldIfBound` and `OwnAnswerIfQuiet` hold until a bind has failed, and the second
until a port was reused.

The abstract service takes a request that has arrived, once or twice, and drops it or answers it once per time at the
port it names. That is what callers may rely on, and what `RequestService` shows of a `Messenger`.

### 2.3 RequestService

`RequestService` EXTENDS `Messenger` and INSTANTIATES `SyncRequest` with `Ports <- Endpoints` and the refinement mapping
`serving <- Serving`: the request being served is `inhand` while the loop is between a handler and
`transaction_commit`. `HostTag` gives each caller's tag, so callers of one host share one. Datagrams that reach the
Messenger are requests in flight and `kill_node`'s message; what `Commit` sends becomes a reply in flight. All
other steps of the loop are `Turn`.

### 2.4 HttpParser

`parser` is the `http_parser` structure and what one call keeps in locals and in the position of the loop: which data
callback has a mark (`marks`), whether the inner loop over a name or a value has passed bytes that it has not counted
(`passed`), and what the last byte led to (`calls`, `data`). `text` is the rest of the buffer, `open` says whether the
end of input is still to come, and `pending` counts `on_headers_complete` less `on_message_complete`.

| Actions | Code |
|---|---|
| `Execute` | a call of `http_parser_execute` with a buffer begins: marks are set again (678-701) |
| `Byte` | one turn of the loop over bytes: `Counted` (704-708), then the `case` of the state; after the last one, or an error, what the call does before it returns (2062-2094) |
| `Eof` | the call with no bytes (656-675) |

`Transition` has one operator per `case` or group of cases (`StartRequest`, `Method`, `parse_url_char`, `Number`,
`HeaderField`, `HeaderValue`, `HeadersAlmostDone`, `ChunkSize`, ...). Transitions that do nothing but go to another state
on some bytes are rows of a relation (`Moves`, `UrlMoves`). `goto reexecute` is a call of the next state's operator with
the same byte. Bytes are characters; those that no state tells apart are left out of the character sets.

The states are the code's but for the words that are spelled out, where `index` and one relation stand for runs of
states. Integers: `content_length` is at most `ULLONG_MAX`, a constant, with the code's test against overflow
(`TooLong`) and the code's value for "not known"; `nread` stops at `MaxCount`, of which only the order
to `HTTP_MAX_HEADER_SIZE` matters. The search for the end of a general value with `memchr` (1545-1564) is `skipping`: its
bytes are counted and are not looked at.

### 2.5 HttpSplit

`parser` reads buffers that `Cut` may end before any byte; `whole` reads the same bytes and is never cut. A call that fails as it
ends, for the size of the headers, is the last: a parser that has failed reads nothing (651-654). The property
compares what a caller can see and what decides about later bytes. Its run checks `HttpParser`'s properties too, of a
parser that is cut anywhere.

### 2.6 HttpCodec

`Sent` is the set of messages with the excess of the declared length over the body's, 2 for `serialize`. `CodecInit`
writes the bytes and appends the NUL of `parse`; `ParseByte` is `HttpParser!Byte` with the callbacks it makes, which
fill `fields` as `http::parser`'s do; `TryResponse` is `parse_http`'s second attempt; `Return` and `Refuse` are its results.
Reason phrases are one word. `SentAssumption` is what a message's maker owes (`Sendable`) and `serialize` does not check: names
are tokens and differ in more than case, values have no line ends and no blank in front, a path has no blanks, a status has a
phrase. What values, paths and bodies hold besides is free, and so are headers that would frame the message otherwise.
`ReadableAssumption` is what the parser core asks for besides, of messages that do not frame themselves: a path that `parse_url_char`
walks to an end (`Walked`), values of header characters, no more bytes before the body than `HTTP_MAX_HEADER_SIZE`.
`MethodsAssumption` and `TextAssumption`, and `LettersAssumption` of `HttpParser`, are facts about strings and letters, which TLC
evaluates and the provers cannot.

### 2.7 Relay

`Relay` EXTENDS `RequestService`: two kinds of routes, `relay` and `add_sign`, take the place of the open choice of what a
handler does. `RelayAsks` is the handler up to the nested `sync_send_request`; while `Waiting` the loop does nothing else,
so a terminate or another request stays in the socket. `RelayAnswered` and `RelayTimesOut` are the rest of the handler,
with the HIGH_MARK event when the time service's count is 1 or more; `RelayReplies` is `transaction_commit` of what the
handler built, `RelayRefuses` the handler's early returns. `RelayRecvFails` is the 408 that comes before its time, from a `select`
that fails or an empty datagram (`udp.cpp` 398-401, 431); callers' calls may end so too (`ClientTimesOut` needs no timer at 0).
Callers' binds succeed here (`~MayFail`): those that fail are `SyncRequest`'s subject. `asked` and `told` are the nested call's datagrams, `count` the
time service's counter, and `time` what a caller's last response says the time is: the request that it was asked for.

`Tick` takes one unit off every timer that runs. A timer starts with the send of its call; the code starts it in the
`recv` that is the next statement, so the model assumes that a caller is not held up for a whole tick between the two.

### 2.8 Sockets

A `udp_server` or `udp_client` is a number, `address` says what it is bound to, `Closed` before it is made and after
it is deleted. A pointer is 0 until it is set; the code leaves it uninitialised. `failed` has the sockets whose `bind` or
`connect` swallowed an exception. An operation that would follow a pointer to nothing is `Undefined`: it names
the socket in `undefined` and the model stops, since nothing is known after it. `use_after_delete` is what a second `run()`
does with the sockets that `finalize` deleted. The constructors fail for an address that does not resolve, for a port that is
taken, and at any other time (no descriptors).

### 2.9 Urls and Router

A text is a sequence of symbols, each a delimiter (`/ ? & = , :`), a scheme, or a word. `split` is `getline`'s: no
piece after a last delimiter, none in an empty text. A request is kept by its parts, and the code sees `RequestText`,
so that properties compare what the code finds in the text with what was meant by it. `regex_match` is the match of a
regex whose only operator is `.*`, over all symbols: `Reached` is how much of the text the regex read so far may match.
`split` is read symbol by symbol too (`Pieces`), then drops a last piece that is empty. Both are recursive functions, so
that they can be reasoned about. `Symbols` is what texts are made of; the three assumptions on `Router`'s constants say
which texts are routes (they begin with a slash, end with something else and have no query), which parts make a
request (none holds a delimiter that separates it from its neighbours, but values may hold slashes), and what a callback's
url is made of. A handler gets a JSON object whose keys are the parameters' names, with a later one of the same name in the place of
the earlier (`messenger_router.cpp` 47-49); the model has a sequence, which is the same for routes whose parameters have different
names (`NamesAssumption`), as all of the repository's do. What a regex would read otherwise is no symbol. A query's field without `=`, or an empty segment where a
parameter is, makes the code read past the end of a vector: `defined` is false.

## 3. What is checked

| Run | Bounds | Shows |
|---|---|---|
| `messenger_events` | 2 client tags, one of them advertised by a peer too, 1 lasting node, 2 endpoints (1 unresolvable), 2 message types, 2 event types (1 of each unregistered), 1 event per handler call, fair loop | `TypeOK`, `TempNodeTracked`, `TimeoutTracksQueue`, `NeverRepointed`, `TerminateHonoured`, `TempNodeReclaimed` |
| `sync` | 2 callers, 2 ports, 2 calls, any draw, binds that may fail, fair callers | `TypeOK`; `PortsHeldIfBound`: while no bind has failed, running calls hold their ports, and no port outlives its call in any case; `OwnAnswerIfQuiet`: while draws were quiet too, callers get their own answers; `CallsReturn` |
| `service` | 2 callers of one host, 2 ports, 2 calls, draws free and quiet, binds that succeed, no events | `Implements`: the composition is a behaviour of `SyncRequest`; `CallersAnswered`; `ClientReplyRouted`: every client is answered where it asked from and gets no 500; `NoBacklog`: no datagram is read while an event waits |
| `relay` | 2 threads of one host, 2 calls (relay and add_sign; a malformed one and relay), timeouts of 2 ticks, 2 requests taken, with or without a known time service, calls that may end early, fair loop and clock | `OwnAnswersIfQuiet`: callers get their own answers, with their own times, while the relay read no request behind a HIGH_MARK event; `GivesUpLastIfPatient`: while no nested `recv` has failed, the relay's 408 finds no caller that still has time; `KillObeyed`; `RelayTypeOK` |
| `sockets` | 2 sockets, 3 endpoints (1 unresolvable), 5 objects | `FlagsTruthful`, `HeldOnce`, `OnlyAfterFailure` |
| `routing` | lists of up to 2 of 6 routes that overlap, every path of up to 4 segments (empty ones too), about 100 queries, 48 callbacks | `FirstFit`: the first route that fits segment by segment; `PositionsInRange`, `ValuesFromPath`, `QueryDelivered`, `QueryForwarded`, `CallbackAddressed` |
| `parser` | any sequence of 15 buffers (start lines, header names and values, digits, ends of lines), cut before any byte | `TypeOK`; `AssertionsHold`: the `assert`s of the code; `LengthKnown`, `FramedOnce`, `CallbacksAlternate`; `SplitInvisible` |
| `codec` | 32 methods, the 59 statuses with a phrase, 4 sets of headers, 4 paths, 4 bodies; about 1600 Connection lists; 36 messages that may be framed otherwise, each with 3 declared lengths | `RoundTrip`, `NeverMisread`, `ConnectionListed` |

Four runs show where the code does not do what a comment, an assertion or a test says; `PROJECT.json` quotes the lines.

| Run | Violated | What happens |
|---|---|---|
| `relay_stale` | `OwnAnswers` | the relay's HIGH_MARK event delays a client's `DELETE_NODE`; the next answer or 500 to its host leaves on the socket of the earlier request, and a caller gets another's |
| `sync_collision` | `PortsHeld` | a taken port is accepted at the first draw |
| `sync_late` | `AnswersOwnRequest` | a call that reuses a port takes the late answer to an earlier call |
| `codec_at_most` | `AtMostAccepted` | a message whose content-length is right is refused: its NUL begins another message |

Other things that the modules show and no run states:

* `connected()` is always true, so `add_node` keeps a node whose socket could not connect (`messenger.cpp:245`).
* The 500 that `error()` sends has no SRC header, which `msg_schema` demands, and its NUL as a byte of its own.
* Each cut inside a name or a value adds a byte to the count of header bytes that was never received
  (`http_parser_core.cpp:1412`, `1692`), so headers just below the limit may be refused when they come in pieces.
* In a Connection list a tab after a comma hides the word after it (`http_parser_core.cpp:1616`: `c` is `LOWER(ch)`, which
  makes `)` of a tab), and an element that a known word begins with, as in `u,close`, swallows the comma (1624-1651).
  The lists of `codec` have neither.
* A request whose path ends with a slash has the depth of the path without it while `.*` spans slashes, so a route may
  take two of its segments for one (`messenger_router.cpp:75`): `FirstFit` leaves such paths out.
* A field without `=`, or an empty segment in a parameter's place, is undefined behaviour (`messenger_router.cpp:32`, `47`), and
  `form_get_request` throws for a value that is a list (`common.h:97`).
* `add_sign` answers 200 when its nested call timed out (`tutorial_relay_service.cpp:73`).
* A slash in a query's value moves the query out of the last segment's parameters: `QueryDelivered` leaves such values out.
* The bytes of a trailer stay in `nread` and count for the next message's headers.
* A request that becomes another protocol's (CONNECT, or Upgrade with `connection: upgrade`) ends with its headers or
  with its body's declared length: `parse` then drops a byte of the body, or has none. `RoundTrip` leaves out
  CONNECT and messages with a transfer-encoding, which `serialize`'s content-length makes unparsable;
  `NeverMisread` leaves out what was upgraded.

### 3.1 Bounds

* `MaxQueue` limits when handlers may dispatch, not what the loop itself queues (terminates, deletions), which the
  loop drains as fast as it adds. With 2, a client's deletion waits behind applications' events, the event that
  matters in `messenger_events`; longer queues add delay, not new orders. In `relay` it is never reached.
* Two tags or endpoints are enough for a tag to move between endpoints and for two clients to interleave. One
  endpoint does not resolve; in `messenger_events` it is the second, so a node that was repointed would lose its socket.
* Two calls by two callers over two ports make a port be drawn again by either while its earlier datagrams are in
  flight, and two callers draw the same port; with `MayFail` a call without a server runs beside one that holds its port.
* `MaxCalls` bounds how many calls start, so behaviours of `sync*` end in `Finished`, which stutters: deadlock is checked in
  these modules, and any other stop would be reported.
* Symmetry is used for safety runs and for `Implements` (whose formula has no fairness), where clients, ports or
  endpoints appear symmetrically in the constants; no liveness property is checked under it.
* `relay`: every call has a port of its own (collisions and reuse are `sync`'s subject), so two calls show what one thread's
  answer does to another's. A timeout of 2 ticks lets one pass before and one after any step. A message that no step
  takes is lost; nested requests are not duplicated. The count only matters as "0" or "more". The HIGH_MARK handler's
  requests to callbacks go to other services and are left out. `MaxServed` 2: each request once, or one twice.
  Behaviours end when the relay stopped and calls ran out (`CHECK_DEADLOCK FALSE`).
* `sockets`: five objects let each of two sockets be bound, connected, and bound again; behaviours end when all are made
  or at the first undefined use (`CHECK_DEADLOCK FALSE`).
* `routing`: two routes are enough for one to shadow another; each behaviour ends with one request (`CHECK_DEADLOCK FALSE`).
  Routes have up to four segments and two parameters, as the tutorials' have.
* `parser`: `ULLONG_MAX = 25` is what the digits 2 and 5 would make, so one digit fits and the second is the one
  that `TooLong` has to refuse, as the twentieth is in the code. `HTTP_MAX_HEADER_SIZE = MaxCount = 1` keep `nread` to "none" and
  "some": the limit itself is switched off by the order of the two. Bodies and chunks of 0, 2 and 5
  bytes and sizes that are too long occur. A cut before every byte is possible at every step, so several cuts in one
  name occur.
* `codec`: lengths below 999 and headers below the limit. Texts are finite, so runs of the parser end
  (`CHECK_DEADLOCK FALSE` in the three HTTP modules: a parser that failed, or that saw the end, has no next step).

### 3.2 Fairness

`Messenger!FairSpec` is weak fairness of the loop as a whole: `recv` returns within its timeout, so the loop always takes a
step; which datagrams arrive is left open. That requires handlers that return, which is the application's part.
`SyncRequest!Fairness` is weak fairness of each caller's own steps: `select` returns within `RCVTIMEO`. Nothing is
assumed of the network or of the service, and no fairness is given to starting calls. `Relay!RelayFairness` is weak
fairness of the relay's loop, nested call included, and of the clock: `KillObeyed` needs that the nested call's time
runs out, since no answer has to come.

## 4. What is proved

Every theorem holds for all values of the constants that satisfy the modules' named assumptions, which TLC evaluates for
the values of each run.

| Theorem | Statement |
|---|---|
| `MessengerProofs!TypeCorrect` | `[]TypeOK` |
| `MessengerProofs!ClientsTracked` | `[]TempNodeTracked` |
| `MessengerProofs!TableStable` | `NeverRepointed` |
| `MessengerProofs!PollMatchesBacklog` | `[]TimeoutTracksQueue` |
| `MessengerProofs!QuietService`, `QuietQueue` | if handlers dispatch no event (`MaxEmit = 0`), `[]ClientReplyRouted` and `[]NoBacklog` |
| `SyncRequestProofs!TypeCorrect` | `[]TypeOK` |
| `SyncRequestProofs!PortsAreHeld` | if draws never collide and binds on free ports succeed, `[]PortsHeld` |
| `SyncRequestProofs!OwnAnswers` | if draws are also quiet, `[]AnswersOwnRequest` |
| `SyncRequestProofs!HeldIfBound`, `OwnIfQuiet` | with any draws, and binds that may fail on any port, `[]PortsHeldIfBound` and `[]OwnAnswerIfQuiet`: the two promises last until the first bind that fails, the second until a port is reused |
| `MessengerProofs!QuietServiceImplements` | if handlers dispatch no event, `SysSpec => Implements` |
| `MessengerProofs!CallersGetOwnAnswers` | if, besides, draws are free and quiet and binds succeed, `SysSpec => []CallersAnswered` |
| `MessengerProofs!RelayTyped` | `RelaySpec => []RelayTypeOK` |
| `MessengerProofs!RelayGivesUpLast`, `OwnIfQuiet` | `QuietSpec => []GivesUpLastIfPatient`, `QuietSpec => []OwnAnswersIfQuiet` |
| `SocketsProofs!FlagsTell`, `NoLeak`, `FailureFirst` | `[]FlagsTruthful`, `[]HeldOnce`, `[]OnlyAfterFailure` |
| `HttpParserProofs!Invariant` | `[]ParserInv`, from which the next five follow |
| `HttpParserProofs!Typed`, `Asserted`, `KnownLength`, `FramedOneWay`, `Alternate` | `[]TypeOK`, `[]AssertionsHold`, `[]LengthKnown`, `[]FramedOnce`, `[]CallbacksAlternate` |
| `HttpParserProofs!LongerFits` | a length that passes the overflow test takes one more digit, in base 10 or 16, without wrapping and without becoming the "not known" length |
| `HttpSplitProofs!CutPromises` | the same five of a parser whose input is cut anywhere |
| `HttpSplitProofs!CutsStricterAtMost` | `[](~Stricter(parser) => SplitInvisible)`: a cut changes nothing, unless it made the parser refuse what it would have taken |
| `HttpSplitProofs!CutsInvisible` | `[]SplitInvisible`, if the limit of header bytes is out of reach and no buffer holds a byte that values may not have |
| `HttpCodecProofs!CodecInvariant` | `CodecSpec => []CodecInv` |
| `HttpCodecProofs!ReadAsMeant` | `CodecSpec => []NeverMisread`: for any messages, headers, bodies and declared lengths up to `MaxLength`, what `parse_http` accepts is what was meant, unless it was upgraded |
| `HttpServeProofs!ReadBack` | `CodecSpec => []RoundTrip`: for any messages, headers, paths and bodies up to `MaxLength` and any limits that satisfy the assumptions, what `serialize` writes is accepted and is what was meant |
| `RouterProofs!Fitted`, `Ranged`, `Valued`, `Delivered`, `Forwarded`, `Addressed` | `[]FirstFit`, `[]PositionsInRange`, `[]ValuesFromPath`, `[]QueryDelivered`, `[]QueryForwarded`, `[]CallbackAddressed` |

The hypotheses are necessary, and a violation run drops each one: quiet handlers of `QuietService` and `QuietQueue` (`relay_stale`, whose
handler dispatches HIGH_MARK), free draws of `PortsAreHeld` (`sync_collision`; with binds that fail on free ports the same step is taken), quiet draws of `OwnAnswers` (`sync_late`).
The invariants that the proofs rest on were checked by TLC, on the runs of their modules, before they were proved.
The arguments:

* `StepEffects` sorts the loop's steps by their effect on table and queue (events are added, one is taken, a node
  is deleted, a node under no client's tag is added, a client is sent to); invariants about the two are proved against five effects
  instead of twenty actions.
* `ClientInv` is `TypeOK`, `TempNodeTracked` and `DeletesClients` (a queued deletion names a client). Neither of the
  last two is inductive without the types; the third is what makes the table stable for lasting nodes.
* `PollInv`: from `head` on, a short timeout means that something is queued; only in `recv` is the converse
  true, since an event resets the timeout and the commit that queues one leaves it.
* `QuietInv`: the queue holds at most one event, none after `head`, and no client is the destination of a 500. So
  when a request is read the table knows no client, and the node that `Commit` adds has the request's own address.
* `PortsHeld` is inductive with the types: `Bind` is the one step that takes a port and `Return` gives it back.
  `OwnAnswers` adds `TrafficCurrent`: a datagram that names a bound port belongs to the call that bound it.
  `DrawsInv` says the same of callers who draw any port, as long as `draws` remembers no bind that failed and no port that was
  reused; that no port outlives its call (`PortsReleased`) it says in any case, since `Return` and `Crash` give back what `owner`
  has, held or not.
* `SysInv` is `QuietInv`, the callers' types and `ReplyInv`: the reply in hand goes to the request in hand. Each step
  of the composition is a step of the loop (`MessengerStep`), and under `SysInv` a step or a stutter of `SyncRequest`
  (`StepImplements`). `CallersGetOwnAnswers` follows by applying `OwnAnswers` to the instance.
* `RelayInv`: the ports that the relay may answer at (`Used`: its request's, its `dest`'s, its clients' nodes') are known
  to it from a request, so a port that no request has named yet is `Fresh` (`Unsent`), also for a caller that is bound and
  has not sent. While the nested call runs, no caller at one of these ports has more time left than it (`NestedInv`): they
  start level at best, and `Tick` counts all of them down. So a 408 in hand meets callers with no time left (`VerdictInv`), unless
  the nested call was given up early: `LastInv`, which is `VerdictInv` and the property, is kept by every other step (`Prompt`).
  `Replying` excludes other 408s and replies to nodes that are no clients'.
* `OwnInv` and `AloneInv` say whose answer each reply is. A call's port is its number, so a datagram that
  names the port of a running call is that call's. An answer of the time service that comes late finds the nested call's
  port closed. While every request meets a table without clients, the node that `transaction_commit` adds has the
  port of the request in hand, and so has the reply.
* `SocketsProofs!Inv` adds to the three properties `MadeInOrder` (objects not yet made are closed) and `NoneDangling`: a
  pointer without its flag points to no live object, so a failed bind, which sets the flag and leaves the pointer, cannot
  revive a stale one. `FailureFirst` needs the history in `failed`, which nothing takes back: a failed `connect` poisons
  a socket although its server is sound.
* `LongerFits` is the arithmetic behind `LengthKnown`: `TooLong` takes a whole base off `ULLONG_MAX` before it divides, so
  even the largest digit stays below the length that means "not known".
* `ParserInv` groups the states by the part of a message that they read (`Idle`, `Lines`, `Heads`, `Bodies`, `ChunkStates`) and says
  for each part which flags may be set, which lengths are possible, what `header_state` and `index` may be and whether a
  message is open. The five properties of `HttpParser` follow from it; none is inductive alone: that a chunked
  message has declared no length, for example, depends on what `header_state` may be when a value ends. Each
  handler has a lemma that it leads from a state of the invariant to one, whatever the byte. `LengthAssumption` has the facts about
  lengths of the words that handlers match, which are facts about strings: TLC evaluates them, the provers cannot.
* `SplitInv` says that the cut and the uncut parser are `Twins`, equal but for counts and marks, or that the cut one has failed as
  `Stricter` allows. Handlers keep twins, and the marks after a byte are a function of the states before and after it,
  so a byte is data of the same callbacks in both. The inner loops over names and values are where a cut tells: the
  cut parser counts a byte twice and looks at bytes that the other skips. So it has counted as much or more, and has skipped
  as much or less, which is all that `Stricter` says. The hypotheses of `CutsInvisible` rule these two out; run `parser` has values
  that satisfy them (`MaxCount = HTTP_MAX_HEADER_SIZE`).
* `RouterInv` is small: routes come from `add_route`, and the answer in hand is a function of the request and of the
  routes. What the six properties say is what the functions on texts do, for texts of any length. Induction
  over data is done with sets: a set of numbers that is not empty has a least element (`Least`, from the library's
  well-founded order on finite sets), so a set of sequences that holds the empty one, and with each sequence those
  with an element more, holds all (`SeqInduction`). From there: a text `a`, a delimiter and a text `b` are split into the pieces of `a` and then
  those of `b` (`SplitCut`); a path's pieces are its segments (`PathSplit`), a query's are its fields (`QueryJoined`).
  * Routes: a route's regex is the path of its patterns (`RegexOfRoute`). A path that it matches has at least as many segments, and
    when it has as many, every pattern agrees with its segment (`MatchSpreads`): comparing depths is what keeps `.*` inside
    one segment.
  * Queries: of the url's tokens only the one with the question mark has fields, and it has the beginning of the query up to the next
    slash (`QueryTokens`). If no value holds a slash that is all of it, and each field is read as its sender meant it (`FieldIsRead`).
  * Forwarding: a field has one `=` at most, and so has its beginning, so a field that was read is a key and a value
    without delimiters (`FieldParts`). The fields that `form_get_request` makes of these are read back, each key once (`FormedRead`).
  * Callbacks: the first colon after the scheme is the port's, whatever the path holds (`PortToken`).
* `CodecInv` relates three things: how many bytes of the text have been read (`Place`), which part of the message
  these end in (`Reading`: request or status line, a header's name, colon or value, the blank line, the body), and what the
  parser, the strings that callbacks have been given and the fields are there. For the header of the length it also says how
  much of its name has been matched and what its digits come to so far: the length that was declared is the one that counts,
  whatever `Transfer-Encoding` or `Connection` headers come before it. Parsers that have failed are where they may be: a message may be refused.
  The parser of the other type fails on the first byte or the second (`Mistaking`): "H" of a response begins HEAD, and no
  method of a request goes on with "HT".
  * The bytes: `serialize` joins its lines with `FlattenSeq`, which is recursive; that line `i` of any number of lines stands
    behind all before it is shown by induction with sets of numbers (`FlatExists`, `FlattenIs`), and from it where every name, value, and the body
    is (`WireIs`).
  * The bytes' effects: the inner loops over names and values count once for many bytes; `ReadIs` says that one turn is the
    handler's or the limit on header bytes was met. Callbacks are functions of marks before and after a byte (`Turns`).
  * From place to place: for each part, the parser that is there before a byte has failed or is at the next place
    after it (`Onward`). A name is the previous names plus one (`HeadersBefore`), case folded.
  * At the end: the text's last byte is the NUL that `parse` appends. It can only be the last byte of the body, or the
    first of a message after it, which is refused. So a length that is just the body's cannot be accepted, and what is accepted
    has the NUL as the body's last byte, the one that `Parsed` drops (`EndedMeant`).
* `ServeInv` is for a message that `serialize` wrote and that does not frame itself. `CodecInv` allows any declared length that makes
  the same bytes and any failure; `ServeInv` has the length that `serialize` declares (`Asked`) and says that the parser
  of the message's type does not fail while the other one does (`Promised`). For that it adds to `CodecInv` what may refuse a byte (`Serving`):
  * The limit on header bytes: at most as many have been counted as were read, those that an inner loop has passed included
    (`Load`), and all bytes before the body fit.
  * The path: the parser is where `Walked` is, and that is never `s_dead`.
  * The length: no other header sets `CONTENTLENGTH` before the last one, and none `CHUNKED`. `header_state` says how
    much of "content-length" or "transfer-encoding" the name so far spells (`Spelled`), so a name that is
    matched to its end is that name: `Skipped` leaves the one out, and `FramesItself` the other. A name or a value ends in
    some state of `header_state`, and no value that the machine reads then fails (`RunKeeps`, `ByteQuiet`).
  * The end: the length is two beyond the body's, so the NUL is a byte of the body, and the message never completes
    (`ServesLast`).
  A request is never tried as a response. So nothing is refused, and `EndedMeant` says the rest.

Only model-checked: `TerminateHonoured`, `TempNodeReclaimed`, `CallsReturn` and `KillObeyed`, which are liveness properties
under fairness, out of the prover's reach; and `ConnectionListed` of `HttpCodec`, which needs the matcher of list words followed through a
value, against `Elements`.

## 5. What is not modelled

* In `Messenger`, `SyncRequest` and `RequestService`, bytes: the outcome of parsing is an input. `HttpCodec` has the bytes,
  but JSON, regular expressions (but for a route's, in `Router`) and character encodings are nowhere.
* Of the parser core: `HTTP_BOTH`, `F_SKIPBODY`, callbacks that fail or pause, `lenient_http_headers`, and
  `http_parser_parse_url`, which nothing calls. `http::parser` sets none of them.
* Of the facade: a second message through one parser, addresses, saving and printing of messages, gzip (its
  decompression always fails), and phrases of statuses.
* Exceptions that leave `run()` (`stoi` of a header, JSON of an unexpected shape) and the constructor's.
* Statuses chosen by an application's handlers other than 200: the model's reply of a route stands for any that
  validates.
* The time that handlers take, and calls to other services but for the relay's.
* A second `run()` of a `Messenger`, but for the sockets that `finalize` deleted.
* Handlers registered or deregistered while a service runs: no service of the repository does that.
* Two `Messenger`s that send each other 500s.
* JSON and the strings of `qhm_endpoint_from_configuration` and `Configuration`.
* `client_fixture` and the benchmark; logging, uuid, base64, broadcast sockets.
* In `RequestService`, datagrams that are not HTTP and peers that are not callers: `Messenger` by itself receives those.

## 6. Plan

Written: the run loop and its node table, callers, their composition, the relay, sockets, routing, and the HTTP
modules. What the plan has left, in this order:

1. `Peers`: two `Messenger`s that know each other. Who receives a 500, and whether 500s can answer 500s for ever.
2. `HandlerTable`: registration, numbering and deregistration with queued events. Abstract specification: a partial
   function from types to handlers; theorem: automatic numbers are free.
3. Reuse of one `http::parser`, and the 500 with its own NUL, in `HttpCodec`; `Uri` after that.

Proofs planned: `ConnectionListed`, from `ServeInv` with the words of a list in it; the numbers of `HandlerTable`; that `Peers` implements a pair of services when both are quiet.
