---------------------------- MODULE SyncRequest ----------------------------
(***************************************************************************)
(* The clients' side: sync_send_request and async_send_request, called by   *)
(* concurrent threads or processes of one host, over UDP.  A call draws a   *)
(* random port, binds a socket to it, sends its request to the service and  *)
(* waits for one datagram on that port, which it takes for the response.    *)
(*                                                                         *)
(* The service is here what its clients may rely on: it accepts requests in *)
(* any order and answers each one, or not, at the port the request names.   *)
(* RequestService shows that a Messenger does no more than that.            *)
(***************************************************************************)
EXTENDS Integers, FiniteSets

CONSTANTS
    Clients,      \* concurrent callers on one host
    Ports,        \* RANDOM_CLIENT_PORT_RANGE_START .. RANDOM_CLIENT_PORT_RANGE_END
    NoClient,     \* nobody has bound the port
    NoPort,       \* the caller has drawn no port yet
    MayCollide,   \* a draw may hit a port that another socket holds
    MayFail,      \* bind may fail on a free port
    MayReuse,     \* a draw may hit a port that an earlier call's datagrams still name
    MaxCalls      \* bound: how many calls are made in all

ASSUME ClientAssumption ==
    /\ NoClient \notin Clients
    /\ NoPort \notin Ports

ASSUME ModeAssumption ==
    /\ MayCollide \in BOOLEAN
    /\ MayFail \in BOOLEAN
    /\ MayReuse \in BOOLEAN
    /\ MaxCalls \in Nat

HTTP_STATUS_OK                  == 200
HTTP_STATUS_NOT_FOUND           == 404
HTTP_STATUS_REQUEST_TIMEOUT     == 408
HTTP_STATUS_SERVICE_UNAVAILABLE == 503

(* What the service's routes answer with. *)
Answers == {HTTP_STATUS_OK, HTTP_STATUS_NOT_FOUND}

(* A datagram carries no identifier: id is the call that caused it, known to  *)
(* the model only.  port is the address in a request's SRC header.            *)
Request  == [id : Nat, from : Clients, port : Ports]
Response == [id : Nat, port : Ports, status : Answers]

(* The response a call returns, and the call that it answers (0: none).       *)
Outcome == [status : Answers \cup {0, HTTP_STATUS_REQUEST_TIMEOUT,
                                   HTTP_STATUS_SERVICE_UNAVAILABLE}, id : Nat]
Status(s) == [status |-> s, id |-> 0]

VARIABLES
    calls,     \* how many calls were made so far
    cpc,       \* where each caller is
    call,      \* its current or last call
    port,      \* the port of that call
    outcome,   \* what the call returned
    owner,     \* the operating system's view: whose socket is bound to each port
    requests,  \* requests on their way to the service
    serving,   \* requests the service has accepted and not answered
    replies    \* responses on their way to the clients' ports

callers == <<calls, cpc, call, port, outcome, owner>>
traffic == <<requests, serving, replies>>
vars    == <<callers, traffic>>

TypeOK ==
    /\ calls \in 0 .. MaxCalls
    /\ cpc \in [Clients -> {"idle", "bound", "wait", "crashed"}]
    /\ call \in [Clients -> 0 .. MaxCalls]
    /\ port \in [Clients -> Ports \cup {NoPort}]
    /\ outcome \in [Clients -> Outcome]
    /\ owner \in [Ports -> Clients \cup {NoClient}]
    /\ requests \subseteq Request
    /\ serving \subseteq Request
    /\ replies \subseteq Response

Init ==
    /\ calls = 0
    /\ cpc = [c \in Clients |-> "idle"]
    /\ call = [c \in Clients |-> 0]
    /\ port = [c \in Clients |-> NoPort]
    /\ outcome = [c \in Clients |-> Status(0)]
    /\ owner = [p \in Ports |-> NoClient]
    /\ requests = {}
    /\ serving = {}
    /\ replies = {}
-----------------------------------------------------------------------------
(* sync_send_request, and async_send_request up to its send. *)

(* The socket has a server: otherwise bind() threw, Socket::bind caught it,   *)
(* and the socket says that it is bound but its server was never set.         *)
Holds(c) == port[c] \in Ports /\ owner[port[c]] = c

Travelling(p) == \E d \in requests \cup serving \cup replies : d.port = p

(* udp_server's constructor: it binds the port, or throws because another     *)
(* socket holds it; and also because the address does not resolve or is not   *)
(* local, another process has the port, or there is no descriptor left.       *)
ServerBinds(c, p) == owner[p] = NoClient /\ owner' = [owner EXCEPT ![p] = c]
ServerThrows(p)   == (owner[p] # NoClient \/ MayFail) /\ owner' = owner

(* _random_endpoint: the first draw is always taken, since is_bound() holds   *)
(* after a bind that failed.                                                  *)
Bind(c, p) ==
    /\ cpc[c] = "idle" /\ calls < MaxCalls
    /\ MayCollide \/ owner[p] = NoClient
    /\ MayReuse \/ ~Travelling(p)
    /\ calls' = calls + 1
    /\ call' = [call EXCEPT ![c] = calls + 1]
    /\ port' = [port EXCEPT ![c] = p]
    /\ outcome' = [outcome EXCEPT ![c] = Status(0)]
    /\ ServerBinds(c, p) \/ ServerThrows(p)
    /\ cpc' = [cpc EXCEPT ![c] = "bound"]
    /\ UNCHANGED traffic

(* The host's address does not parse: no bind is tried, 300 draws fail.       *)
NoPortFound(c) ==
    /\ cpc[c] = "idle" /\ calls < MaxCalls
    /\ calls' = calls + 1
    /\ call' = [call EXCEPT ![c] = calls + 1]
    /\ outcome' = [outcome EXCEPT ![c] = Status(HTTP_STATUS_SERVICE_UNAVAILABLE)]
    /\ UNCHANGED <<cpc, port, owner, traffic>>

Released(c) == [p \in Ports |-> IF owner[p] = c THEN NoClient ELSE owner[p]]

(* Mutant: the receiving socket is not closed. *)
Return_leaks(c, result) ==
    /\ outcome' = [outcome EXCEPT ![c] = result]
    /\ owner' = owner
    /\ cpc' = [cpc EXCEPT ![c] = "idle"]
    /\ UNCHANGED <<calls, call, port>>

(* The call returns and ~Socket closes the port; without a server it deletes  *)
(* a pointer that was never set.                                              *)
Return(c, result) ==
    /\ outcome' = [outcome EXCEPT ![c] = result]
    /\ owner' = Released(c)
    /\ \E s \in {"idle", "crashed"} :
          /\ s = "crashed" => ~Holds(c)
          /\ cpc' = [cpc EXCEPT ![c] = s]
    /\ UNCHANGED <<calls, call, port>>

Crash(c) ==
    /\ owner' = Released(c)
    /\ cpc' = [cpc EXCEPT ![c] = "crashed"]
    /\ UNCHANGED <<calls, call, port, outcome>>

(* A request without a path or with an unknown method: sync_send_request      *)
(* returns 503.                                                               *)
RefuseRequest(c) ==
    /\ cpc[c] = "bound"
    /\ Return(c, Status(HTTP_STATUS_SERVICE_UNAVAILABLE))
    /\ UNCHANGED traffic

(* async_send_request asserts instead: in a build without NDEBUG it aborts.   *)
AbortRequest(c) ==
    /\ cpc[c] = "bound"
    /\ Crash(c)
    /\ UNCHANGED traffic

(* Mutant: the SRC header is built before the port is drawn. *)
RequestOf_early(c) == [id |-> call[c], from |-> c, port |-> NoPort]

RequestOf(c) == [id |-> call[c], from |-> c, port |-> port[c]]

SendRequest(c) ==
    /\ cpc[c] = "bound"
    /\ cpc' = [cpc EXCEPT ![c] = "wait"]
    /\ requests' = requests \cup {RequestOf(c)}
    /\ UNCHANGED <<calls, call, port, outcome, owner, serving, replies>>

(* The destination's address does not resolve: the socket never connected and *)
(* send() returns at once.                                                    *)
SendNowhere(c) ==
    /\ cpc[c] = "bound"
    /\ cpc' = [cpc EXCEPT ![c] = "wait"]
    /\ UNCHANGED <<calls, call, port, outcome, owner, traffic>>

(* async_send_request sends and closes its socket. *)
SendAsync(c) ==
    /\ cpc[c] = "bound"
    /\ requests' = requests \cup {RequestOf(c)}
    /\ Return(c, Status(0))
    /\ UNCHANGED <<serving, replies>>

(* A socket without a server reads whatever descriptor it finds: another one's *)
(* datagram, if any.                                                           *)
CanRead(c, r) == IF Holds(c) THEN r.port = port[c] ELSE owner[r.port] # NoClient

(* The first datagram that comes is the response: nothing relates it to the   *)
(* request.                                                                   *)
ReceiveResponse(c, r) ==
    /\ cpc[c] = "wait" /\ CanRead(c, r)
    /\ replies' = replies \ {r}
    /\ Return(c, [status |-> r.status, id |-> r.id])
    /\ UNCHANGED <<requests, serving>>

(* Mutant: recv without a timeout. *)
RequestTimeout_never(c) ==
    /\ cpc[c] = "wait" /\ \E r \in replies : CanRead(c, r)
    /\ Return(c, Status(HTTP_STATUS_REQUEST_TIMEOUT))
    /\ UNCHANGED traffic

(* The timeout passed, the datagram was empty or select() failed. *)
RequestTimeout(c) ==
    /\ cpc[c] = "wait"
    /\ Return(c, Status(HTTP_STATUS_REQUEST_TIMEOUT))
    /\ UNCHANGED traffic

(* recv() calls a server that was never set. *)
ReceiveCrash(c) ==
    /\ cpc[c] = "wait" /\ ~Holds(c)
    /\ Crash(c)
    /\ UNCHANGED traffic
-----------------------------------------------------------------------------
(* The network, and the service as its clients see it. *)

LoseRequest(d) ==
    /\ requests' = requests \ {d}
    /\ UNCHANGED <<callers, serving, replies>>

LoseResponse(r) ==
    /\ replies' = replies \ {r}
    /\ UNCHANGED <<callers, requests, serving>>

(* A request may arrive more than once. *)
AcceptRequest(d) ==
    /\ serving' = serving \cup {d}
    /\ requests' \in {requests, requests \ {d}}
    /\ UNCHANGED <<callers, replies>>

(* Mutant: the reply goes to the node that the table has for the host, which  *)
(* is another request's.                                                      *)
AnswerRequest_by_tag(d, status) ==
    /\ serving' = serving \ {d}
    /\ \E e \in serving :
          replies' = replies \cup {[id |-> d.id, port |-> e.port, status |-> status]}
    /\ UNCHANGED <<callers, requests>>

AnswerRequest(d, status) ==
    /\ serving' = serving \ {d}
    /\ replies' = replies \cup {[id |-> d.id, port |-> d.port, status |-> status]}
    /\ UNCHANGED <<callers, requests>>

(* The handler fails, or the service stops or dies. *)
DropRequest(d) ==
    /\ serving' = serving \ {d}
    /\ UNCHANGED <<callers, requests, replies>>
-----------------------------------------------------------------------------
(* A caller has no more calls to make, or its process is dead. *)
Finished ==
    /\ \A c \in Clients : cpc[c] = "crashed" \/ (cpc[c] = "idle" /\ calls = MaxCalls)
    /\ UNCHANGED vars

Call(c) == NoPortFound(c) \/ \E p \in Ports : Bind(c, p)

Proceed(c) ==
    \/ RefuseRequest(c) \/ AbortRequest(c)
    \/ SendRequest(c) \/ SendNowhere(c) \/ SendAsync(c)
    \/ RequestTimeout(c) \/ ReceiveCrash(c)
    \/ \E r \in replies : ReceiveResponse(c, r)

ClientNext == \E c \in Clients : Call(c) \/ Proceed(c)

Network ==
    \/ \E d \in requests : LoseRequest(d)
    \/ \E r \in replies : LoseResponse(r)

Service ==
    \/ \E d \in requests : AcceptRequest(d)
    \/ \E d \in serving : DropRequest(d) \/ \E s \in Answers : AnswerRequest(d, s)

Next == ClientNext \/ Network \/ Service \/ Finished

Spec == Init /\ [][Next]_vars

(* A caller's thread runs, and recv returns within its timeout; nothing is    *)
(* assumed of the network, of the service or of when calls are made.          *)
Fairness == \A c \in Clients : WF_vars(Proceed(c))
-----------------------------------------------------------------------------
Active(c) == cpc[c] \in {"bound", "wait"}

(* No port stays bound after its call. *)
PortsReleased ==
    \A p \in Ports : owner[p] # NoClient => Active(owner[p]) /\ port[owner[p]] = p

(* What _random_endpoint is for: while a call runs, its socket is bound to    *)
(* the port that its request names, and no port stays bound after the call.   *)
PortsHeld ==
    /\ \A c \in Clients : Active(c) => Holds(c)
    /\ PortsReleased

(* A running call has drawn its port. *)
PortDrawn == \A c \in Clients : Active(c) => port[c] \in Ports

(* Every datagram that names a bound port belongs to the call that bound it.  *)
TrafficCurrent ==
    \A d \in requests \cup serving \cup replies :
        owner[d.port] # NoClient => d.id = call[owner[d.port]]

(* The response a caller gets is the one to the request it made, not the late *)
(* answer to an earlier call (its own, another caller's, or one sent with     *)
(* async_send_request) that drew the same port.                               *)
AnswersOwnRequest ==
    \A c \in Clients : outcome[c].status \in Answers => outcome[c].id = call[c]

(* Every call returns, whatever the network loses and the service does.       *)
CallsReturn == \A c \in Clients : Active(c) ~> ~Active(c)
=============================================================================
