------------------------------ MODULE Sockets ------------------------------
(***************************************************************************)
(* class Socket over udp_server and udp_client: a pointer and a flag for    *)
(* each, under any sequence of the class's operations on the sockets of     *)
(* one process.  What a wild or freed pointer does is undefined, and the    *)
(* model stops where one is used, with the socket whose pointer it was.     *)
(***************************************************************************)
EXTENDS Integers, FiniteSets

CONSTANTS
    Sockets,      \* the Socket objects of a process
    NoSocket,
    Endpoints,    \* endpoints that parse_endpoint takes
    Resolvable,   \* those that getaddrinfo takes
    Anywhere,     \* a client's own address
    Closed,       \* a udp_server or a udp_client that was deleted, or is not made yet
    MaxMade       \* bound: how many servers and clients are made

ASSUME SocketAssumption ==
    /\ NoSocket \notin Sockets
    /\ Resolvable \subseteq Endpoints
    /\ Anywhere \notin Endpoints
    /\ Closed \notin Endpoints \cup {Anywhere}
    /\ MaxMade \in Nat

VARIABLES
    alive,               \* the sockets that were made and not deleted
    server_initialized,  \* of each socket
    client_initialized,
    server, client,      \* pointers: which object, 0 when never set
    made,                \* how many objects were made
    address,             \* what each object's descriptor is bound to
    failed,              \* sockets whose bind or connect swallowed an exception
    undefined            \* the socket by which the process did what is undefined

flags   == <<server_initialized, client_initialized>>
objects == <<made, address>>
vars    == <<alive, flags, server, client, objects, failed, undefined>>

Objects == 1 .. MaxMade

TypeOK ==
    /\ alive \subseteq Sockets
    /\ server_initialized \in [Sockets -> BOOLEAN]
    /\ client_initialized \in [Sockets -> BOOLEAN]
    /\ server \in [Sockets -> 0 .. made]
    /\ client \in [Sockets -> 0 .. made]
    /\ made \in 0 .. MaxMade
    /\ address \in [Objects -> Endpoints \cup {Anywhere, Closed}]
    /\ failed \subseteq Sockets
    /\ undefined \in Sockets \cup {NoSocket}

Init ==
    /\ alive = Sockets
    /\ server_initialized = [s \in Sockets |-> FALSE]
    /\ client_initialized = [s \in Sockets |-> FALSE]
    /\ server = [s \in Sockets |-> 0]
    /\ client = [s \in Sockets |-> 0]
    /\ made = 0
    /\ address = [o \in Objects |-> Closed]
    /\ failed = {}
    /\ undefined = NoSocket
-----------------------------------------------------------------------------
(* udp_server and udp_client. *)

Live == {o \in Objects : address[o] # Closed}

Held(e) == \E o \in Objects : address[o] = e

New(at) ==
    /\ made < MaxMade
    /\ made' = made + 1
    /\ address' = [address EXCEPT ![made + 1] = at]

NotMade == UNCHANGED objects

(* Mutant: the constructor throws and leaves its descriptor open. *)
NotBound_leaks(e) == New(Anywhere)

(* The address does not resolve, there are no descriptors, or the port is     *)
(* somebody's, whether of this process or not: what was opened is closed.     *)
NotBound(e) == NotMade

new_udp_server(e) == e \in Resolvable /\ ~Held(e) /\ New(e)

(* Whether the client could bind its source address, nobody asks. *)
new_udp_client(e) == e \in Resolvable /\ New(Anywhere)

Delete(os) == address' = [o \in Objects |-> IF o \in os THEN Closed ELSE address[o]]

(* A use of a pointer that is none: nothing after it is known. *)
Undefined(s) ==
    /\ undefined' = s
    /\ UNCHANGED <<alive, flags, server, client, objects, failed>>
-----------------------------------------------------------------------------
(* Socket.  An operation that returns or throws before it changed anything is  *)
(* no step: bind and connect of a socket that has the flag, or to an endpoint  *)
(* that does not parse, and connect from an address to one that does not      *)
(* resolve; recv, send and disconnect of a socket without the flag.  unbind    *)
(* of a socket without the flag fails its assertion.                           *)

Uses(s) == undefined = NoSocket /\ s \in alive

bind(s, e) ==
    /\ Uses(s) /\ ~server_initialized[s]
    /\ \/ new_udp_server(e) /\ server' = [server EXCEPT ![s] = made'] /\ UNCHANGED failed
       \/ NotBound(e) /\ failed' = failed \cup {s} /\ UNCHANGED server
    /\ server_initialized' = [server_initialized EXCEPT ![s] = TRUE]
    /\ UNCHANGED <<alive, client_initialized, client, undefined>>

connect(s, e) ==
    /\ Uses(s) /\ ~client_initialized[s]
    /\ \/ new_udp_client(e) /\ client' = [client EXCEPT ![s] = made'] /\ UNCHANGED failed
       \/ NotMade /\ failed' = failed \cup {s} /\ UNCHANGED client
    /\ client_initialized' = [client_initialized EXCEPT ![s] = TRUE]
    /\ UNCHANGED <<alive, server_initialized, server, undefined>>

connect_from(s, e) ==
    /\ Uses(s) /\ ~client_initialized[s]
    /\ new_udp_client(e)
    /\ client' = [client EXCEPT ![s] = made']
    /\ client_initialized' = [client_initialized EXCEPT ![s] = TRUE]
    /\ UNCHANGED <<alive, server_initialized, server, failed, undefined>>

(* Mutant: the flag stays. *)
unbind_keeps_flag(s) ==
    /\ Uses(s) /\ server_initialized[s]
    /\ \/ server[s] \in Live /\ Delete({server[s]})
          /\ UNCHANGED <<alive, flags, server, client, made, failed, undefined>>
       \/ server[s] \notin Live /\ Undefined(s)

unbind(s) ==
    /\ Uses(s) /\ server_initialized[s]
    /\ \/ /\ server[s] \in Live /\ Delete({server[s]})
          /\ server_initialized' = [server_initialized EXCEPT ![s] = FALSE]
          /\ UNCHANGED <<alive, client_initialized, server, client, made, failed, undefined>>
       \/ server[s] \notin Live /\ Undefined(s)

disconnect(s) ==
    /\ Uses(s) /\ client_initialized[s]
    /\ \/ /\ client[s] \in Live /\ Delete({client[s]})
          /\ client_initialized' = [client_initialized EXCEPT ![s] = FALSE]
          /\ UNCHANGED <<alive, server_initialized, server, client, made, failed, undefined>>
       \/ client[s] \notin Live /\ Undefined(s)

(* recv and send follow the pointer that the flag says is there. *)
recv_or_send(s) ==
    /\ Uses(s)
    /\ \/ server_initialized[s] /\ server[s] \notin Live
       \/ client_initialized[s] /\ client[s] \notin Live
    /\ Undefined(s)

Pointed(s) ==
    (IF server_initialized[s] THEN {server[s]} ELSE {})
    \cup (IF client_initialized[s] THEN {client[s]} ELSE {})

(* ~Socket *)
delete(s) ==
    /\ Uses(s)
    /\ \/ /\ Pointed(s) \subseteq Live
          /\ Delete(Pointed(s))
          /\ alive' = alive \ {s}
          /\ UNCHANGED <<flags, server, client, made, failed, undefined>>
       \/ ~(Pointed(s) \subseteq Live) /\ Undefined(s)

(* Whoever kept a pointer to a deleted Socket uses it: a Messenger that runs a *)
(* second time, through its router socket or the nodes in its table.           *)
use_after_delete(s) ==
    /\ undefined = NoSocket /\ s \notin alive
    /\ Undefined(s)

Next ==
    \E s \in Sockets :
        \/ \E e \in Endpoints : bind(s, e) \/ connect(s, e) \/ connect_from(s, e)
        \/ unbind(s) \/ disconnect(s) \/ recv_or_send(s) \/ delete(s) \/ use_after_delete(s)

Spec == Init /\ [][Next]_vars
-----------------------------------------------------------------------------
Points(s, o) == s \in alive /\ o \in Pointed(s)

(* The flags of a socket that swallowed no exception tell the truth: it is     *)
(* bound to an endpoint, or has a client, exactly as they say.                 *)
FlagsTruthful ==
    \A s \in alive \ failed :
        /\ server_initialized[s] => server[s] \in Live /\ address[server[s]] # Anywhere
        /\ client_initialized[s] => client[s] \in Live /\ address[client[s]] = Anywhere

(* Nothing leaks and nothing is owned twice: every descriptor that is open     *)
(* will be closed by one socket, through one of its flags.                     *)
HeldOnce ==
    \A o \in Live :
        /\ \E s \in Sockets : Points(s, o)
        /\ \A s, t \in Sockets : Points(s, o) /\ Points(t, o) => s = t

(* What is undefined happens only by a socket whose bind or connect failed and *)
(* said nothing, or that is used after its end: no other sequence of calls     *)
(* deletes an object twice or follows a pointer to none.                       *)
OnlyAfterFailure == undefined # NoSocket => undefined \in failed \/ undefined \notin alive
=============================================================================
