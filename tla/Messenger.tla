----------------------------- MODULE Messenger -----------------------------
(***************************************************************************)
(* The run loop of a quick-http-messages service (class Messenger): one     *)
(* thread that, on each turn, handles at most one queued event, waits for   *)
(* one UDP datagram, dispatches it to a handler and sends the reply on the  *)
(* socket its node table holds for the destination's tag.                   *)
(*                                                                         *)
(* The environment is open: any datagram of the set Datagram may be         *)
(* received on any turn.  Application handlers are the library's parameter: *)
(* they return any Status, build a valid reply or not, and dispatch up to   *)
(* MaxEmit application events.                                              *)
(***************************************************************************)
EXTENDS Integers, Sequences, FiniteSets

CONSTANTS
    Tags,             \* node tags a request's SRC header may carry
    TempTags,         \* those that start with "temp_": the tags sync_send_request makes
    NoTag,            \* the tag of a default-constructed QhmEndpoint ("")
    Endpoints,        \* "ip:port" strings
    Connectable,      \* those udp_client's constructor accepts
    NoEndpoint,       \* a Socket whose client was never initialised
    Absent,           \* known_nodes has no entry for the tag
    NoApp,            \* no application-messagetype header
    AppMessages,      \* the message types a peer may put in that header
    MsgHandlers,      \* the types register_msg_handler was called for
    AppEvents,        \* the event types the application's handlers dispatch
    EvtHandlers,      \* the types register_evt_handler was called for
    Advertised,       \* the nodes a peer may ask the service to add
    MaxEmit,          \* bound: events one handler call dispatches
    MaxQueue,         \* bound: a handler dispatches only into a queue this long at most
    DelNodeMayCrash   \* whether del_node's undefined behaviour may end the process

(* Values of EventType, Status and the poll timeouts, in ms. *)
SERVICE_TERMINATE  == 10001
DELETE_NODE        == 10002
CORE_GENERIC_ERROR == -1
CORE_OK            == 0
CORE_CONTINUE      == 1
SOCKET_TIMEOUT     == 3000
BACKLOG_TIMEOUT    == 100

(* A tag, an endpoint: what parse_qhm_endpoint keeps of a SRC or DST header. *)
(* It returns a default QhmEndpoint when the header is not JSON.             *)
NullNode  == [tag |-> NoTag, endpoint |-> NoEndpoint]
QhmEndpoint == [tag : Tags, endpoint : Endpoints] \cup {NullNode}

ASSUME TagAssumption ==
    /\ TempTags \subseteq Tags
    /\ NoTag \notin Tags

ASSUME EndpointAssumption ==
    /\ Connectable \subseteq Endpoints
    /\ NoEndpoint \notin Endpoints
    /\ Absent \notin Endpoints \cup {NoEndpoint}

ASSUME HandlerAssumption ==
    /\ AppEvents \cap {SERVICE_TERMINATE, DELETE_NODE} = {}
    /\ SERVICE_TERMINATE \notin AppMessages
    /\ NoApp \notin AppMessages \cup {SERVICE_TERMINATE}

(* A peer advertises whatever tag it likes, "temp_" ones too. *)
ASSUME AdvertisedAssumption ==
    /\ Advertised \subseteq [tag : Tags, endpoint : Endpoints]

ASSUME BoundAssumption ==
    /\ MaxEmit \in Nat
    /\ MaxQueue \in Nat
    /\ DelNodeMayCrash \in BOOLEAN

(* The clients' tags that nobody advertises a node under. *)
ClientTags == TempTags \ {n.tag : n \in Advertised}

(* What process_message tells apart in a datagram: whether parse_http takes  *)
(* it, as what, its application-messagetype header, the route its path       *)
(* matches and its SRC header.                                               *)
Datagram ==
    [form : {"request", "response"}, app : AppMessages \cup {SERVICE_TERMINATE},
     path : {"any"}, src : QhmEndpoint]
    \cup [form : {"request"}, app : {NoApp}, path : {"service", "advertise", "unknown"},
          src : QhmEndpoint]
    \cup [form : {"response"}, app : {NoApp}, path : {"any"}, src : QhmEndpoint]
    \cup {[form |-> "invalid", app |-> NoApp, path |-> "any", src |-> NullNode]}

(* A reply: its status, and which headers of msg_schema it carries.          *)
Reply == [status : Nat, headers : SUBSET {"SRC", "DST"}]

(* What a step sends: a reply, the endpoint its socket is connected to (or   *)
(* NoEndpoint: nothing leaves), and the node it is meant for.                *)
Nothing == [to |-> NoEndpoint, for |-> NullNode, reply |-> [status |-> 0, headers |-> {}]]
Packet  == [to : Endpoints \cup {NoEndpoint}, for : QhmEndpoint, reply : Reply]

Event == [type : AppEvents \cup {SERVICE_TERMINATE, DELETE_NODE}, tag : Tags \cup {NoTag}]

VARIABLES
    pc,           \* where run() is
    should_run,   \* context->should_run
    known_nodes,  \* context->known_nodes: tag -> the endpoint its socket is connected to
    event_queue,  \* context->event_queue
    timeout,      \* how long the next recv waits
    reply,        \* the reply in hand (kept from turn to turn, as in run())
    dest,         \* its destination (kept from turn to turn, as in run())
    sent          \* what the last step put on the wire (observation only)

vars == <<pc, should_run, known_nodes, event_queue, timeout, reply, dest, sent>>

TypeOK ==
    /\ pc \in {"head", "recv", "error", "commit", "finalize", "done", "crashed"}
    /\ should_run \in BOOLEAN
    /\ known_nodes \in [Tags \cup {NoTag} -> Endpoints \cup {NoEndpoint, Absent}]
    /\ event_queue \in Seq(Event)
    /\ timeout \in {SOCKET_TIMEOUT, BACKLOG_TIMEOUT}
    /\ reply \in Reply
    /\ dest \in QhmEndpoint
    /\ sent \in Packet

(* init() and the declarations at the top of run(). *)
LoopInit ==
    /\ pc = "head"
    /\ should_run = TRUE
    /\ event_queue = <<>>
    /\ timeout = SOCKET_TIMEOUT
    /\ reply = Nothing.reply
    /\ dest = NullNode
    /\ sent = Nothing

Init == LoopInit /\ known_nodes = [t \in Tags \cup {NoTag} |-> Absent]
-----------------------------------------------------------------------------
(* The node table and the event queue. *)

Known(t) == known_nodes[t] # Absent

(* The socket of a NeighbourNode: connect() throws on an address that does   *)
(* not resolve, the constructor catches, and send() on it does nothing.      *)
NewSocket(n) == IF n.endpoint \in Connectable THEN n.endpoint ELSE NoEndpoint

(* Mutant: the entry is overwritten. *)
add_node_overwrites(n) == [known_nodes EXCEPT ![n.tag] = NewSocket(n)]

(* add_node keeps the entry a tag already has. *)
add_node(n) ==
    IF Known(n.tag) THEN known_nodes
    ELSE [known_nodes EXCEPT ![n.tag] = NewSocket(n)]

del_node(t) == [known_nodes EXCEPT ![t] = Absent]

(* The events a handler may dispatch in one call. *)
AppEvent  == [type : AppEvents, tag : {NoTag}]
Emissions == UNION {[1 .. k -> AppEvent] : k \in 0 .. MaxEmit}

CanDispatch(queue, evts) == evts = <<>> \/ Len(queue) + Len(evts) <= MaxQueue

(* Mutant: Socket::recv's own default instead of SOCKET_TIMEOUT. *)
NextTimeout_default(queue) == IF queue = <<>> THEN 1000000 ELSE BACKLOG_TIMEOUT

NextTimeout(queue) == IF queue = <<>> THEN SOCKET_TIMEOUT ELSE BACKLOG_TIMEOUT
-----------------------------------------------------------------------------
(* process_event: one event a turn, before the datagram. *)

NoEvent ==
    /\ pc = "head" /\ should_run
    /\ event_queue = <<>>
    /\ pc' = "recv"
    /\ UNCHANGED <<should_run, known_nodes, event_queue, timeout, reply, dest>>

EventTerminate ==
    /\ pc = "head" /\ should_run
    /\ event_queue # <<>> /\ Head(event_queue).type = SERVICE_TERMINATE
    /\ event_queue' = Tail(event_queue)
    /\ should_run' = FALSE
    /\ pc' = "finalize"
    /\ UNCHANGED <<known_nodes, timeout, reply, dest>>

(* Mutant: the event is handled but not popped. *)
EventDelete_not_popped ==
    /\ pc = "head" /\ should_run
    /\ event_queue # <<>> /\ Head(event_queue).type = DELETE_NODE
    /\ known_nodes' = del_node(Head(event_queue).tag)
    /\ timeout' = NextTimeout(event_queue)
    /\ pc' = "recv"
    /\ UNCHANGED <<should_run, event_queue, reply, dest>>

(* Mutant: the timeout is computed before the event is popped. *)
EventDelete_early_timeout ==
    /\ pc = "head" /\ should_run
    /\ event_queue # <<>> /\ Head(event_queue).type = DELETE_NODE
    /\ event_queue' = Tail(event_queue)
    /\ known_nodes' = del_node(Head(event_queue).tag)
    /\ timeout' = NextTimeout(event_queue)
    /\ pc' = "recv"
    /\ UNCHANGED <<should_run, reply, dest>>

(* delete_node: the event names a node; an unknown tag is skipped.  del_node *)
(* reads the iterator it has just erased and returns no value.               *)
EventDelete ==
    /\ pc = "head" /\ should_run
    /\ event_queue # <<>> /\ Head(event_queue).type = DELETE_NODE
    /\ event_queue' = Tail(event_queue)
    /\ known_nodes' = del_node(Head(event_queue).tag)
    /\ timeout' = NextTimeout(event_queue')
    /\ pc' \in {"recv"} \cup
         IF DelNodeMayCrash /\ Known(Head(event_queue).tag) THEN {"crashed"} ELSE {}
    /\ UNCHANGED <<should_run, reply, dest>>

(* A registered application event, whose handler may dispatch events too. *)
EventApp(evts) ==
    /\ pc = "head" /\ should_run
    /\ event_queue # <<>> /\ Head(event_queue).type \in AppEvents \cap EvtHandlers
    /\ CanDispatch(Tail(event_queue), evts)
    /\ event_queue' = Tail(event_queue) \o evts
    /\ timeout' = NextTimeout(event_queue')
    /\ pc' = "recv"
    /\ UNCHANGED <<should_run, known_nodes, reply, dest>>

(* get_evt_handler returns nullptr for any other type, and it is called. *)
EventUnhandled ==
    /\ pc = "head" /\ should_run
    /\ event_queue # <<>> /\ Head(event_queue).type \in AppEvents \ EvtHandlers
    /\ event_queue' = Tail(event_queue)
    /\ pc' = "crashed"
    /\ UNCHANGED <<should_run, known_nodes, timeout, reply, dest>>
-----------------------------------------------------------------------------
(* request.recv, when nothing comes of it. *)

(* The timeout passed, the datagram was empty or select failed. *)
RecvNothing ==
    /\ pc = "recv"
    /\ pc' = "head"
    /\ UNCHANGED <<should_run, known_nodes, event_queue, timeout, reply, dest>>
-----------------------------------------------------------------------------
(* request.recv, when a datagram m comes, and process_message: one action per way through it. *)

(* What run() does next with a Status. *)
After(rv) == CASE rv < CORE_OK -> "error"
               [] rv = CORE_OK -> "commit"
               [] OTHER        -> "head"

(* process_message's two ways out. *)
ReturnStatus(rv) ==
    /\ pc' = After(rv)
    /\ UNCHANGED <<reply, dest>>

ReplyTo(node, status, headers) ==
    /\ pc' = After(CORE_OK)
    /\ reply' = [status |-> status, headers |-> headers]
    /\ dest' = IF "DST" \in headers THEN node ELSE NullNode

(* Mutant: dispatched events overtake those already queued. *)
Dispatch_in_front(evts) ==
    /\ CanDispatch(event_queue, evts)
    /\ event_queue' = evts \o event_queue

(* A handler's dispatch_event calls. *)
Dispatch(evts) ==
    /\ CanDispatch(event_queue, evts)
    /\ event_queue' = event_queue \o evts

RejectUnparsable(m) ==
    /\ pc = "recv" /\ m.form = "invalid"
    /\ ReturnStatus(CORE_GENERIC_ERROR)
    /\ UNCHANGED <<should_run, known_nodes, event_queue, timeout>>

HandleTerminate(m) ==
    /\ pc = "recv" /\ m.form # "invalid" /\ m.app = SERVICE_TERMINATE
    /\ event_queue' = Append(event_queue, [type |-> SERVICE_TERMINATE, tag |-> NoTag])
    /\ ReturnStatus(CORE_CONTINUE)
    /\ UNCHANGED <<should_run, known_nodes, timeout>>

(* default_handler *)
HandleUnknownType(m) ==
    /\ pc = "recv" /\ m.form # "invalid" /\ m.app \in AppMessages \ MsgHandlers
    /\ ReturnStatus(CORE_CONTINUE)
    /\ UNCHANGED <<should_run, known_nodes, event_queue, timeout>>

(* A handler that replies does so with reply_back or without a DST header;    *)
(* nothing checks the reply or fills its SRC header in.                       *)
AppMessageAnswered(m, evts, headers) ==
    /\ pc = "recv" /\ m.form # "invalid" /\ m.app \in AppMessages \cap MsgHandlers
    /\ Dispatch(evts)
    /\ ReplyTo(m.src, 200, headers)
    /\ UNCHANGED <<should_run, known_nodes, timeout>>

AppMessageUnanswered(m, evts, rv) ==
    /\ pc = "recv" /\ m.form # "invalid" /\ m.app \in AppMessages \cap MsgHandlers
    /\ Dispatch(evts)
    /\ ReturnStatus(rv)
    /\ UNCHANGED <<should_run, known_nodes, timeout>>

(* process_http *)
IgnoreResponse(m) ==
    /\ pc = "recv" /\ m.form = "response" /\ m.app = NoApp
    /\ ReturnStatus(CORE_CONTINUE)
    /\ UNCHANGED <<should_run, known_nodes, event_queue, timeout>>

IsRouted(m, path) == m.form = "request" /\ m.app = NoApp /\ m.path = path

(* An application's route handler returned CORE_OK and a reply that validates. *)
RouteAnswered(m, evts) ==
    /\ pc = "recv" /\ IsRouted(m, "service")
    /\ Dispatch(evts)
    /\ ReplyTo(m.src, 200, {"SRC", "DST"})
    /\ UNCHANGED <<should_run, known_nodes, timeout>>

(* It returned something else, or a reply with no DST header or no status.    *)
RouteFailed(m, evts) ==
    /\ pc = "recv" /\ IsRouted(m, "service")
    /\ Dispatch(evts)
    /\ ReturnStatus(CORE_GENERIC_ERROR)
    /\ UNCHANGED <<should_run, known_nodes, timeout>>

RouteNotFound(m) ==
    /\ pc = "recv" /\ IsRouted(m, "unknown")
    /\ ReplyTo(m.src, 404, {"SRC", "DST"})
    /\ UNCHANGED <<should_run, known_nodes, event_queue, timeout>>

(* The tutorials' advertise handler: PUT a node; add_node's verdict is        *)
(* ignored.                                                                   *)
HandleAdvertise(m, n) ==
    /\ pc = "recv" /\ IsRouted(m, "advertise")
    /\ known_nodes' = add_node(n)
    /\ ReplyTo(m.src, 201, {"SRC", "DST"})
    /\ UNCHANGED <<should_run, event_queue, timeout>>

(* Its 400 and 405 replies have no DST header, and process_http rejects them. *)
RejectAdvertise(m) ==
    /\ pc = "recv" /\ IsRouted(m, "advertise")
    /\ ReturnStatus(CORE_GENERIC_ERROR)
    /\ UNCHANGED <<should_run, known_nodes, event_queue, timeout>>
-----------------------------------------------------------------------------
(* error(): a 500 to dest, the destination of the last reply that was built;   *)
(* it is sent only if that node is still known.                                *)
ErrorReply ==
    /\ pc = "error" /\ Known(dest.tag)
    /\ reply' = [status |-> 500, headers |-> {"DST"}]
    /\ pc' = "commit"
    /\ UNCHANGED <<should_run, known_nodes, event_queue, timeout, dest>>

ErrorDropped ==
    /\ pc = "error" /\ ~Known(dest.tag)
    /\ pc' = "head"
    /\ UNCHANGED <<should_run, known_nodes, event_queue, timeout, reply, dest>>

(* Mutant: a client's node is added, and never deleted. *)
Commit_keeps_client ==
    /\ pc = "commit"
    /\ known_nodes' = add_node(dest)
    /\ sent' = [to |-> known_nodes'[dest.tag], for |-> dest, reply |-> reply]
    /\ pc' = "head"
    /\ UNCHANGED <<should_run, event_queue, timeout, reply, dest>>

(* Mutant: the deletion is queued only when no other event is. *)
Commit_drops_event ==
    /\ pc = "commit"
    /\ known_nodes' = add_node(dest)
    /\ sent' = [to |-> known_nodes'[dest.tag], for |-> dest, reply |-> reply]
    /\ event_queue' = IF dest.tag \in TempTags /\ event_queue = <<>>
                      THEN <<[type |-> DELETE_NODE, tag |-> dest.tag]>>
                      ELSE event_queue
    /\ pc' = "head"
    /\ UNCHANGED <<should_run, timeout, reply, dest>>

(* transaction_commit: the socket is looked up by tag alone, and added when    *)
(* the tag is unknown; the node of a client is deleted by an event.            *)
Commit ==
    /\ pc = "commit"
    /\ known_nodes' = add_node(dest)
    /\ sent' = [to |-> known_nodes'[dest.tag], for |-> dest, reply |-> reply]
    /\ event_queue' = IF dest.tag \in TempTags
                      THEN Append(event_queue, [type |-> DELETE_NODE, tag |-> dest.tag])
                      ELSE event_queue
    /\ pc' = "head"
    /\ UNCHANGED <<should_run, timeout, reply, dest>>

(* finalize() unbinds the socket and frees the nodes. *)
Finalize ==
    /\ pc = "finalize"
    /\ pc' = "done"
    /\ UNCHANGED <<should_run, known_nodes, event_queue, timeout, reply, dest>>

Stopped ==
    /\ pc \in {"done", "crashed"}
    /\ UNCHANGED <<pc, should_run, known_nodes, event_queue, timeout, reply, dest>>
-----------------------------------------------------------------------------
ProcessEvent ==
    \/ NoEvent \/ EventTerminate \/ EventDelete \/ EventUnhandled
    \/ \E evts \in Emissions : EventApp(evts)

ProcessMessage(m) ==
    \/ RejectUnparsable(m) \/ HandleTerminate(m) \/ HandleUnknownType(m) \/ IgnoreResponse(m)
    \/ RouteNotFound(m) \/ RejectAdvertise(m)
    \/ \E n \in Advertised : HandleAdvertise(m, n)
    \/ \E evts \in Emissions :
          \/ RouteAnswered(m, evts) \/ RouteFailed(m, evts)
          \/ \E headers \in {{}, {"DST"}} : AppMessageAnswered(m, evts, headers)
          \/ \E rv \in {CORE_GENERIC_ERROR, CORE_CONTINUE} : AppMessageUnanswered(m, evts, rv)

Silent ==
    /\ \/ ProcessEvent \/ RecvNothing \/ ErrorReply \/ ErrorDropped \/ Finalize \/ Stopped
       \/ \E m \in Datagram : ProcessMessage(m)
    /\ sent' = Nothing

Next == Silent \/ Commit

Spec == Init /\ [][Next]_vars

(* recv returns within its timeout and handlers return, so the loop's thread  *)
(* always takes its next step; nothing is assumed of what arrives.            *)
FairSpec == Spec /\ WF_vars(Next)
-----------------------------------------------------------------------------
(* Safety. *)

DeleteEvent(t) == [type |-> DELETE_NODE, tag |-> t]

Queued(queue, e) == \E i \in 1 .. Len(queue) : queue[i] = e

Pending(e) == Queued(event_queue, e)

(* A client's node never outlives the events: as long as the table holds one, *)
(* a DELETE_NODE event for it is queued (transaction_commit pushes it with    *)
(* the send, and each event deletes one tag), so no client leaks a socket,    *)
(* unless a peer has advertised a node under the client's own tag.            *)
TempNodeTracked == \A t \in ClientTags : Known(t) => Pending(DeleteEvent(t))

(* The loop polls every 100 ms exactly while events are pending: it neither   *)
(* sleeps 3 s on a queued event nor polls when idle.  timeout is recomputed   *)
(* only after an event, and events arrive after that.                         *)
TimeoutTracksQueue ==
    pc = "recv" => (timeout = BACKLOG_TIMEOUT <=> event_queue # <<>>)

(* A node's socket is never replaced while its tag is known, by a request     *)
(* from the same tag at another endpoint, an advertisement or a reply; only   *)
(* clients' nodes are ever removed.                                           *)
NeverRepointed ==
    [][\A t \in Tags \cup {NoTag} :
          Known(t) => known_nodes'[t] \in {known_nodes[t]} \cup
                         IF t \in TempTags THEN {Absent} ELSE {}]_vars

(* What the clients of sync_send_request rely on: a reply to a client's tag   *)
(* leaves on a socket to the endpoint its request named, not an older one,    *)
(* and a client is never sent the 500 of somebody else's request.             *)
ClientReplyRouted ==
    (sent # Nothing /\ sent.for.tag \in ClientTags) =>
        /\ sent.to = NewSocket(sent.for)
        /\ sent.reply.status # 500

(* A service whose handlers dispatch no event meets its next datagram with    *)
(* an empty queue: a client's node is gone, and a terminate is obeyed, before *)
(* another request is read.                                                   *)
NoBacklog == pc = "recv" => event_queue = <<>>
-----------------------------------------------------------------------------
(* Liveness. *)

(* A queued SERVICE_TERMINATE stops the loop, however many events precede it  *)
(* and whatever keeps arriving: each turn takes one event off the queue.      *)
TerminateHonoured ==
    Pending([type |-> SERVICE_TERMINATE, tag |-> NoTag]) ~> pc \in {"done", "crashed"}

(* A client's node is eventually deleted, or the service stops.               *)
TempNodeReclaimed ==
    \A t \in ClientTags : Known(t) ~> (~Known(t) \/ pc \in {"done", "crashed"})
=============================================================================
