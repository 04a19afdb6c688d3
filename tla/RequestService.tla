--------------------------- MODULE RequestService ---------------------------
(***************************************************************************)
(* Callers of sync_send_request and async_send_request, the network, and    *)
(* the Messenger that serves them.  Every caller's SRC tag is "temp_"       *)
(* followed by its host's tag, so threads of one host share a tag and a tag *)
(* moves to another port with every call, while the Messenger routes its    *)
(* replies by tag.  The specification of the callers, SyncRequest, says     *)
(* what they expect of a service; Implements says that this one provides it.*)
(***************************************************************************)
EXTENDS Messenger

CONSTANTS
    Clients, NoClient, NoPort, MayCollide, MayFail, MayReuse, MaxCalls,  \* of SyncRequest
    HostTag      \* the tag in the SRC header of each caller's requests

(* Nobody advertises a node under a caller's tag. *)
ASSUME HostAssumption == HostTag \in [Clients -> ClientTags]

ASSUME CallerAssumption ==
    /\ NoClient \notin Clients
    /\ NoPort \notin Endpoints
    /\ MayCollide \in BOOLEAN
    /\ MayFail \in BOOLEAN
    /\ MayReuse \in BOOLEAN
    /\ MaxCalls \in Nat

VARIABLES
    calls, cpc, call, port, outcome, owner,  \* of SyncRequest
    requests, replies,
    inhand,    \* the request that the reply in hand answers
    killed     \* kill_node's terminate message: "no", "sent" or "received"

(* The request being served: received, handled and not yet answered. *)
Serving == IF pc = "commit" THEN {inhand} ELSE {}

SR == INSTANCE SyncRequest WITH Ports <- Endpoints, serving <- Serving

callers  == <<calls, cpc, call, port, outcome, owner>>
sysVars  == <<vars, callers, requests, replies, inhand, killed>>

NoRequest == [id |-> 0, from |-> NoClient, port |-> NoPort]

CallersInit ==
    /\ SR!Init
    /\ inhand = NoRequest
    /\ killed = "no"

SysInit == Init /\ CallersInit
-----------------------------------------------------------------------------
(* A request as the Messenger sees it: a route of the service, or no route.   *)
Received(d, path) ==
    [form |-> "request", app |-> NoApp, path |-> path,
     src |-> [tag |-> HostTag[d.from], endpoint |-> d.port]]

KillMessage == [form |-> "request", app |-> SERVICE_TERMINATE, path |-> "any", src |-> NullNode]

ReceiveRequest(d, path) ==
    /\ ProcessMessage(Received(d, path))
    /\ sent' = Nothing
    /\ inhand' = d
    /\ requests' \in {requests, requests \ {d}}
    /\ UNCHANGED <<callers, replies, killed>>

ReceiveKill ==
    /\ killed = "sent"
    /\ HandleTerminate(KillMessage)
    /\ sent' = Nothing
    /\ killed' = "received"
    /\ UNCHANGED <<callers, requests, replies, inhand>>

(* A step of the run loop that receives nothing and sends nothing. *)
Turn ==
    /\ ProcessEvent \/ RecvNothing \/ ErrorReply \/ ErrorDropped \/ Finalize \/ Stopped
    /\ sent' = Nothing
    /\ UNCHANGED <<callers, requests, replies, inhand, killed>>

SendReply ==
    /\ Commit
    /\ replies' = IF sent'.to = NoEndpoint THEN replies
                  ELSE replies \cup {[id |-> inhand.id, port |-> sent'.to,
                                      status |-> sent'.reply.status]}
    /\ UNCHANGED <<callers, requests, inhand, killed>>

(* kill_node, from a node of its own. *)
Kill ==
    /\ killed = "no"
    /\ killed' = "sent"
    /\ UNCHANGED <<vars, callers, requests, replies, inhand>>

ServiceNext ==
    \/ \E d \in requests, path \in {"service", "unknown"} : ReceiveRequest(d, path)
    \/ ReceiveKill \/ Turn \/ SendReply

ClientsNext ==
    /\ UNCHANGED <<vars, inhand, killed>>
    /\ SR!ClientNext \/ SR!Network

SysNext == ServiceNext \/ ClientsNext \/ Kill

SysSpec == SysInit /\ [][SysNext]_sysVars
-----------------------------------------------------------------------------
(* The Messenger is a service as SyncRequest has it: it answers only requests *)
(* that it has received, each at the port that the request names, with the    *)
(* status of its route, and no caller sees a 500 or another caller's answer.  *)
(* With callers that share a tag this needs the node table to forget a        *)
(* client before the next request is read.                                    *)
Implements == SR!Spec

(* When each caller binds the port it draws, and no datagram names it yet,    *)
(* every response a caller gets answers the request it made, whichever thread  *)
(* of its host made another one meanwhile.                                    *)
CallersAnswered == SR!AnswersOwnRequest
=============================================================================
