-------------------------- MODULE MessengerProofs --------------------------
(***************************************************************************)
(* Theorems about the run loop, the service and the relay that run it, for  *)
(* every set of tags, endpoints, handlers and events and for every value of *)
(* the bounds.                                                              *)
(***************************************************************************)
EXTENDS RelayQuiet, SequenceTheorems, TLAPS

USE DEF SERVICE_TERMINATE, DELETE_NODE, CORE_GENERIC_ERROR, CORE_OK, CORE_CONTINUE,
        SOCKET_TIMEOUT, BACKLOG_TIMEOUT
-----------------------------------------------------------------------------
(* Lemmas about the queue. *)

(* What a handler dispatches is a sequence of events, none of them a deletion; *)
(* with no event allowed it is empty.                                          *)
LEMMA EmissionsAreEvents ==
    ASSUME NEW evts \in Emissions
    PROVE  /\ evts \in Seq(Event)
           /\ \A i \in 1 .. Len(evts) : evts[i].type # DELETE_NODE
           /\ MaxEmit = 0 => evts = <<>>
<1>1. PICK k \in 0 .. MaxEmit : evts \in [1 .. k -> AppEvent]
  BY DEF Emissions
<1>2. k \in Nat
  BY BoundAssumption
<1>3. AppEvent \subseteq Event
  BY DEF AppEvent, Event
<1>4. evts \in Seq(Event) /\ Len(evts) = k
  BY <1>1, <1>2, <1>3
<1>5. \A i \in 1 .. Len(evts) : evts[i].type # DELETE_NODE
  BY <1>1, <1>4, HandlerAssumption DEF AppEvent
<1>6. MaxEmit = 0 => evts = <<>>
  BY <1>1, <1>2, <1>4, EmptySeq
<1> QED
  BY <1>4, <1>5, <1>6

(* An event still queued after the head was taken, or after others were added. *)
LEMMA StaysQueued ==
    ASSUME NEW q \in Seq(Event), NEW evts \in Seq(Event), NEW i \in 1 .. Len(q)
    PROVE  /\ \E j \in 1 .. Len(q \o evts) : (q \o evts)[j] = q[i]
           /\ i # 1 => /\ q # <<>>
                       /\ i - 1 \in 1 .. Len(Tail(q))
                       /\ Tail(q)[i - 1] = q[i]
<1>1. Len(q) \in Nat /\ Len(evts) \in Nat /\ i \in Nat /\ i >= 1 /\ i <= Len(q)
  BY LenProperties
<1>2. i \in 1 .. Len(q \o evts) /\ (q \o evts)[i] = q[i]
  BY <1>1, ConcatProperties
<1>3. q # <<>>
  BY <1>1, EmptySeq
<1>4. i # 1 => i - 1 \in 1 .. Len(Tail(q)) /\ Tail(q)[i - 1] = q[i]
  BY <1>1, <1>3, HeadTailProperties
<1> QED
  BY <1>2, <1>3, <1>4

(* Where the events of a queue come from, after the head was taken or others   *)
(* were added.                                                                 *)
LEMMA QueuedBefore ==
    ASSUME NEW q \in Seq(Event), NEW evts \in Seq(Event)
    PROVE  /\ \A j \in 1 .. Len(q \o evts) :
                 \/ \E i \in 1 .. Len(q) : (q \o evts)[j] = q[i]
                 \/ \E i \in 1 .. Len(evts) : (q \o evts)[j] = evts[i]
           /\ q # <<>> =>
                 /\ Tail(q) \in Seq(Event)
                 /\ Head(q) = q[1] /\ 1 \in 1 .. Len(q) /\ Head(q) \in Event
                 /\ \A j \in 1 .. Len(Tail(q)) : \E i \in 1 .. Len(q) : Tail(q)[j] = q[i]
<1>1. Len(q) \in Nat /\ Len(evts) \in Nat
  BY LenProperties
<1>2. ASSUME NEW j \in 1 .. Len(q \o evts)
      PROVE  \/ \E i \in 1 .. Len(q) : (q \o evts)[j] = q[i]
             \/ \E i \in 1 .. Len(evts) : (q \o evts)[j] = evts[i]
  <2>1. CASE j <= Len(q)
    <3>1. j \in 1 .. Len(q) /\ (q \o evts)[j] = q[j]
      BY <1>1, <1>2, <2>1, ConcatProperties
    <3> QED
      BY <3>1
  <2>2. CASE ~(j <= Len(q))
    <3>1. j - Len(q) \in 1 .. Len(evts) /\ (q \o evts)[j] = evts[j - Len(q)]
      BY <1>1, <1>2, <2>2, ConcatProperties
    <3> QED
      BY <3>1
  <2> QED
    BY <2>1, <2>2
<1>3. ASSUME q # <<>>
      PROVE  /\ Tail(q) \in Seq(Event)
             /\ Head(q) = q[1] /\ 1 \in 1 .. Len(q) /\ Head(q) \in Event
             /\ \A j \in 1 .. Len(Tail(q)) : \E i \in 1 .. Len(q) : Tail(q)[j] = q[i]
  <2>1. Tail(q) \in Seq(Event) /\ Head(q) \in Event /\ Len(Tail(q)) = Len(q) - 1
    BY <1>3, HeadTailProperties
  <2>2. Head(q) = q[1] /\ 1 \in 1 .. Len(q)
    BY <1>1, <1>3, EmptySeq
  <2>3. ASSUME NEW j \in 1 .. Len(Tail(q))
        PROVE  j + 1 \in 1 .. Len(q) /\ Tail(q)[j] = q[j + 1]
    BY <1>1, <1>3, <2>1, HeadTailProperties
  <2> QED
    BY <2>1, <2>2, <2>3
<1> QED
  BY <1>2, <1>3
-----------------------------------------------------------------------------
(* Type correctness. *)

LEMMA ClientsAreTemp == ClientTags \subseteq TempTags /\ ClientTags \subseteq Tags /\ NoTag \notin ClientTags
BY TagAssumption DEF ClientTags

LEMMA NodesAreEndpoints ==
    /\ NullNode \in QhmEndpoint
    /\ \A n \in QhmEndpoint : n.tag \in Tags \cup {NoTag}
    /\ \A n \in Advertised : n \in QhmEndpoint /\ n.tag \notin ClientTags
    /\ \A m \in Datagram : m.src \in QhmEndpoint
BY AdvertisedAssumption DEF QhmEndpoint, NullNode, Datagram, ClientTags

LEMMA AddNodeType ==
    ASSUME TypeOK, NEW n \in QhmEndpoint
    PROVE  /\ NewSocket(n) \in Endpoints \cup {NoEndpoint}
           /\ add_node(n) \in [Tags \cup {NoTag} -> Endpoints \cup {NoEndpoint, Absent}]
           /\ add_node(n)[n.tag] \in Endpoints \cup {NoEndpoint}
           /\ ~Known(n.tag) => add_node(n)[n.tag] = NewSocket(n)
           /\ \A t \in Tags \cup {NoTag} : t # n.tag => add_node(n)[t] = known_nodes[t]
           /\ Known(n.tag) => add_node(n) = known_nodes
BY NodesAreEndpoints, EndpointAssumption DEF TypeOK, add_node, NewSocket, Known

(* The actions of one turn, by what they do to the node table and the queue.   *)
Queues(q, evts) ==
    /\ \A i \in 1 .. Len(evts) : evts[i].type # DELETE_NODE
    /\ event_queue' = q \o evts
    /\ known_nodes' = known_nodes

AddsEvents == \E evts \in Seq(Event) : Queues(event_queue, evts)

TakesEvent ==
    /\ event_queue # <<>> /\ Head(event_queue).type # DELETE_NODE
    /\ \E evts \in Seq(Event) : Queues(Tail(event_queue), evts)

DeletesNode ==
    /\ event_queue # <<>> /\ Head(event_queue).type = DELETE_NODE
    /\ event_queue' = Tail(event_queue) \o <<>>
    /\ known_nodes' = del_node(Head(event_queue).tag)

AddsNode(n, evts) ==
    /\ event_queue' = event_queue \o evts
    /\ known_nodes' = add_node(n)

AddsOtherNode == \E n \in QhmEndpoint : n.tag \notin ClientTags /\ AddsNode(n, <<>>)

AddsClient ==
    \E n \in QhmEndpoint : n.tag \in TempTags /\ AddsNode(n, <<DeleteEvent(n.tag)>>)

(* Every step of the service does one of these five. *)
LEMMA StepEffects ==
    ASSUME TypeOK, [Next]_vars
    PROVE  AddsEvents \/ TakesEvent \/ DeletesNode \/ AddsOtherNode \/ AddsClient
<1> USE DEF TypeOK
<1> DEFINE none == <<>>
<1>e. none \in Seq(Event)
  OBVIOUS
<1>n. \A i \in 1 .. Len(none) : none[i].type # DELETE_NODE
  OBVIOUS
<1>q. event_queue \o <<>> = event_queue /\ (event_queue # <<>> => Tail(event_queue) \o <<>> = Tail(event_queue))
  BY ConcatEmptySeq, HeadTailProperties
<1>k. ASSUME UNCHANGED <<known_nodes, event_queue>> PROVE AddsEvents
  <2>1. Queues(event_queue, none)
    BY <1>k, <1>n, <1>q DEF Queues
  <2> HIDE DEF none
  <2> QED
    BY <1>e, <2>1 DEF AddsEvents
<1>t. ASSUME event_queue # <<>>, Head(event_queue).type # DELETE_NODE,
             event_queue' = Tail(event_queue), known_nodes' = known_nodes
      PROVE  TakesEvent
  <2>1. Queues(Tail(event_queue), none)
    BY <1>t, <1>n, <1>q DEF Queues
  <2> HIDE DEF none
  <2> QED
    BY <1>t, <1>e, <2>1 DEF TakesEvent
<1>1. CASE NoEvent \/ RecvNothing \/ ErrorReply \/ ErrorDropped \/ Finalize \/ Stopped \/ UNCHANGED vars
  BY <1>1, <1>k DEF NoEvent, RecvNothing, ErrorReply, ErrorDropped, Finalize, Stopped, vars
<1>2. CASE EventTerminate
  BY <1>2, <1>t DEF EventTerminate
<1>3. CASE EventUnhandled
  BY <1>3, <1>t, HandlerAssumption DEF EventUnhandled
<1>4. CASE EventDelete
  BY <1>4, <1>q DEF EventDelete, DeletesNode
<1>5. ASSUME NEW evts \in Emissions, EventApp(evts) PROVE TakesEvent
  <2>1. event_queue # <<>> /\ Head(event_queue).type # DELETE_NODE
    BY <1>5, HandlerAssumption DEF EventApp
  <2>2. evts \in Seq(Event) /\ Queues(Tail(event_queue), evts)
    BY <1>5, EmissionsAreEvents DEF EventApp, Queues
  <2> QED
    BY <2>1, <2>2 DEF TakesEvent
<1>6. ASSUME NEW m \in Datagram,
             RejectUnparsable(m) \/ HandleUnknownType(m) \/ IgnoreResponse(m) \/ RouteNotFound(m)
             \/ RejectAdvertise(m)
      PROVE  AddsEvents
  <2>1. UNCHANGED <<known_nodes, event_queue>>
    BY <1>6 DEF RejectUnparsable, HandleUnknownType, IgnoreResponse, RouteNotFound,
                RejectAdvertise, ReturnStatus, ReplyTo, IsRouted, Reply
  <2> QED
    BY <2>1, <1>k
<1>7. ASSUME NEW m \in Datagram, HandleTerminate(m) PROVE AddsEvents
  <2> DEFINE e  == [type |-> SERVICE_TERMINATE, tag |-> NoTag]
             es == <<e>>
  <2>1. e \in Event
    BY DEF Event
  <2>2. es \in Seq(Event)
    BY <2>1
  <2>3. \A i \in 1 .. Len(es) : es[i].type # DELETE_NODE
    OBVIOUS
  <2>4. event_queue' = event_queue \o es /\ known_nodes' = known_nodes
    BY <1>7, <2>1, AppendIsConcat DEF HandleTerminate
  <2>5. Queues(event_queue, es)
    BY <2>3, <2>4 DEF Queues
  <2> HIDE DEF es
  <2> QED
    BY <2>2, <2>5 DEF AddsEvents
<1>8. ASSUME NEW m \in Datagram, NEW n \in Advertised, HandleAdvertise(m, n) PROVE AddsOtherNode
  <2>1. n \in QhmEndpoint /\ n.tag \notin ClientTags
    BY NodesAreEndpoints
  <2>2. AddsNode(n, <<>>)
    BY <1>8, <1>q DEF HandleAdvertise, AddsNode
  <2> QED
    BY <2>1, <2>2 DEF AddsOtherNode
<1>9. ASSUME NEW m \in Datagram, NEW evts \in Emissions, Dispatch(evts), known_nodes' = known_nodes
      PROVE  AddsEvents
  <2>1. evts \in Seq(Event) /\ Queues(event_queue, evts)
    BY <1>9, EmissionsAreEvents DEF Queues, Dispatch
  <2> QED
    BY <2>1 DEF AddsEvents
<1>11. ASSUME NEW m \in Datagram, NEW evts \in Emissions,
              \/ RouteAnswered(m, evts) \/ RouteFailed(m, evts)
              \/ \E headers \in {{}, {"DST"}} : AppMessageAnswered(m, evts, headers)
              \/ \E rv \in {CORE_GENERIC_ERROR, CORE_CONTINUE} : AppMessageUnanswered(m, evts, rv)
       PROVE  AddsEvents
  <2>1. Dispatch(evts) /\ known_nodes' = known_nodes
    BY <1>11 DEF RouteAnswered, RouteFailed, AppMessageAnswered, AppMessageUnanswered, Dispatch
  <2> QED
    BY <2>1, <1>9
<1>10. CASE Commit
  <2>1. CASE dest.tag \in TempTags
    <3>1. DeleteEvent(dest.tag) \in Event
      BY <2>1, TagAssumption DEF DeleteEvent, Event
    <3>2. event_queue' = event_queue \o <<DeleteEvent(dest.tag)>>
      BY <1>10, <2>1, <3>1, AppendIsConcat DEF Commit, DeleteEvent
    <3>3. AddsNode(dest, <<DeleteEvent(dest.tag)>>)
      BY <1>10, <3>2 DEF Commit, AddsNode
    <3> QED
      BY <2>1, <3>3 DEF AddsClient
  <2>2. CASE dest.tag \notin TempTags
    <3>1. AddsNode(dest, <<>>)
      BY <1>10, <2>2, <1>q DEF Commit, AddsNode
    <3> QED
      BY <2>2, <3>1, ClientsAreTemp DEF AddsOtherNode
  <2> QED
    BY <2>1, <2>2
<1> QED
  BY <1>1, <1>2, <1>3, <1>4, <1>5, <1>6, <1>7, <1>8, <1>10, <1>11
  DEF Next, Silent, ProcessEvent, ProcessMessage

LEMMA InitType == Init => TypeOK
<1> SUFFICES ASSUME Init PROVE TypeOK
  OBVIOUS
<1>1. known_nodes \in [Tags \cup {NoTag} -> Endpoints \cup {NoEndpoint, Absent}]
  BY DEF Init, LoopInit
<1>2. event_queue \in Seq(Event) /\ timeout = SOCKET_TIMEOUT /\ pc = "head" /\ should_run = TRUE
  BY DEF Init, LoopInit
<1>3. reply \in Reply /\ dest \in QhmEndpoint /\ sent \in Packet
  BY NodesAreEndpoints DEF Init, LoopInit, Reply, Packet, Nothing
<1> QED
  BY <1>1, <1>2, <1>3 DEF TypeOK

(* The table and the queue keep their types through the five kinds of step.    *)
LEMMA TableAndQueueType ==
    ASSUME TypeOK, [Next]_vars
    PROVE  /\ known_nodes' \in [Tags \cup {NoTag} -> Endpoints \cup {NoEndpoint, Absent}]
           /\ event_queue' \in Seq(Event)
<1>q. event_queue \in Seq(Event) /\ (event_queue # <<>> => Tail(event_queue) \in Seq(Event))
  BY HeadTailProperties DEF TypeOK
<1>e. event_queue \o <<>> = event_queue
      /\ (event_queue # <<>> => Tail(event_queue) \o <<>> = Tail(event_queue))
  BY <1>q, ConcatEmptySeq
<1>1. CASE AddsEvents
  <2>1. PICK evts \in Seq(Event) : Queues(event_queue, evts)
    BY <1>1 DEF AddsEvents
  <2> QED
    BY <2>1, <1>q, ConcatProperties DEF TypeOK, Queues
<1>2. CASE TakesEvent
  <2>1. PICK evts \in Seq(Event) : Queues(Tail(event_queue), evts)
    BY <1>2 DEF TakesEvent
  <2> QED
    BY <2>1, <1>2, <1>q, ConcatProperties DEF TypeOK, Queues, TakesEvent
<1>3. CASE DeletesNode
  <2>1. event_queue' \in Seq(Event)
    BY <1>3, <1>q, <1>e DEF DeletesNode
  <2>2. known_nodes' = del_node(Head(event_queue).tag)
    BY <1>3 DEF DeletesNode
  <2>3. Head(event_queue).tag \in Tags \cup {NoTag}
    <3>1. Head(event_queue) \in Event
      BY <1>3, <1>q, HeadTailProperties DEF DeletesNode
    <3> QED
      BY <3>1 DEF Event
  <2>4. \A t \in Tags \cup {NoTag} :
           del_node(t) \in [Tags \cup {NoTag} -> Endpoints \cup {NoEndpoint, Absent}]
    BY DEF del_node, TypeOK
  <2> QED
    BY <2>1, <2>2, <2>3, <2>4
<1>4. CASE AddsOtherNode
  <2>1. PICK n \in QhmEndpoint : AddsNode(n, <<>>)
    BY <1>4 DEF AddsOtherNode
  <2> QED
    BY <2>1, <1>q, <1>e, AddNodeType DEF AddsNode
<1>5. CASE AddsClient
  <2>1. PICK n \in QhmEndpoint : n.tag \in TempTags /\ AddsNode(n, <<DeleteEvent(n.tag)>>)
    BY <1>5 DEF AddsClient
  <2>2. DeleteEvent(n.tag) \in Event
    BY <2>1, TagAssumption DEF DeleteEvent, Event
  <2>3. <<DeleteEvent(n.tag)>> \in Seq(Event)
    BY <2>2
  <2> QED
    BY <2>1, <2>3, <1>q, AddNodeType, ConcatProperties DEF AddsNode
<1> QED
  BY <1>1, <1>2, <1>3, <1>4, <1>5, StepEffects

(* The loop's own variables keep theirs, action by action. *)
LEMMA LoopType ==
    ASSUME TypeOK, [Next]_vars
    PROVE  /\ pc' \in {"head", "recv", "error", "commit", "finalize", "done", "crashed"}
           /\ should_run' \in BOOLEAN
           /\ timeout' \in {SOCKET_TIMEOUT, BACKLOG_TIMEOUT}
           /\ reply' \in Reply
           /\ dest' \in QhmEndpoint
<1>a. After(CORE_OK) = "commit" /\ After(CORE_GENERIC_ERROR) = "error" /\ After(CORE_CONTINUE) = "head"
  BY DEF After
<1>b. should_run \in BOOLEAN
  BY DEF TypeOK
<1> USE DEF TypeOK
<1>1. CASE NoEvent \/ RecvNothing \/ ErrorDropped \/ Finalize
  BY <1>1 DEF NoEvent, RecvNothing, ErrorDropped, Finalize
<1>2. CASE Stopped \/ UNCHANGED vars
  BY <1>2 DEF Stopped, vars
<1>3. CASE EventTerminate
  <2>1. pc' = "finalize" /\ UNCHANGED <<timeout, reply, dest>>
    BY <1>3 DEF EventTerminate
  <2>2. should_run' \in BOOLEAN
    <3>1. should_run' = FALSE
      BY <1>3 DEF EventTerminate
    <3>2. FALSE \in BOOLEAN
      OBVIOUS
    <3> HIDE DEF TypeOK
    <3> QED
      BY <3>1, <3>2, Zenon
  <2> QED
    BY <2>1, <2>2
<1>4. CASE EventUnhandled
  BY <1>4 DEF EventUnhandled
<1>5. CASE EventDelete
  BY <1>5 DEF EventDelete, NextTimeout
<1>6. CASE \E evts \in Emissions : EventApp(evts)
  BY <1>6 DEF EventApp, NextTimeout
<1>7. CASE ErrorReply
  BY <1>7 DEF ErrorReply, Reply
<1>8. CASE Commit
  BY <1>8 DEF Commit
<1>9. ASSUME NEW m \in Datagram, ProcessMessage(m)
      PROVE  /\ pc' \in {"head", "error", "commit"}
             /\ UNCHANGED <<should_run, timeout>>
             /\ reply' \in Reply /\ dest' \in QhmEndpoint
  <2> USE <1>a DEF ReturnStatus
  <2>1. m.src \in QhmEndpoint /\ NullNode \in QhmEndpoint
    BY NodesAreEndpoints
  <2>2. CASE RejectUnparsable(m) \/ HandleTerminate(m) \/ HandleUnknownType(m) \/ IgnoreResponse(m)
             \/ RejectAdvertise(m)
    BY <2>2 DEF RejectUnparsable, HandleTerminate, HandleUnknownType, IgnoreResponse,
       RejectAdvertise, IsRouted
  <2>3. CASE RouteNotFound(m)
    BY <2>1, <2>3 DEF RouteNotFound, ReplyTo, Reply, IsRouted
  <2>4. CASE \E n \in Advertised : HandleAdvertise(m, n)
    BY <2>1, <2>4 DEF HandleAdvertise, ReplyTo, Reply, IsRouted
  <2>5. CASE \E evts \in Emissions : RouteAnswered(m, evts)
    BY <2>1, <2>5 DEF RouteAnswered, ReplyTo, Reply, IsRouted
  <2>6. CASE \E evts \in Emissions : RouteFailed(m, evts)
    BY <2>6 DEF RouteFailed, IsRouted
  <2>7. CASE \E evts \in Emissions, headers \in {{}, {"DST"}} : AppMessageAnswered(m, evts, headers)
    BY <2>1, <2>7 DEF AppMessageAnswered, ReplyTo, Reply
  <2>8. CASE \E evts \in Emissions, rv \in {CORE_GENERIC_ERROR, CORE_CONTINUE} :
                AppMessageUnanswered(m, evts, rv)
    BY <2>8 DEF AppMessageUnanswered
  <2> QED
    BY <1>9, <2>2, <2>3, <2>4, <2>5, <2>6, <2>7, <2>8 DEF ProcessMessage
<1>10. CASE \E m \in Datagram : ProcessMessage(m)
  BY <1>9, <1>10
<1> QED
  BY <1>1, <1>2, <1>3, <1>4, <1>5, <1>6, <1>7, <1>8, <1>10 DEF Next, Silent, ProcessEvent

LEMMA NextType == TypeOK /\ [Next]_vars => TypeOK'
<1> SUFFICES ASSUME TypeOK, [Next]_vars PROVE TypeOK'
  OBVIOUS
<1>1. Nothing \in Packet
  <2>1. NullNode \in QhmEndpoint /\ [status |-> 0, headers |-> {}] \in Reply
    BY NodesAreEndpoints DEF Reply
  <2> QED
    BY <2>1 DEF Packet, Nothing
<1>2. sent' \in Packet
  <2>1. CASE sent' = Nothing \/ UNCHANGED vars
    BY <1>1, <2>1 DEF TypeOK, vars
  <2>2. CASE Commit
    BY <2>2, AddNodeType DEF Commit, Packet, TypeOK
  <2> QED
    BY <2>1, <2>2 DEF Next, Silent
<1> QED
  BY <1>2, LoopType, TableAndQueueType DEF TypeOK

(* Every variable of the run loop keeps its type. *)
THEOREM TypeCorrect == Spec => []TypeOK
BY InitType, NextType, PTL DEF Spec
-----------------------------------------------------------------------------
(* Clients' nodes. *)

(* Only clients' nodes are queued for deletion. *)
OnlyClients(queue) ==
    \A i \in 1 .. Len(queue) : queue[i].type = DELETE_NODE => queue[i].tag \in TempTags

DeletesClients == OnlyClients(event_queue)

LEMMA OnlyClientsConcat ==
    ASSUME NEW q \in Seq(Event), NEW evts \in Seq(Event), OnlyClients(q), OnlyClients(evts)
    PROVE  OnlyClients(q \o evts)
BY QueuedBefore DEF OnlyClients

LEMMA OnlyClientsTail ==
    ASSUME NEW q \in Seq(Event), q # <<>>, OnlyClients(q)
    PROVE  OnlyClients(Tail(q)) /\ (Head(q).type = DELETE_NODE => Head(q).tag \in TempTags)
BY QueuedBefore DEF OnlyClients

LEMMA QueuedConcat ==
    ASSUME NEW q \in Seq(Event), NEW evts \in Seq(Event), NEW e
    PROVE  /\ Queued(q, e) => Queued(q \o evts, e)
           /\ Queued(evts, e) => Queued(q \o evts, e)
<1>1. Len(q) \in Nat /\ Len(evts) \in Nat
  BY LenProperties
<1>2. ASSUME Queued(q, e) PROVE Queued(q \o evts, e)
  BY <1>2, StaysQueued DEF Queued
<1>3. ASSUME Queued(evts, e) PROVE Queued(q \o evts, e)
  <2>1. PICK i \in 1 .. Len(evts) : evts[i] = e
    BY <1>3 DEF Queued
  <2>2. /\ i + Len(q) \in 1 .. Len(q \o evts)
        /\ (q \o evts)[i + Len(q)] = e
    BY <1>1, <2>1, ConcatProperties
  <2> QED
    BY <2>2 DEF Queued
<1> QED
  BY <1>2, <1>3

LEMMA QueuedTail ==
    ASSUME NEW q \in Seq(Event), NEW e, Queued(q, e)
    PROVE  q # <<>> /\ (Head(q) # e => Queued(Tail(q), e))
<1>1. PICK i \in 1 .. Len(q) : q[i] = e
  BY DEF Queued
<1>2. Len(q) \in Nat
  BY LenProperties
<1>3. q # <<>>
  BY <1>1, <1>2, EmptySeq
<1>4. Head(q) = q[1]
  BY <1>3, QueuedBefore
<1>5. ASSUME Head(q) # e
      PROVE  i - 1 \in 1 .. Len(Tail(q)) /\ Tail(q)[i - 1] = e
  BY <1>1, <1>4, <1>5, StaysQueued
<1> QED
  BY <1>3, <1>5 DEF Queued

ClientInv == TypeOK /\ TempNodeTracked /\ DeletesClients

LEMMA InitClients == Init => ClientInv
<1> SUFFICES ASSUME Init PROVE TempNodeTracked /\ DeletesClients
  BY InitType DEF ClientInv
<1>1. \A t \in ClientTags : ~Known(t)
  BY ClientsAreTemp DEF Init, LoopInit, Known
<1>2. Len(event_queue) = 0
  BY DEF Init, LoopInit
<1> QED
  BY <1>1, <1>2 DEF TempNodeTracked, DeletesClients, OnlyClients

LEMMA NextClients == ClientInv /\ [Next]_vars => ClientInv'
<1> SUFFICES ASSUME ClientInv, [Next]_vars PROVE ClientInv'
  OBVIOUS
<1>t. TypeOK /\ TypeOK'
  BY NextType DEF ClientInv
<1>q. event_queue \in Seq(Event) /\ OnlyClients(event_queue)
  BY DEF ClientInv, TypeOK, DeletesClients
<1>h. event_queue # <<>> => /\ Tail(event_queue) \in Seq(Event)
                           /\ OnlyClients(Tail(event_queue))
                           /\ Head(event_queue) \in Event
  BY <1>q, OnlyClientsTail, HeadTailProperties
<1>k. ASSUME NEW t \in ClientTags, known_nodes[t] # Absent
      PROVE  Queued(event_queue, DeleteEvent(t))
  BY <1>k DEF ClientInv, TempNodeTracked, Known, Pending
<1>n. <<>> \in Seq(Event) /\ OnlyClients(<<>>)
  BY DEF OnlyClients
<1> SUFFICES /\ OnlyClients(event_queue')
             /\ \A t \in ClientTags : known_nodes'[t] # Absent => Queued(event_queue', DeleteEvent(t))
  BY <1>t DEF ClientInv, DeletesClients, TempNodeTracked, Known, Pending
<1>1. CASE AddsEvents
  <2>1. PICK evts \in Seq(Event) : Queues(event_queue, evts)
    BY <1>1 DEF AddsEvents
  <2>2. OnlyClients(evts) /\ event_queue' = event_queue \o evts /\ known_nodes' = known_nodes
    BY <2>1 DEF OnlyClients, Queues
  <2> QED
    BY <2>2, <1>q, <1>k, OnlyClientsConcat, QueuedConcat
<1>2. CASE TakesEvent
  <2>1. PICK evts \in Seq(Event) : Queues(Tail(event_queue), evts)
    BY <1>2 DEF TakesEvent
  <2>2. OnlyClients(evts) /\ event_queue' = Tail(event_queue) \o evts /\ known_nodes' = known_nodes
    BY <2>1 DEF OnlyClients, Queues
  <2>3. event_queue # <<>> /\ \A t \in ClientTags : Head(event_queue) # DeleteEvent(t)
    BY <1>2 DEF TakesEvent, DeleteEvent
  <2>4. OnlyClients(event_queue')
    BY <2>2, <2>3, <1>h, OnlyClientsConcat
  <2>5. ASSUME NEW t \in ClientTags, known_nodes'[t] # Absent
        PROVE  Queued(event_queue', DeleteEvent(t))
    <3>1. Queued(Tail(event_queue), DeleteEvent(t))
      BY <2>2, <2>3, <2>5, <1>q, <1>k, QueuedTail
    <3> QED
      BY <2>2, <2>3, <3>1, <1>h, QueuedConcat
  <2> QED
    BY <2>4, <2>5
<1>3. CASE DeletesNode
  <2>1. event_queue # <<>> /\ event_queue' = Tail(event_queue) /\ known_nodes' = del_node(Head(event_queue).tag)
    BY <1>3, <1>h, ConcatEmptySeq DEF DeletesNode
  <2>2. OnlyClients(event_queue')
    BY <2>1, <1>h
  <2>3. ASSUME NEW t \in ClientTags, known_nodes'[t] # Absent
        PROVE  Queued(event_queue', DeleteEvent(t))
    <3>1. t \in Tags \cup {NoTag} /\ known_nodes \in [Tags \cup {NoTag} -> Endpoints \cup {NoEndpoint, Absent}]
      BY <1>t, ClientsAreTemp DEF TypeOK
    <3>2. Head(event_queue).tag # t /\ known_nodes[t] # Absent
      BY <2>1, <2>3, <3>1 DEF del_node
    <3>3. Head(event_queue) # DeleteEvent(t)
      BY <3>2 DEF DeleteEvent
    <3> QED
      BY <2>1, <3>2, <3>3, <1>q, <1>k, QueuedTail
  <2> QED
    BY <2>2, <2>3
<1>4. CASE AddsOtherNode
  <2>1. PICK n \in QhmEndpoint : n.tag \notin ClientTags /\ AddsNode(n, <<>>)
    BY <1>4 DEF AddsOtherNode
  <2>2. event_queue' = event_queue /\ known_nodes' = add_node(n)
    BY <2>1, <1>q, ConcatEmptySeq DEF AddsNode
  <2>3. \A t \in ClientTags : known_nodes'[t] = known_nodes[t]
    BY <1>t, <2>1, <2>2, AddNodeType, ClientsAreTemp
  <2> QED
    BY <2>2, <2>3, <1>q, <1>k
<1>5. CASE AddsClient
  <2>1. PICK n \in QhmEndpoint : n.tag \in TempTags /\ AddsNode(n, <<DeleteEvent(n.tag)>>)
    BY <1>5 DEF AddsClient
  <2> DEFINE es == <<DeleteEvent(n.tag)>>
  <2>2. es \in Seq(Event)
    BY <2>1, TagAssumption, ClientsAreTemp DEF DeleteEvent, Event
  <2>3. OnlyClients(es) /\ Queued(es, DeleteEvent(n.tag))
    BY <2>1 DEF OnlyClients, Queued, DeleteEvent
  <2>4. event_queue' = event_queue \o es /\ known_nodes' = add_node(n)
    BY <2>1 DEF AddsNode
  <2> HIDE DEF es
  <2>5. OnlyClients(event_queue')
    BY <2>2, <2>3, <2>4, <1>q, OnlyClientsConcat
  <2>6. ASSUME NEW t \in ClientTags, known_nodes'[t] # Absent
        PROVE  Queued(event_queue', DeleteEvent(t))
    <3>1. CASE t = n.tag
      BY <2>2, <2>3, <2>4, <3>1, <1>q, QueuedConcat
    <3>2. CASE t # n.tag
      <4>1. known_nodes'[t] = known_nodes[t]
        BY <1>t, <2>4, <3>2, AddNodeType, ClientsAreTemp
      <4> QED
        BY <2>2, <2>4, <2>6, <4>1, <1>q, <1>k, QueuedConcat
    <3> QED
      BY <3>1, <3>2
  <2> QED
    BY <2>5, <2>6
<1> QED
  BY <1>t, <1>1, <1>2, <1>3, <1>4, <1>5, StepEffects

(* The node of a client, whose tag nobody advertises, is in the table only     *)
(* while its deletion is queued: no sequence of replies, errors and events     *)
(* leaks one.                                                                  *)
THEOREM ClientsTracked == Spec => []TempNodeTracked
<1>1. ClientInv => TempNodeTracked
  BY DEF ClientInv
<1> QED
  BY <1>1, InitClients, NextClients, PTL DEF Spec

(* A known tag keeps its socket for good, unless it is a client's and the step *)
(* deletes it: whatever later requests, advertisements and replies say, the    *)
(* service keeps talking to the endpoint it first learned.                     *)
THEOREM TableStable == Spec => NeverRepointed
<1> DEFINE Step == \A t \in Tags \cup {NoTag} :
                     Known(t) => known_nodes'[t] \in {known_nodes[t]} \cup
                                    IF t \in TempTags THEN {Absent} ELSE {}
<1>1. ClientInv /\ [Next]_vars => Step
  <2> SUFFICES ASSUME ClientInv, [Next]_vars, NEW t \in Tags \cup {NoTag}, Known(t)
               PROVE  \/ known_nodes'[t] = known_nodes[t]
                      \/ t \in TempTags /\ known_nodes'[t] = Absent
    OBVIOUS
  <2>t. TypeOK /\ known_nodes \in [Tags \cup {NoTag} -> Endpoints \cup {NoEndpoint, Absent}]
        /\ event_queue \in Seq(Event) /\ OnlyClients(event_queue)
    BY DEF ClientInv, TypeOK, DeletesClients
  <2>1. CASE AddsEvents \/ TakesEvent
    BY <2>1 DEF AddsEvents, TakesEvent, Queues
  <2>2. CASE DeletesNode
    <3>1. known_nodes' = del_node(Head(event_queue).tag) /\ Head(event_queue).tag \in TempTags
      BY <2>2, <2>t, OnlyClientsTail DEF DeletesNode
    <3>2. del_node(Head(event_queue).tag)[t] =
             IF t = Head(event_queue).tag THEN Absent ELSE known_nodes[t]
      BY <2>t DEF del_node
    <3> QED
      BY <3>1, <3>2
  <2>3. CASE AddsOtherNode \/ AddsClient
    <3>1. PICK n \in QhmEndpoint : known_nodes' = add_node(n)
      BY <2>3 DEF AddsOtherNode, AddsClient, AddsNode
    <3>2. add_node(n)[t] = known_nodes[t]
      BY <2>t, AddNodeType DEF Known
    <3> QED
      BY <3>1, <3>2
  <2> QED
    BY <2>t, <2>1, <2>2, <2>3, StepEffects
<1>2. ClientInv /\ [Next]_vars => [Step]_vars
  BY <1>1
<1> QED
  BY <1>2, InitClients, NextClients, PTL DEF Spec, NeverRepointed
-----------------------------------------------------------------------------
(* The poll timeout. *)

(* TimeoutTracksQueue is not inductive: an empty queue met at the head of the  *)
(* loop must already have the long timeout, which the last event left behind.  *)
PollInv ==
    /\ TypeOK
    /\ pc \in {"head", "recv", "error", "commit"} =>
          (timeout = BACKLOG_TIMEOUT => event_queue # <<>>)
    /\ pc = "recv" => (event_queue # <<>> => timeout = BACKLOG_TIMEOUT)

LEMMA NextPoll == PollInv /\ [Next]_vars => PollInv'
<1> SUFFICES ASSUME PollInv, [Next]_vars PROVE PollInv'
  OBVIOUS
<1>t. TypeOK /\ TypeOK'
  BY NextType DEF PollInv
<1>q. event_queue \in Seq(Event) /\ pc \in {"head", "recv", "error", "commit", "finalize", "done", "crashed"}
      /\ timeout \in {SOCKET_TIMEOUT, BACKLOG_TIMEOUT}
  BY <1>t DEF TypeOK
<1> SUFFICES /\ pc' \in {"head", "recv", "error", "commit"} =>
                   (timeout' = BACKLOG_TIMEOUT => event_queue' # <<>>)
             /\ pc' = "recv" => (event_queue' # <<>> => timeout' = BACKLOG_TIMEOUT)
  BY <1>t DEF PollInv
<1> USE <1>q DEF PollInv
<1>a. After(CORE_OK) = "commit" /\ After(CORE_GENERIC_ERROR) = "error" /\ After(CORE_CONTINUE) = "head"
  BY DEF After
<1>1. CASE NoEvent
  BY <1>1 DEF NoEvent
<1>2. CASE RecvNothing \/ ErrorReply \/ ErrorDropped
  BY <1>2 DEF RecvNothing, ErrorReply, ErrorDropped
<1>3. CASE Finalize \/ Stopped \/ UNCHANGED vars
  BY <1>3 DEF Finalize, Stopped, vars
<1>4. CASE EventTerminate \/ EventUnhandled
  BY <1>4 DEF EventTerminate, EventUnhandled
<1>5. CASE EventDelete
  BY <1>5 DEF EventDelete, NextTimeout
<1>6. CASE \E evts \in Emissions : EventApp(evts)
  BY <1>6 DEF EventApp, NextTimeout
<1>7. CASE Commit
  <2>1. timeout' = timeout /\ pc = "commit" /\ pc' = "head"
    BY <1>7 DEF Commit
  <2>2. event_queue # <<>> => event_queue' # <<>>
    <3>1. CASE dest.tag \in TempTags
      <4>1. DeleteEvent(dest.tag) \in Event
        BY <3>1, TagAssumption DEF DeleteEvent, Event
      <4>2. event_queue' = Append(event_queue, DeleteEvent(dest.tag))
        BY <1>7, <3>1 DEF Commit, DeleteEvent
      <4> QED
        BY <4>1, <4>2, AppendProperties
    <3>2. CASE dest.tag \notin TempTags
      BY <1>7, <3>2 DEF Commit
    <3> QED
      BY <3>1, <3>2
  <2> QED
    BY <2>1, <2>2
<1>8. ASSUME NEW m \in Datagram, ProcessMessage(m)
      PROVE  /\ pc = "recv" /\ pc' \in {"head", "error", "commit"} /\ timeout' = timeout
             /\ event_queue # <<>> => event_queue' # <<>>
  <2> USE <1>a DEF ReturnStatus, ReplyTo
  <2>1. CASE \/ RejectUnparsable(m) \/ HandleUnknownType(m) \/ IgnoreResponse(m) \/ RejectAdvertise(m)
             \/ RouteNotFound(m)
    BY <2>1 DEF RejectUnparsable, HandleUnknownType, IgnoreResponse, RejectAdvertise, RouteNotFound, IsRouted
  <2>2. CASE HandleTerminate(m)
    <3>1. [type |-> SERVICE_TERMINATE, tag |-> NoTag] \in Event
      BY DEF Event
    <3> QED
      BY <2>2, <3>1, AppendProperties DEF HandleTerminate
  <2>3. CASE \E n \in Advertised : HandleAdvertise(m, n)
    BY <2>3 DEF HandleAdvertise, IsRouted
  <2>d. ASSUME NEW evts \in Emissions, Dispatch(evts)
        PROVE  event_queue # <<>> => event_queue' # <<>>
    BY <2>d, EmissionsAreEvents, ConcatEqualIffEmpty, ConcatProperties, EmptySeq, LenProperties DEF Dispatch
  <2>4. CASE \E evts \in Emissions : RouteAnswered(m, evts)
    BY <2>4, <2>d DEF RouteAnswered, IsRouted
  <2>5. CASE \E evts \in Emissions : RouteFailed(m, evts)
    BY <2>5, <2>d DEF RouteFailed, IsRouted
  <2>6. CASE \E evts \in Emissions, headers \in {{}, {"DST"}} : AppMessageAnswered(m, evts, headers)
    BY <2>6, <2>d DEF AppMessageAnswered
  <2>7. CASE \E evts \in Emissions, rv \in {CORE_GENERIC_ERROR, CORE_CONTINUE} :
                AppMessageUnanswered(m, evts, rv)
    BY <2>7, <2>d DEF AppMessageUnanswered
  <2> QED
    BY <1>8, <2>1, <2>2, <2>3, <2>4, <2>5, <2>6, <2>7 DEF ProcessMessage
<1>9. CASE \E m \in Datagram : ProcessMessage(m)
  BY <1>8, <1>9
<1> QED
  BY <1>1, <1>2, <1>3, <1>4, <1>5, <1>6, <1>7, <1>9 DEF Next, Silent, ProcessEvent

(* The loop blocks for 3 s exactly when no event is queued, whatever handlers  *)
(* dispatch and whatever arrives.                                              *)
THEOREM PollMatchesBacklog == Spec => []TimeoutTracksQueue
<1>1. Init => PollInv
  BY InitType DEF Init, LoopInit, PollInv
<1>2. PollInv => TimeoutTracksQueue
  BY DEF PollInv, TimeoutTracksQueue
<1> QED
  BY <1>1, <1>2, NextPoll, PTL DEF Spec
-----------------------------------------------------------------------------
(* Services whose handlers dispatch no events. *)

(* With one event a turn and at most one event a message, the queue is empty   *)
(* whenever a datagram is being handled, so (ClientInv) no client's node is in *)
(* the table then: error() finds none, and Commit makes a new socket.          *)
QuietInv ==
    /\ ClientInv
    /\ pc \in {"recv", "error", "commit"} => event_queue = <<>>
    /\ event_queue # <<>> => Tail(event_queue) = <<>>
    /\ pc = "commit" /\ dest.tag \in ClientTags => reply.status # 500
    /\ ClientReplyRouted

LEMMA QuietProcess ==
    ASSUME MaxEmit = 0, QuietInv, NEW m \in Datagram, ProcessMessage(m)
    PROVE  /\ pc = "recv"
           /\ \/ pc' = "head"
              \/ pc' \in {"error", "commit"} /\ event_queue' = event_queue
           /\ event_queue' # <<>> => Tail(event_queue') = <<>>
           /\ pc' = "commit" => reply'.status # 500
<1> USE DEF ReturnStatus, ReplyTo
<1>a. After(CORE_OK) = "commit" /\ After(CORE_GENERIC_ERROR) = "error" /\ After(CORE_CONTINUE) = "head"
  BY DEF After
<1>q. event_queue \in Seq(Event) /\ (event_queue # <<>> => Tail(event_queue) = <<>>)
      /\ (pc = "recv" => event_queue = <<>>)
  BY DEF QuietInv, ClientInv, TypeOK
<1>1. CASE RejectUnparsable(m) \/ HandleUnknownType(m) \/ IgnoreResponse(m) \/ RejectAdvertise(m)
  BY <1>a, <1>q, <1>1 DEF RejectUnparsable, HandleUnknownType, IgnoreResponse, RejectAdvertise, IsRouted
<1>2. CASE RouteNotFound(m)
  BY <1>a, <1>q, <1>2 DEF RouteNotFound, IsRouted
<1>3. CASE HandleTerminate(m)
  <2>1. pc = "recv" /\ pc' = "head"
        /\ event_queue' = Append(event_queue, [type |-> SERVICE_TERMINATE, tag |-> NoTag])
    BY <1>3, <1>a DEF HandleTerminate
  <2>2. event_queue = <<>>
    BY <2>1, <1>q
  <2>3. Tail(event_queue') = <<>>
    BY <2>1, <2>2
  <2> QED
    BY <2>1, <2>3
<1>4. CASE \E n \in Advertised : HandleAdvertise(m, n)
  BY <1>a, <1>q, <1>4 DEF HandleAdvertise, IsRouted
<1>d. ASSUME NEW evts \in Emissions, Dispatch(evts) PROVE event_queue' = event_queue
  BY <1>d, <1>q, EmissionsAreEvents, ConcatEmptySeq DEF Dispatch
<1>5. CASE \E evts \in Emissions : RouteAnswered(m, evts)
  BY <1>a, <1>d, <1>q, <1>5 DEF RouteAnswered, IsRouted
<1>6. CASE \E evts \in Emissions : RouteFailed(m, evts)
  BY <1>a, <1>d, <1>q, <1>6 DEF RouteFailed, IsRouted
<1>7. CASE \E evts \in Emissions, headers \in {{}, {"DST"}} : AppMessageAnswered(m, evts, headers)
  BY <1>a, <1>d, <1>q, <1>7 DEF AppMessageAnswered
<1>8. CASE \E evts \in Emissions, rv \in {CORE_GENERIC_ERROR, CORE_CONTINUE} :
              AppMessageUnanswered(m, evts, rv)
  BY <1>a, <1>d, <1>q, <1>8 DEF AppMessageUnanswered
<1> QED
  BY <1>1, <1>2, <1>3, <1>4, <1>5, <1>6, <1>7, <1>8 DEF ProcessMessage

LEMMA NextQuiet == MaxEmit = 0 /\ QuietInv /\ [Next]_vars => QuietInv'
<1> SUFFICES ASSUME MaxEmit = 0, QuietInv, [Next]_vars PROVE QuietInv'
  OBVIOUS
<1> DEFINE Kept == /\ pc' \in {"recv", "error", "commit"} => event_queue' = <<>>
                   /\ event_queue' # <<>> => Tail(event_queue') = <<>>
                   /\ pc' = "commit" /\ dest'.tag \in ClientTags => reply'.status # 500
<1>c. ClientInv' /\ TypeOK
  BY NextClients DEF QuietInv, ClientInv
<1>q. event_queue \in Seq(Event) /\ (event_queue # <<>> => Tail(event_queue) = <<>>)
      /\ (pc \in {"recv", "error", "commit"} => event_queue = <<>>)
      /\ (pc = "commit" /\ dest.tag \in ClientTags => reply.status # 500)
  BY <1>c DEF QuietInv, TypeOK
<1>k. event_queue = <<>> => \A t \in ClientTags : ~Known(t)
  <2> SUFFICES ASSUME event_queue = <<>>, NEW t \in ClientTags, Known(t) PROVE FALSE
    OBVIOUS
  <2>1. Queued(event_queue, DeleteEvent(t))
    BY DEF QuietInv, ClientInv, TempNodeTracked, Pending
  <2> QED
    BY <2>1, <1>q, QueuedTail
<1>1. Kept
  <2>1. CASE NoEvent \/ RecvNothing \/ ErrorDropped
    BY <2>1, <1>q DEF NoEvent, RecvNothing, ErrorDropped
  <2>2. CASE Finalize \/ Stopped \/ UNCHANGED vars
    BY <2>2, <1>q DEF Finalize, Stopped, vars
  <2>3. CASE EventTerminate \/ EventUnhandled
    BY <2>3, <1>q DEF EventTerminate, EventUnhandled
  <2>4. CASE EventDelete
    BY <2>4, <1>q DEF EventDelete
  <2>5. CASE \E evts \in Emissions : EventApp(evts)
    <3>1. PICK evts \in Emissions : EventApp(evts)
      BY <2>5
    <3>2. evts = <<>> /\ <<>> \in Seq(Event)
      BY EmissionsAreEvents
    <3>3. event_queue' = Tail(event_queue) \o evts /\ event_queue # <<>> /\ pc' = "recv"
      BY <3>1 DEF EventApp
    <3>4. event_queue' = <<>>
      BY <3>2, <3>3, <1>q, ConcatEmptySeq
    <3> QED
      BY <3>3, <3>4
  <2>6. CASE ErrorReply
    <3>1. Known(dest.tag) /\ pc = "error" /\ pc' = "commit" /\ dest' = dest /\ event_queue' = event_queue
      BY <2>6 DEF ErrorReply
    <3>2. dest.tag \notin ClientTags
      BY <3>1, <1>q, <1>k
    <3> QED
      BY <3>1, <3>2, <1>q
  <2>7. CASE Commit
    <3>1. pc = "commit" /\ pc' = "head" /\ event_queue = <<>>
      BY <2>7, <1>q DEF Commit
    <3>2. event_queue' = <<>> \/ event_queue' = Append(event_queue, DeleteEvent(dest.tag))
      BY <2>7, <3>1 DEF Commit, DeleteEvent
    <3>3. event_queue' # <<>> => Tail(event_queue') = <<>>
      <4>1. ASSUME event_queue' = Append(event_queue, DeleteEvent(dest.tag)) PROVE Tail(event_queue') = <<>>
        BY <3>1, <4>1 DEF DeleteEvent
      <4> QED
        BY <3>2, <4>1
    <3> QED
      BY <3>1, <3>3
  <2>8. CASE \E m \in Datagram : ProcessMessage(m)
    <3>1. pc = "recv" /\ (pc' = "head" \/ (pc' \in {"error", "commit"} /\ event_queue' = event_queue))
          /\ (event_queue' # <<>> => Tail(event_queue') = <<>>)
          /\ (pc' = "commit" => reply'.status # 500)
      BY <2>8, QuietProcess
    <3> QED
      BY <3>1, <1>q
  <2> QED
    BY <2>1, <2>2, <2>3, <2>4, <2>5, <2>6, <2>7, <2>8 DEF Next, Silent, ProcessEvent
<1>2. ClientReplyRouted'
  <2>1. CASE sent' = Nothing
    BY <2>1 DEF ClientReplyRouted
  <2>2. CASE UNCHANGED vars
    BY <2>2 DEF QuietInv, ClientReplyRouted, NewSocket, vars
  <2>3. CASE Commit
    <3> SUFFICES ASSUME dest.tag \in ClientTags
                 PROVE  sent'.to = NewSocket(sent'.for) /\ sent'.reply.status # 500
      BY <2>3 DEF Commit, ClientReplyRouted, NewSocket
    <3>1. pc = "commit" /\ sent' = [to |-> add_node(dest)[dest.tag], for |-> dest, reply |-> reply]
      BY <2>3 DEF Commit
    <3>2. ~Known(dest.tag) /\ reply.status # 500
      BY <3>1, <1>q, <1>k
    <3>3. add_node(dest)[dest.tag] = NewSocket(dest)
      BY <3>2, <1>c, AddNodeType DEF TypeOK
    <3> QED
      BY <3>1, <3>2, <3>3
  <2> QED
    BY <2>1, <2>2, <2>3 DEF Next, Silent
<1> QED
  BY <1>c, <1>1, <1>2 DEF QuietInv

LEMMA QuietAlways == MaxEmit = 0 => (Spec => []QuietInv)
<1> SUFFICES ASSUME MaxEmit = 0 PROVE Spec => []QuietInv
  OBVIOUS
<1>1. Init => QuietInv
  BY InitClients DEF Init, LoopInit, QuietInv, ClientReplyRouted
<1>2. QuietInv /\ [Next]_vars => QuietInv'
  BY NextQuiet
<1> QED
  BY <1>1, <1>2, PTL DEF Spec

(* As long as no handler dispatches events, every client whose tag nobody      *)
(* advertises gets its reply at the address its own request carried, never     *)
(* another request's 500.                                                      *)
THEOREM QuietService == MaxEmit = 0 => (Spec => []ClientReplyRouted)
<1> SUFFICES ASSUME MaxEmit = 0 PROVE Spec => []ClientReplyRouted
  OBVIOUS
<1>1. QuietInv => ClientReplyRouted
  BY DEF QuietInv
<1> QED
  BY <1>1, QuietAlways, PTL

(* And the loop reads no datagram while an event (a terminate, say) waits.     *)
THEOREM QuietQueue == MaxEmit = 0 => (Spec => []NoBacklog)
<1> SUFFICES ASSUME MaxEmit = 0 PROVE Spec => []NoBacklog
  OBVIOUS
<1>1. QuietInv => NoBacklog
  BY DEF QuietInv, NoBacklog
<1> QED
  BY <1>1, QuietAlways, PTL
-----------------------------------------------------------------------------
(* A Messenger whose handlers dispatch no events is a service as SyncRequest   *)
(* has it, for any number of callers, tags, ports and calls.                   *)

USE DEF SR!HTTP_STATUS_OK, SR!HTTP_STATUS_NOT_FOUND, SR!HTTP_STATUS_REQUEST_TIMEOUT,
        SR!HTTP_STATUS_SERVICE_UNAVAILABLE, SR!Answers,
        CORE_OK, CORE_GENERIC_ERROR, CORE_CONTINUE

(* The callers' side, as far as the service depends on it: what travels to it  *)
(* are requests.                                                               *)
CallersInv ==
    /\ requests \subseteq SR!Request
    /\ call \in [Clients -> Nat]
    /\ calls \in Nat
    /\ cpc \in [Clients -> {"idle", "bound", "wait", "crashed"}]
    /\ port \in [Clients -> Endpoints \cup {NoPort}]
    /\ \A c \in Clients : cpc[c] \in {"bound", "wait"} => port[c] \in Endpoints

(* The reply in hand is the answer to the request in hand.                     *)
ReplyInv ==
    /\ pc = "commit" => /\ inhand \in SR!Request
                        /\ dest = Received(inhand, "service").src
                        /\ reply.status \in SR!Answers
    /\ dest.tag \in ClientTags \cup {NoTag}
    /\ ~Known(NoTag)

SysInv == QuietInv /\ CallersInv /\ ReplyInv

LEMMA CallersStep ==
    ASSUME CallersInv, SR!ClientNext \/ SR!Network
    PROVE  CallersInv'
<1> USE DEF CallersInv, SR!Request, SR!traffic, SR!callers
<1>1. ASSUME NEW c \in Clients, SR!NoPortFound(c) PROVE CallersInv'
  BY <1>1 DEF SR!NoPortFound
<1>2. ASSUME NEW c \in Clients, NEW p \in Endpoints, SR!Bind(c, p) PROVE CallersInv'
  BY <1>2 DEF SR!Bind
<1>3. ASSUME NEW c \in Clients, SR!RefuseRequest(c) PROVE CallersInv'
  BY <1>3 DEF SR!RefuseRequest, SR!Return
<1>4. ASSUME NEW c \in Clients, SR!AbortRequest(c) PROVE CallersInv'
  BY <1>4 DEF SR!AbortRequest, SR!Crash
<1>5. ASSUME NEW c \in Clients, SR!SendRequest(c) PROVE CallersInv'
  BY <1>5 DEF SR!SendRequest, SR!RequestOf
<1>6. ASSUME NEW c \in Clients, SR!SendNowhere(c) PROVE CallersInv'
  BY <1>6 DEF SR!SendNowhere
<1>7. ASSUME NEW c \in Clients, SR!SendAsync(c) PROVE CallersInv'
  BY <1>7 DEF SR!SendAsync, SR!RequestOf, SR!Return
<1>8. ASSUME NEW c \in Clients, SR!RequestTimeout(c) PROVE CallersInv'
  BY <1>8 DEF SR!RequestTimeout, SR!Return
<1>9. ASSUME NEW c \in Clients, SR!ReceiveCrash(c) PROVE CallersInv'
  BY <1>9 DEF SR!ReceiveCrash, SR!Crash
<1>10. ASSUME NEW c \in Clients, NEW r \in replies, SR!ReceiveResponse(c, r) PROVE CallersInv'
  BY <1>10 DEF SR!ReceiveResponse, SR!Return
<1>11. CASE SR!Network
  BY <1>11 DEF SR!Network, SR!LoseRequest, SR!LoseResponse
<1>12. QED
  BY <1>1, <1>2, <1>3, <1>4, <1>5, <1>6, <1>7, <1>8, <1>9, <1>10, <1>11
  DEF SR!ClientNext, SR!Call, SR!Proceed

LEMMA ReceivedMessage ==
    ASSUME NEW d \in SR!Request, NEW path \in {"service", "unknown"}
    PROVE  /\ Received(d, path) \in Datagram
           /\ Received(d, path).src = Received(d, "service").src
           /\ Received(d, path).src.tag \in ClientTags
<1>1. HostTag[d.from] \in ClientTags /\ d.port \in Endpoints
  BY HostAssumption DEF SR!Request
<1>2. [tag |-> HostTag[d.from], endpoint |-> d.port] \in QhmEndpoint
  BY <1>1, TagAssumption, ClientsAreTemp DEF QhmEndpoint
<1>3. QED
  BY <1>1, <1>2 DEF Received, Datagram

(* A request of a caller is answered, or it is not; the table stays as it is.  *)
LEMMA Handled ==
    ASSUME NEW m, m.form = "request", m.app = NoApp, m.path \in {"service", "unknown"},
           ProcessMessage(m)
    PROVE  /\ pc = "recv"
           /\ known_nodes' = known_nodes
           /\ \/ pc' = "commit" /\ dest' = m.src /\ reply'.status \in SR!Answers
              \/ pc' # "commit" /\ dest' = dest
<1>a. After(CORE_OK) = "commit" /\ After(CORE_GENERIC_ERROR) = "error" /\ After(CORE_CONTINUE) = "head"
  BY DEF After
<1> USE DEF ReturnStatus, ReplyTo, IsRouted
<1>1. CASE RejectUnparsable(m)
  BY <1>1, <1>a DEF RejectUnparsable
<1>2. CASE RouteNotFound(m)
  BY <1>2, <1>a DEF RouteNotFound
<1>3. ASSUME NEW evts \in Emissions, RouteAnswered(m, evts)
      PROVE  pc = "recv" /\ known_nodes' = known_nodes
             /\ pc' = "commit" /\ dest' = m.src /\ reply'.status \in SR!Answers
  BY <1>3, <1>a DEF RouteAnswered
<1>4. ASSUME NEW evts \in Emissions, RouteFailed(m, evts)
      PROVE  pc = "recv" /\ known_nodes' = known_nodes /\ pc' # "commit" /\ dest' = dest
  BY <1>4, <1>a DEF RouteFailed
<1>5. QED
  BY <1>1, <1>2, <1>3, <1>4, HandlerAssumption
  DEF ProcessMessage, HandleTerminate, HandleUnknownType, AppMessageAnswered,
      AppMessageUnanswered, IgnoreResponse, HandleAdvertise, RejectAdvertise
-----------------------------------------------------------------------------
(* Every step of the system is a step of the Messenger or leaves it alone.     *)
LEMMA MessengerStep ==
    ASSUME SysInv, [SysNext]_sysVars
    PROVE  [Next]_vars
<1>1. ASSUME NEW d \in requests, NEW path \in {"service", "unknown"}, ReceiveRequest(d, path)
      PROVE  Next
  <2>1. Received(d, path) \in Datagram
    BY ReceivedMessage DEF SysInv, CallersInv
  <2>2. QED
    BY <1>1, <2>1 DEF ReceiveRequest, Next, Silent
<1>2. CASE ReceiveKill
  <2>1. KillMessage \in Datagram
    BY NodesAreEndpoints DEF KillMessage, Datagram
  <2>2. QED
    BY <1>2, <2>1 DEF ReceiveKill, Next, Silent, ProcessMessage
<1>3. CASE Turn
  BY <1>3 DEF Turn, Next, Silent
<1>4. CASE SendReply
  BY <1>4 DEF SendReply, Next
<1>5. CASE ClientsNext \/ Kill \/ UNCHANGED sysVars
  BY <1>5 DEF ClientsNext, Kill, sysVars
<1>6. QED
  BY <1>1, <1>2, <1>3, <1>4, <1>5 DEF SysNext, ServiceNext

(* While a message is handled no client is known, so error() sends nothing,    *)
(* and a reply goes out on a new socket, to the address in its DST header.     *)
LEMMA NoClientKnown ==
    ASSUME SysInv, pc \in {"recv", "error", "commit"}
    PROVE  ~Known(dest.tag)
<1>1. event_queue = <<>> /\ event_queue \in Seq(Event)
  BY DEF SysInv, QuietInv, ClientInv, TypeOK
<1>2. ASSUME NEW t \in ClientTags, Known(t) PROVE FALSE
  <2>1. Queued(event_queue, DeleteEvent(t))
    BY <1>2 DEF SysInv, QuietInv, ClientInv, TempNodeTracked, Pending
  <2>2. QED
    BY <2>1, <1>1, QueuedTail
<1>3. QED
  BY <1>2 DEF SysInv, ReplyInv

LEMMA TurnEffect ==
    ASSUME SysInv, Turn
    PROVE  /\ pc # "commit" /\ pc' # "commit" /\ dest' = dest
           /\ ~Known(NoTag) => known_nodes'[NoTag] = Absent
<1>1. ~ErrorReply
  BY NoClientKnown DEF ErrorReply
<1>2. CASE EventDelete
  BY <1>2, TagAssumption DEF EventDelete, del_node, Known, SysInv, QuietInv, ClientInv, TypeOK
<1>3. CASE \E evts \in Emissions : EventApp(evts)
  BY <1>3 DEF EventApp, Known
<1>4. CASE NoEvent \/ EventTerminate \/ EventUnhandled \/ RecvNothing \/ ErrorDropped
  BY <1>4 DEF NoEvent, EventTerminate, EventUnhandled, RecvNothing, ErrorDropped, Known
<1>5. CASE Finalize \/ Stopped
  BY <1>5 DEF Finalize, Stopped, Known
<1>6. QED
  BY <1>1, <1>2, <1>3, <1>4, <1>5 DEF Turn, ProcessEvent

LEMMA SendReplyEffect ==
    ASSUME SysInv, SendReply
    PROVE  /\ pc = "commit" /\ pc' = "head" /\ dest' = dest
           /\ inhand \in SR!Request /\ reply.status \in SR!Answers
           /\ sent'.to \in {inhand.port, NoEndpoint}
           /\ sent'.reply.status = reply.status
           /\ ~Known(NoTag) => known_nodes'[NoTag] = Absent
<1>1. pc = "commit" /\ pc' = "head" /\ dest' = dest /\ known_nodes' = add_node(dest)
      /\ sent' = [to |-> add_node(dest)[dest.tag], for |-> dest, reply |-> reply]
  BY DEF SendReply, Commit
<1>2. inhand \in SR!Request /\ reply.status \in SR!Answers /\ dest = Received(inhand, "service").src
  BY <1>1 DEF SysInv, ReplyInv
<1>3. dest \in QhmEndpoint /\ dest.tag \in ClientTags /\ dest.tag # NoTag /\ dest.endpoint = inhand.port
  <2>1. dest \in QhmEndpoint
    BY DEF SysInv, QuietInv, ClientInv, TypeOK
  <2>2. dest.tag \in ClientTags /\ dest.tag # NoTag
    BY <1>2, ReceivedMessage, TagAssumption, ClientsAreTemp
  <2>3. dest.endpoint = inhand.port
    BY <1>2 DEF Received
  <2>4. QED
    BY <2>1, <2>2, <2>3
<1>4. TypeOK /\ ~Known(dest.tag)
  BY <1>1, NoClientKnown DEF SysInv, QuietInv, ClientInv
<1>5. add_node(dest)[dest.tag] = NewSocket(dest) /\ add_node(dest)[NoTag] = known_nodes[NoTag]
  BY <1>3, <1>4, AddNodeType
<1>6. NewSocket(dest) \in {inhand.port, NoEndpoint}
  BY <1>3 DEF NewSocket
<1>7. QED
  BY <1>1, <1>2, <1>5, <1>6 DEF Known
-----------------------------------------------------------------------------
LEMMA SysStep ==
    ASSUME MaxEmit = 0, SysInv, [SysNext]_sysVars
    PROVE  SysInv'
<1>1. QuietInv'
  BY MessengerStep, NextQuiet DEF SysInv
<1> SUFFICES CallersInv' /\ ReplyInv'
  BY <1>1 DEF SysInv
<1>2. ASSUME NEW d \in requests, NEW path \in {"service", "unknown"}, ReceiveRequest(d, path)
      PROVE  CallersInv' /\ ReplyInv'
  <2>1. d \in SR!Request
    BY DEF SysInv, CallersInv
  <2>2. /\ known_nodes' = known_nodes /\ inhand' = d
        /\ \/ pc' = "commit" /\ dest' = Received(d, path).src /\ reply'.status \in SR!Answers
           \/ pc' # "commit" /\ dest' = dest
    BY <1>2, Handled DEF ReceiveRequest, Received
  <2>3. Received(d, path).src = Received(d, "service").src /\ Received(d, path).src.tag \in ClientTags
    BY <2>1, ReceivedMessage
  <2>4. ReplyInv'
    BY <2>1, <2>2, <2>3 DEF SysInv, ReplyInv, Received, Known
  <2>5. CallersInv'
    BY <1>2 DEF ReceiveRequest, callers, SysInv, CallersInv
  <2>6. QED
    BY <2>4, <2>5
<1>3. CASE ReceiveKill
  <2>1. pc' # "commit" /\ UNCHANGED <<dest, known_nodes, callers, requests>>
    BY <1>3 DEF ReceiveKill, HandleTerminate, ReturnStatus, After
  <2>2. QED
    BY <2>1 DEF SysInv, CallersInv, ReplyInv, callers, Known
<1>4. CASE Turn
  <2>1. UNCHANGED <<callers, requests>>
    BY <1>4 DEF Turn
  <2>2. QED
    BY <1>4, <2>1, TurnEffect DEF SysInv, CallersInv, ReplyInv, callers, Known
<1>5. CASE SendReply
  <2>1. UNCHANGED <<callers, requests>>
    BY <1>5 DEF SendReply
  <2>2. QED
    BY <1>5, <2>1, SendReplyEffect DEF SysInv, CallersInv, ReplyInv, callers, Known
<1>6. CASE ClientsNext
  <2>1. CallersInv'
    BY <1>6, CallersStep DEF ClientsNext, SysInv
  <2>2. QED
    BY <1>6, <2>1 DEF ClientsNext, vars, SysInv, ReplyInv, Received, Known
<1>7. CASE Kill \/ UNCHANGED sysVars
  BY <1>7 DEF Kill, sysVars, vars, callers, SysInv, CallersInv, ReplyInv, Received, Known
<1>8. QED
  BY <1>2, <1>3, <1>4, <1>5, <1>6, <1>7 DEF SysNext, ServiceNext

LEMMA SysInitInv == SysInit => SysInv
<1> SUFFICES ASSUME SysInit PROVE SysInv
  OBVIOUS
<1>1. QuietInv
  BY InitClients DEF SysInit, CallersInit, Init, LoopInit, QuietInv, ClientReplyRouted
<1>2. CallersInv
  BY DEF SysInit, CallersInit, SR!Init, CallersInv
<1>3. ReplyInv
  BY DEF SysInit, CallersInit, Init, LoopInit, ReplyInv, NullNode, Known
<1>4. QED
  BY <1>1, <1>2, <1>3 DEF SysInv

(* The refinement, step by step. *)
LEMMA StepImplements ==
    ASSUME SysInv, SysInv', [SysNext]_sysVars
    PROVE  [SR!Next]_(SR!vars)
<1> USE DEF SR!vars, SR!callers, SR!traffic, callers
<1>1. ASSUME NEW d \in requests, NEW path \in {"service", "unknown"}, ReceiveRequest(d, path)
      PROVE  SR!AcceptRequest(d) \/ SR!LoseRequest(d) \/ UNCHANGED SR!vars
  <2>1. pc = "recv"
    BY <1>1, Handled DEF ReceiveRequest, Received
  <2>2. UNCHANGED <<callers, replies>> /\ requests' \in {requests, requests \ {d}} /\ inhand' = d
    BY <1>1 DEF ReceiveRequest
  <2>3. QED
    BY <2>1, <2>2 DEF Serving, SR!AcceptRequest, SR!LoseRequest
<1>2. CASE ReceiveKill
  <2>1. pc = "recv" /\ pc' # "commit" /\ UNCHANGED <<callers, requests, replies>>
    BY <1>2 DEF ReceiveKill, HandleTerminate, ReturnStatus, After
  <2>2. QED
    BY <2>1 DEF Serving
<1>3. CASE Turn
  <2>1. UNCHANGED <<callers, requests, replies>>
    BY <1>3 DEF Turn
  <2>2. QED
    BY <1>3, <2>1, TurnEffect DEF Serving
<1>4. CASE SendReply
  <2>1. UNCHANGED <<callers, requests>>
        /\ replies' = IF sent'.to = NoEndpoint THEN replies
                      ELSE replies \cup {[id |-> inhand.id, port |-> sent'.to,
                                          status |-> sent'.reply.status]}
    BY <1>4 DEF SendReply
  <2>2. Serving = {inhand} /\ Serving' = {}
    BY <1>4, SendReplyEffect DEF Serving
  <2>3. SR!DropRequest(inhand) \/ SR!AnswerRequest(inhand, reply.status)
    BY <1>4, <2>1, <2>2, SendReplyEffect DEF SR!DropRequest, SR!AnswerRequest
  <2>4. QED
    BY <1>4, <2>2, <2>3, SendReplyEffect DEF SR!Next, SR!Service
<1>5. CASE ClientsNext
  BY <1>5 DEF ClientsNext, SR!Next
<1>6. CASE Kill \/ UNCHANGED sysVars
  BY <1>6 DEF Kill, sysVars, vars, Serving
<1>7. QED
  BY <1>1, <1>2, <1>3, <1>4, <1>5, <1>6
  DEF SysNext, ServiceNext, SR!Next, SR!Service, SR!Network

(* Every behaviour of callers, network and Messenger is one of SyncRequest:    *)
(* a Messenger whose handlers dispatch no events answers only what it was      *)
(* asked, at the port that was named, with the status of the route.            *)
THEOREM QuietServiceImplements ==
    ASSUME MaxEmit = 0
    PROVE  SysSpec => Implements
<1>1. SysInit => SysInv
  BY SysInitInv
<1>2. SysInv /\ [SysNext]_sysVars => SysInv'
  BY SysStep
<1>3. SysInit => SR!Init
  BY DEF SysInit, CallersInit, Init, LoopInit, SR!Init, Serving
<1>4. SysInv /\ SysInv' /\ [SysNext]_sysVars => [SR!Next]_(SR!vars)
  BY StepImplements
<1>5. QED
  BY <1>1, <1>2, <1>3, <1>4, PTL DEF SysSpec, Implements, SR!Spec

(* What draws were does not matter here: OwnAnswers is about constants.        *)
Callers == INSTANCE SyncRequestProofs
              WITH Ports <- Endpoints, serving <- Serving, draws <- "any"

(* SR and Callers are the same specification, instantiated from the module and *)
(* from its proofs: the definitions agree one by one.                          *)
LEMMA SameCallers == SR!Spec => Callers!Spec
<1>1. SR!Init <=> Callers!Init
  BY DEF SR!Init, Callers!Init, SR!Status, Callers!Status
<1>2. SR!ClientNext <=> Callers!ClientNext
  BY DEF SR!ClientNext, Callers!ClientNext, SR!Call, Callers!Call, SR!Proceed,
         Callers!Proceed, SR!NoPortFound, Callers!NoPortFound, SR!Bind, Callers!Bind,
         SR!ServerBinds, Callers!ServerBinds, SR!ServerThrows, Callers!ServerThrows,
         SR!Travelling, Callers!Travelling, SR!RefuseRequest, Callers!RefuseRequest,
         SR!AbortRequest, Callers!AbortRequest, SR!SendRequest, Callers!SendRequest,
         SR!SendNowhere, Callers!SendNowhere, SR!SendAsync, Callers!SendAsync,
         SR!RequestOf, Callers!RequestOf, SR!RequestTimeout, Callers!RequestTimeout,
         SR!ReceiveCrash, Callers!ReceiveCrash, SR!ReceiveResponse,
         Callers!ReceiveResponse, SR!CanRead, Callers!CanRead, SR!Holds, Callers!Holds,
         SR!Return, Callers!Return, SR!Released, Callers!Released, SR!Crash,
         Callers!Crash, SR!callers, Callers!callers, SR!traffic, Callers!traffic,
         SR!Status, Callers!Status, SR!HTTP_STATUS_OK, Callers!HTTP_STATUS_OK,
         SR!HTTP_STATUS_NOT_FOUND, Callers!HTTP_STATUS_NOT_FOUND,
         SR!HTTP_STATUS_REQUEST_TIMEOUT, Callers!HTTP_STATUS_REQUEST_TIMEOUT,
         SR!HTTP_STATUS_SERVICE_UNAVAILABLE, Callers!HTTP_STATUS_SERVICE_UNAVAILABLE
<1>3. SR!Next <=> Callers!Next
  BY <1>2 DEF SR!Next, Callers!Next, SR!Network, Callers!Network, SR!LoseRequest,
              Callers!LoseRequest, SR!LoseResponse, Callers!LoseResponse, SR!Service,
              Callers!Service, SR!AcceptRequest, Callers!AcceptRequest, SR!AnswerRequest,
              Callers!AnswerRequest, SR!DropRequest, Callers!DropRequest, SR!Finished,
              Callers!Finished, SR!Answers, Callers!Answers, SR!callers, Callers!callers,
              SR!traffic, Callers!traffic, SR!vars, Callers!vars, SR!HTTP_STATUS_OK,
              Callers!HTTP_STATUS_OK, SR!HTTP_STATUS_NOT_FOUND,
              Callers!HTTP_STATUS_NOT_FOUND
<1>4. [SR!Next]_(SR!vars) => [Callers!Next]_(Callers!vars)
  BY <1>3 DEF SR!vars, Callers!vars, SR!callers, Callers!callers, SR!traffic, Callers!traffic
<1>5. QED
  BY <1>1, <1>4, PTL DEF SR!Spec, Callers!Spec

(* End to end: with such a service, and callers who bind the ports they draw   *)
(* (no bind fails, on a port in use or on a free one) and draw none that a     *)
(* datagram names, every response a caller gets answers the request it made,   *)
(* although its datagrams carry no identifier and the service routes by a tag  *)
(* that callers share.                                                         *)
THEOREM CallersGetOwnAnswers ==
    ASSUME MaxEmit = 0, ~MayCollide, ~MayFail, ~MayReuse
    PROVE  SysSpec => []CallersAnswered
<1>1. Callers!Spec => []Callers!AnswersOwnRequest
  BY Callers!OwnAnswers, CallerAssumption
<1>2. Callers!AnswersOwnRequest => CallersAnswered
  BY DEF Callers!AnswersOwnRequest, CallersAnswered, SR!AnswersOwnRequest, Callers!Answers,
         Callers!HTTP_STATUS_OK, Callers!HTTP_STATUS_NOT_FOUND
<1>3. QED
  BY <1>1, <1>2, QuietServiceImplements, SameCallers, PTL DEF Implements

-----------------------------------------------------------------------------
(* Relay.  It gives up no earlier than its caller while its nested calls wait *)
(* their time, and every caller gets its own answer while no request meets    *)
(* the node of another client, for any number of callers, calls, hosts and    *)
(* ticks.  RelayInv says what the relay knows of the callers' ports and time; *)
(* LastInv, which rests on it, says which 408 is under way to whom; OwnInv    *)
(* and AloneInv, which do too, whose answer each reply is.                    *)
HIDE DEF SERVICE_TERMINATE, DELETE_NODE, CORE_GENERIC_ERROR, CORE_OK, CORE_CONTINUE,
         SOCKET_TIMEOUT, BACKLOG_TIMEOUT, SR!HTTP_STATUS_NOT_FOUND, SR!HTTP_STATUS_SERVICE_UNAVAILABLE

(* A request names its caller, which its tag comes from, and its port. *)
FromCaller(d) == d.from \in Clients /\ d.port \in Endpoints

(* What the argument needs of the types. *)
Types ==
    /\ calls \in 0 .. MaxCalls
    /\ cpc \in [Clients -> {"idle", "bound", "wait", "crashed"}]
    /\ port \in [Clients -> Endpoints \cup {NoPort}]
    /\ owner \in [Endpoints -> Clients \cup {NoClient}]
    /\ timer \in [Clients -> 0 .. TIMEOUT]
    /\ nested \in [ask : Nat, left : 0 .. TIMEOUT]
    /\ served \in Nat
    /\ \A d \in requests : FromCaller(d)
    /\ \A r \in replies : r.port \in Endpoints
    /\ known_nodes \in [Tags \cup {NoTag} -> Endpoints \cup {NoEndpoint, Absent}]
    /\ dest \in QhmEndpoint

(* A running call, and no other, holds its port, which nobody had before. *)
Holding ==
    /\ \A c \in Clients : SR!Active(c) => port[c] \in 1 .. calls /\ owner[port[c]] = c
    /\ \A p \in Endpoints, c \in Clients : owner[p] = c => SR!Active(c) /\ port[c] = p

(* The ports that the relay may answer at. *)
Used == {inhand.port, dest.endpoint} \cup {known_nodes[t] : t \in TempTags}

(* No datagram names the port, and the relay has not heard of it. *)
Fresh(p) ==
    /\ p \notin Used
    /\ \A d \in requests : d.port # p
    /\ \A r \in replies : r.port # p

(* Nobody knows the port of a call that has not sent its request. *)
Unsent ==
    /\ \A p \in calls + 1 .. MaxCalls : Fresh(p)
    /\ \A c \in Clients : cpc[c] = "bound" => Fresh(port[c])

(* A caller with more time left than that is none that the relay may answer. *)
Outlasts(left) == \A c \in Clients : cpc[c] = "wait" /\ timer[c] > left => port[c] \notin Used

NestedInv == Waiting => pc = "recv" /\ FromCaller(inhand) /\ Outlasts(nested.left)

GivingUp == pc = "commit" /\ reply.status = 200 /\ verdict.status = 408

VerdictInv == GivingUp => Outlasts(0)

(* Every reply is for a caller, and only a nested call makes it a 408. *)
Replying ==
    /\ dest.tag \in TempTags \cup {NoTag}
    /\ ~Known(NoTag)
    /\ pc = "commit" => dest.tag \in TempTags /\ reply.status # 408

RelayInv == Types /\ Holding /\ Unsent /\ NestedInv /\ Replying

LastInv == VerdictInv /\ GivesUpLast

(* A step keeps both, if it gives no nested call up early. *)
Prompt == GivesUpEarly \/ (LastInv => LastInv')

LEMMA RelayInitInv == RelayInit => RelayInv /\ LastInv
<1> SUFFICES ASSUME RelayInit PROVE RelayInv /\ LastInv
  OBVIOUS
<1> USE DEF RelayInit, LoopInit, CallersInit, SR!Init
<1>1. known_nodes \in [Tags \cup {NoTag} -> {Absent, TimeEndpoint}]
      /\ \A t \in TempTags : known_nodes[t] = Absent
  BY TagAssumption, TimeServiceAssumption DEF Known
<1>2. Types
  BY <1>1, RelayAssumption, CallerAssumption, TimeServiceAssumption, EndpointAssumption
  DEF Types, NoCall, NullNode, QhmEndpoint
<1>3. Holding
  BY CallerAssumption DEF Holding, SR!Active
<1>4. Used \subseteq {NoPort, NoEndpoint, Absent}
  BY <1>1 DEF Used, NoRequest, NullNode
<1>5. Unsent
  <2>1. ASSUME NEW p \in 1 .. MaxCalls PROVE Fresh(p)
    BY <1>4, RelayAssumption, CallerAssumption, EndpointAssumption DEF Fresh
  <2>2. QED
    BY <2>1 DEF Unsent
<1>6. NestedInv /\ VerdictInv /\ GivesUpLast
  BY DEF NestedInv, VerdictInv, GivingUp, GivesUpLast, Waiting
<1>7. Replying
  BY TimeServiceAssumption, TagAssumption DEF Replying, NullNode
<1>8. QED
  BY <1>2, <1>3, <1>5, <1>6, <1>7 DEF RelayInv, LastInv

LEMMA PortsExist ==
    ASSUME RelayInv
    PROVE  /\ \A p \in calls + 1 .. MaxCalls : p \in Endpoints
           /\ \A c \in Clients : cpc[c] = "bound" => port[c] \in Endpoints
<1>1. calls \in 0 .. MaxCalls /\ MaxCalls \in Nat /\ 1 .. MaxCalls \subseteq Endpoints
  BY CallerAssumption, RelayAssumption DEF RelayInv, Types
<1>2. \A p \in calls + 1 .. MaxCalls : p \in 1 .. MaxCalls
  BY <1>1
<1>3. \A c \in Clients : cpc[c] = "bound" => port[c] \in 1 .. calls
  BY DEF RelayInv, Holding, SR!Active
<1>4. QED
  BY <1>1, <1>2, <1>3

(* When the relay hears of no port, a fresh one stays fresh. *)
LEMMA FreshKept ==
    ASSUME Used' \subseteq Used \cup {Absent, NoEndpoint} \cup {d.port : d \in requests},
           requests' \subseteq requests, \A r \in replies' : r \in replies \/ r.port \in Used,
           NEW p \in Endpoints, Fresh(p)
    PROVE  Fresh(p)'
BY EndpointAssumption DEF Fresh
-----------------------------------------------------------------------------
(* The callers. *)

LEMMA Binds ==
    ASSUME RelayInv, NEW c \in Clients, ClientBinds(c),
           UNCHANGED <<vars, inhand, killed, relay, times>>
    PROVE  RelayInv' /\ Prompt
<1>1. /\ cpc[c] = "idle" /\ calls < MaxCalls /\ calls' = calls + 1
      /\ port' = [port EXCEPT ![c] = calls + 1]
      /\ cpc' = [cpc EXCEPT ![c] = "bound"]
      /\ \/ owner[calls + 1] = NoClient /\ owner' = [owner EXCEPT ![calls + 1] = c]
         \/ owner[calls + 1] # NoClient /\ owner' = owner
      /\ UNCHANGED <<requests, replies, timer>>
  BY RelayAssumption DEF ClientBinds, SR!Bind, SR!ServerBinds, SR!ServerThrows, SR!traffic
<1> USE DEF RelayInv
<1>2. calls \in 0 .. MaxCalls /\ MaxCalls \in Nat /\ calls + 1 \in 1 .. MaxCalls /\ calls + 1 \in Endpoints
  BY <1>1, CallerAssumption, RelayAssumption DEF Types
<1>3. owner[calls + 1] = NoClient
  BY <1>2 DEF Types, Holding
<1>4. owner' = [owner EXCEPT ![calls + 1] = c]
  BY <1>1, <1>3
<1>5. Used' = Used /\ \A p : Fresh(p)' <=> Fresh(p)
  BY <1>1 DEF vars, Used, Fresh
<1>6. Types'
  BY <1>1, <1>2, <1>4 DEF Types, vars, relay
<1>7. Holding'
  <2>1. \A a \in Clients : a # c => port'[a] = port[a] /\ (SR!Active(a)' <=> SR!Active(a))
    BY <1>1 DEF SR!Active, Types
  <2>2. port'[c] = calls + 1 /\ SR!Active(c)' /\ ~SR!Active(c)
    BY <1>1 DEF SR!Active, Types
  <2>3. \A p \in Endpoints : owner'[p] = IF p = calls + 1 THEN c ELSE owner[p]
    BY <1>2, <1>4 DEF Types
  <2>4. ASSUME NEW a \in Clients, SR!Active(a)'
        PROVE  port'[a] \in 1 .. calls' /\ owner'[port'[a]] = a
    <3>1. CASE a = c
      BY <1>1, <1>2, <2>2, <2>3, <3>1
    <3>2. CASE a # c
      <4>1. port'[a] = port[a] /\ port[a] \in 1 .. calls /\ owner[port[a]] = a
        BY <2>1, <2>4, <3>2 DEF Holding
      <4>2. port[a] \in Endpoints /\ port[a] # calls + 1 /\ port[a] \in 1 .. calls'
        BY <1>1, <1>2, <4>1, RelayAssumption
      <4>3. QED
        BY <2>3, <4>1, <4>2
    <3>3. QED
      BY <3>1, <3>2
  <2>5. ASSUME NEW p \in Endpoints, NEW a \in Clients, owner'[p] = a
        PROVE  SR!Active(a)' /\ port'[a] = p
    <3>1. CASE p = calls + 1
      <4>1. a = c
        BY <2>3, <2>5, <3>1
      <4>2. QED
        BY <2>2, <3>1, <4>1
    <3>2. CASE p # calls + 1
      <4>1. owner[p] = a
        BY <2>3, <2>5, <3>2
      <4>2. SR!Active(a) /\ port[a] = p
        BY <4>1 DEF Holding
      <4>3. QED
        BY <2>1, <2>2, <4>2
    <3>3. QED
      BY <3>1, <3>2
  <2>6. QED
    BY <2>4, <2>5 DEF Holding
<1>8. Fresh(calls + 1)
  BY <1>2 DEF Unsent
<1>9. Unsent'
  BY <1>1, <1>2, <1>5, <1>8 DEF Unsent, Types
<1>10. NestedInv' /\ (VerdictInv => VerdictInv') /\ Replying'
  BY <1>1, <1>5 DEF NestedInv, VerdictInv, Replying, Known, GivingUp, Outlasts, Waiting, vars, relay, Types
<1>11. GivesUpLast => GivesUpLast'
  <2>1. \A r \in replies : r.port # calls + 1 /\ r.port \in Endpoints
    BY <1>8 DEF Fresh, Types
  <2>2. \A r \in replies : owner'[r.port] = owner[r.port]
    BY <2>1, <1>4 DEF Types
  <2>3. QED
    BY <1>1, <2>2 DEF GivesUpLast
<1>12. QED
  BY <1>6, <1>7, <1>9, <1>10, <1>11 DEF Prompt, LastInv

LEMMA Sends ==
    ASSUME RelayInv, NEW c \in Clients, ClientSends(c),
           UNCHANGED <<vars, inhand, killed, relay, times>>
    PROVE  RelayInv' /\ Prompt
<1>1. /\ cpc[c] = "bound" /\ cpc' = [cpc EXCEPT ![c] = "wait"]
      /\ requests' = requests \cup {SR!RequestOf(c)}
      /\ timer' = [timer EXCEPT ![c] = TIMEOUT]
      /\ UNCHANGED <<calls, call, port, owner, replies>>
  BY DEF ClientSends, SR!SendRequest
<1> USE DEF RelayInv
<1>2. port[c] \in 1 .. calls /\ owner[port[c]] = c /\ port[c] \in Endpoints /\ Fresh(port[c])
  <2>1. port[c] \in 1 .. calls /\ owner[port[c]] = c /\ Fresh(port[c])
    BY <1>1 DEF Holding, SR!Active, Unsent
  <2>2. calls \in 0 .. MaxCalls /\ MaxCalls \in Nat
    BY CallerAssumption DEF Types
  <2>3. QED
    BY <2>1, <2>2, RelayAssumption
<1>3. SR!RequestOf(c).port = port[c]
  BY DEF SR!RequestOf
<1>4. Used' = Used
  BY DEF vars, Used
<1>5. \A p : p # port[c] /\ Fresh(p) => Fresh(p)'
  BY <1>1, <1>3, <1>4 DEF Fresh
<1>6. Types'
  <2>1. FromCaller(SR!RequestOf(c))
    BY <1>2 DEF SR!RequestOf, FromCaller
  <2>2. QED
    BY <1>1, <2>1, RelayAssumption DEF Types, vars, relay
<1>7. Holding'
  BY <1>1 DEF Holding, SR!Active, Types
<1>8. Unsent'
  <2>1. ASSUME NEW p \in calls + 1 .. MaxCalls PROVE p # port[c]
    BY <1>2 DEF Types
  <2>2. ASSUME NEW b \in Clients, cpc[b] = "bound", b # c PROVE port[b] # port[c]
    BY <1>2, <2>2 DEF Holding, SR!Active
  <2>3. QED
    BY <1>1, <1>5, <2>1, <2>2 DEF Unsent, Types
<1>9. ASSUME NEW left, Outlasts(left) PROVE Outlasts(left)'
  BY <1>1, <1>2, <1>4, <1>9 DEF Outlasts, Fresh, Types
<1>10. NestedInv' /\ (VerdictInv => VerdictInv') /\ Replying'
  BY <1>9 DEF NestedInv, VerdictInv, Replying, Known, GivingUp, Waiting, vars, relay
<1>11. GivesUpLast => GivesUpLast'
  <2>1. ASSUME NEW r \in replies, owner[r.port] # NoClient PROVE owner[r.port] # c
    BY <1>2, <2>1 DEF Fresh, Holding, Types
  <2>2. QED
    BY <1>1, <2>1 DEF GivesUpLast, Types
<1>12. QED
  BY <1>6, <1>7, <1>8, <1>10, <1>11 DEF Prompt, LastInv

LEMMA Returns ==
    ASSUME RelayInv, NEW c \in Clients, NEW result, cpc[c] = "wait", SR!Return(c, result),
           replies' \subseteq replies, requests' = requests, timer' = [timer EXCEPT ![c] = 0],
           UNCHANGED <<vars, inhand, killed, relay, times>>
    PROVE  RelayInv' /\ Prompt
<1>1. PICK s \in {"idle", "crashed"} : cpc' = [cpc EXCEPT ![c] = s]
  BY DEF SR!Return
<1>2. owner' = [p \in Endpoints |-> IF owner[p] = c THEN NoClient ELSE owner[p]]
      /\ UNCHANGED <<calls, port>>
  BY DEF SR!Return, SR!Released
<1> USE DEF RelayInv
<1>3. Used' = Used
  BY DEF vars, Used
<1>4. \A p : Fresh(p) => Fresh(p)'
  BY <1>3 DEF Fresh
<1>5. Types'
  BY <1>1, <1>2, RelayAssumption DEF Types, vars, relay
<1>6. Holding'
  <2>1. ASSUME NEW a \in Clients, SR!Active(a)' PROVE a # c /\ SR!Active(a)
    BY <1>1, <2>1 DEF SR!Active, Types
  <2>2. ASSUME NEW a \in Clients, a # c, SR!Active(a) PROVE SR!Active(a)'
    BY <1>1, <2>2 DEF SR!Active, Types
  <2>3. ASSUME NEW a \in Clients, SR!Active(a)'
        PROVE  port'[a] \in 1 .. calls' /\ owner'[port'[a]] = a
    <3>1. a # c /\ port[a] \in 1 .. calls /\ owner[port[a]] = a
      BY <2>1, <2>3 DEF Holding
    <3>2. port[a] \in Endpoints
      BY <3>1, RelayAssumption, CallerAssumption DEF Types
    <3>3. QED
      BY <1>2, <3>1, <3>2
  <2>4. ASSUME NEW p \in Endpoints, NEW a \in Clients, owner'[p] = a
        PROVE  SR!Active(a)' /\ port'[a] = p
    <3>1. owner[p] = a /\ a # c
      BY <1>2, <2>4, CallerAssumption
    <3>2. SR!Active(a) /\ port[a] = p
      BY <3>1 DEF Holding
    <3>3. QED
      BY <1>2, <2>2, <3>1, <3>2
  <2>5. QED
    BY <2>3, <2>4 DEF Holding
<1>7. Unsent'
  BY <1>1, <1>2, <1>4 DEF Unsent, Types
<1>8. NestedInv' /\ (VerdictInv => VerdictInv') /\ Replying'
  BY <1>1, <1>2, <1>3 DEF NestedInv, VerdictInv, Replying, Known, GivingUp, Outlasts, Waiting, vars, relay, Types
<1>9. GivesUpLast => GivesUpLast'
  BY <1>2, CallerAssumption DEF GivesUpLast, Types
<1>10. QED
  BY <1>5, <1>6, <1>7, <1>8, <1>9 DEF Prompt, LastInv

LEMMA ClientsKeep ==
    ASSUME RelayInv, NEW c \in Clients, ClientStep(c)
    PROVE  RelayInv' /\ Prompt
<1>1. ASSUME NEW r \in replies, ClientReceives(c, r) PROVE RelayInv' /\ Prompt
  BY <1>1, Returns DEF ClientStep, ClientReceives, SR!ReceiveResponse
<1>2. CASE ClientTimesOut(c)
  BY <1>2, Returns DEF ClientStep, ClientTimesOut, SR!RequestTimeout, SR!traffic
<1>3. QED
  BY <1>1, <1>2, Binds, Sends DEF ClientStep

(* Time passes for callers and for the nested call alike. *)
LEMMA TickKeeps ==
    ASSUME RelayInv, Tick
    PROVE  RelayInv' /\ Prompt
<1> USE DEF RelayInv
<1>1. /\ timer' = [c \in Clients |-> IF cpc[c] = "wait" THEN Less(timer[c]) ELSE timer[c]]
      /\ nested' = [nested EXCEPT !.left = Less(@)]
      /\ UNCHANGED <<vars, callers, requests, replies, inhand, served, verdict>>
  BY DEF Tick, sysVars
<1>2. \A n \in 0 .. TIMEOUT : Less(n) \in 0 .. TIMEOUT /\ (n = 0 => Less(n) = 0) /\ (n > 0 => Less(n) = n - 1)
  BY RelayAssumption DEF Less
<1>3. Used' = Used /\ \A p : Fresh(p)' <=> Fresh(p)
  BY <1>1 DEF vars, Used, Fresh
<1>4. Types'
  BY <1>1, <1>2 DEF Types, vars, callers
<1>5. Holding' /\ Unsent'
  BY <1>1, <1>3 DEF Holding, SR!Active, Unsent, callers
<1>6. \A c \in Clients : timer[c] \in 0 .. TIMEOUT /\ timer'[c] \in {timer[c], Less(timer[c])}
                         /\ (cpc[c] = "wait" => timer'[c] = Less(timer[c]))
  BY <1>1 DEF Types
<1>7. nested'.left = Less(nested.left) /\ nested.left \in 0 .. TIMEOUT /\ nested'.ask = nested.ask
  BY <1>1 DEF Types
<1>8. NestedInv'
  <2>1. Waiting' => Waiting
    BY <1>1, <1>2, <1>7 DEF Waiting, NoCall, Types
  <2>2. Outlasts(nested.left) => Outlasts(nested.left)'
    BY <1>1, <1>2, <1>3, <1>6, <1>7, RelayAssumption DEF Outlasts, callers
  <2>3. QED
    BY <1>1, <2>1, <2>2 DEF NestedInv, vars
<1>9. (VerdictInv => VerdictInv') /\ Replying'
  BY <1>1, <1>2, <1>3, <1>6, RelayAssumption
  DEF VerdictInv, Replying, Known, GivingUp, Outlasts, vars, callers
<1>10. GivesUpLast => GivesUpLast'
  <2>1. \A r \in replies : r.port \in Endpoints /\ owner[r.port] \in Clients \cup {NoClient}
    BY DEF Types
  <2>2. QED
    BY <1>1, <1>2, <1>6, <2>1 DEF GivesUpLast, callers
<1>11. QED
  BY <1>4, <1>5, <1>8, <1>9, <1>10 DEF Prompt, LastInv
-----------------------------------------------------------------------------
(* The relay takes a request: its handler fails, or makes the nested call. *)

LEMMA TakeKeeps ==
    ASSUME RelayInv, NEW d \in requests, Take(d), pc = "recv",
           UNCHANGED <<known_nodes, dest, verdict>>,
           \/ UNCHANGED nested /\ pc' = "error"
           \/ pc' = "recv" /\ nested' = [ask |-> served', left |-> TIMEOUT]
    PROVE  RelayInv' /\ Prompt
<1>1. /\ ~Waiting /\ served' = served + 1 /\ inhand' = d /\ requests' \subseteq requests
      /\ UNCHANGED <<callers, replies, timer>>
  BY DEF Take
<1> USE DEF RelayInv
<1>2. Used' \subseteq Used \cup {e.port : e \in requests}
  BY <1>1 DEF Used
<1>3. ASSUME NEW p \in Endpoints, Fresh(p) PROVE Fresh(p)'
  BY <1>1, <1>2, <1>3, FreshKept
<1>4. Types'
  BY <1>1, RelayAssumption DEF Types, callers
<1>5. Holding'
  BY <1>1 DEF Holding, SR!Active, callers
<1>6. Unsent'
  <2>1. \A p \in calls + 1 .. MaxCalls : p \in Endpoints
    BY PortsExist
  <2>2. \A c \in Clients : cpc[c] = "bound" => port[c] \in Endpoints
    BY PortsExist
  <2>3. QED
    BY <1>1, <1>3, <2>1, <2>2 DEF Unsent, callers
<1>7. NestedInv'
  <2>1. CASE UNCHANGED nested
    BY <1>1, <2>1 DEF NestedInv, Waiting
  <2>2. CASE pc' = "recv" /\ nested' = [ask |-> served', left |-> TIMEOUT]
    <3>1. \A c \in Clients : ~(timer'[c] > nested'.left)
      BY <1>1, <2>2, RelayAssumption DEF Types
    <3>2. QED
      BY <1>1, <2>2, <3>1 DEF NestedInv, Outlasts, Types
  <2>3. QED
    BY <2>1, <2>2
<1>8. VerdictInv' /\ Replying' /\ (GivesUpLast => GivesUpLast')
  BY <1>1 DEF VerdictInv, Replying, Known, GivingUp, GivesUpLast, callers
<1>9. QED
  BY <1>4, <1>5, <1>6, <1>7, <1>8 DEF Prompt, LastInv

(* The relay's nested call is over: it answers at the port of its request. *)
LEMMA ResumeKeeps ==
    ASSUME RelayInv, NEW status, NEW of, NEW evts, Resume(status, of, evts)
    PROVE  RelayInv' /\ Prompt
<1> USE DEF RelayInv
<1>1. /\ Waiting /\ pc = "recv" /\ FromCaller(inhand) /\ Outlasts(nested.left)
      /\ nested' = NoCall
      /\ UNCHANGED <<callers, requests, replies, inhand, served, timer>>
  BY DEF Resume, NestedInv
<1>2. dest' = [tag |-> HostTag[inhand.from], endpoint |-> inhand.port]
      /\ reply'.status = 200
      /\ UNCHANGED <<known_nodes>>
  BY DEF Resume, RouteAnswered, ReplyTo, Received
<1>3. dest' \in QhmEndpoint /\ dest'.tag \in TempTags /\ dest'.endpoint = inhand.port
  BY <1>1, <1>2, HostAssumption, TagAssumption DEF FromCaller, QhmEndpoint, ClientTags
<1>4. Used' \subseteq Used
  BY <1>1, <1>2, <1>3 DEF Used
<1>5. \A p : Fresh(p) => Fresh(p)'
  BY <1>1, <1>4 DEF Fresh
<1>6. Types'
  BY <1>1, <1>2, <1>3, RelayAssumption DEF Types, callers, NoCall
<1>7. Holding' /\ Unsent'
  BY <1>1, <1>5 DEF Holding, SR!Active, Unsent, callers
<1>8. NestedInv' /\ ~Waiting' /\ (GivesUpLast => GivesUpLast')
  BY <1>1 DEF NestedInv, Waiting, GivesUpLast, callers
<1>9. Replying'
  BY <1>2, <1>3 DEF Replying, Known
<1>10. GivesUpEarly \/ VerdictInv'
  <2>1. CASE verdict'.status = 408 /\ nested.left > 0
    BY <1>1, <1>8, <2>1 DEF GivesUpEarly
  <2>2. CASE verdict'.status # 408
    BY <2>2 DEF VerdictInv, GivingUp
  <2>3. CASE nested.left = 0
    BY <1>1, <1>4, <2>3 DEF VerdictInv, Outlasts, callers
  <2>4. QED
    BY <2>1, <2>2, <2>3 DEF Types
<1>11. QED
  BY <1>6, <1>7, <1>8, <1>9, <1>10 DEF Prompt, LastInv

(* A turn of the loop that takes no caller's request. *)
LEMMA TurnEffects ==
    ASSUME RelayInv, Turn \/ ReceiveKill
    PROVE  /\ \A t \in Tags \cup {NoTag} : known_nodes'[t] \in {known_nodes[t], Absent}
           /\ known_nodes' \in [Tags \cup {NoTag} -> Endpoints \cup {NoEndpoint, Absent}]
           /\ dest' = dest
           /\ pc' = "commit" => Known(dest.tag) /\ reply'.status = 500
           /\ UNCHANGED <<callers, requests, replies, inhand>>
<1> USE DEF RelayInv
<1>1. known_nodes \in [Tags \cup {NoTag} -> Endpoints \cup {NoEndpoint, Absent}]
  BY DEF Types
<1>2. UNCHANGED <<callers, requests, replies, inhand>>
  BY DEF Turn, ReceiveKill
<1>3. CASE EventDelete
  BY <1>1, <1>2, <1>3 DEF EventDelete, del_node
<1>4. CASE NoEvent \/ EventTerminate \/ EventUnhandled \/ RecvNothing \/ ErrorDropped
  BY <1>1, <1>2, <1>4 DEF NoEvent, EventTerminate, EventUnhandled, RecvNothing, ErrorDropped
<1>5. CASE \E evts \in Emissions : EventApp(evts)
  BY <1>1, <1>2, <1>5 DEF EventApp
<1>6. CASE ErrorReply
  BY <1>1, <1>2, <1>6 DEF ErrorReply
<1>7. CASE Finalize \/ Stopped
  BY <1>1, <1>2, <1>7 DEF Finalize, Stopped
<1>8. CASE ReceiveKill
  BY <1>1, <1>2, <1>8 DEF ReceiveKill, HandleTerminate, ReturnStatus, After, CORE_OK, CORE_CONTINUE
<1>9. QED
  BY <1>3, <1>4, <1>5, <1>6, <1>7, <1>8 DEF Turn, ProcessEvent

LEMMA TurnKeeps ==
    ASSUME RelayInv, RelayTurn
    PROVE  RelayInv' /\ Prompt
<1> USE DEF RelayInv
<1>1. Turn \/ ReceiveKill
  BY DEF RelayTurn
<1>2. ~Waiting /\ UNCHANGED <<served, nested, timer>>
  BY DEF RelayTurn, relay
<1>3. Used' \subseteq Used \cup {Absent}
  BY <1>1, TurnEffects, TagAssumption DEF Used
<1>4. ASSUME NEW p \in Endpoints, Fresh(p) PROVE Fresh(p)'
  BY <1>1, <1>3, <1>4, FreshKept, TurnEffects
<1>5. Types'
  BY <1>1, <1>2, TurnEffects DEF Types, callers
<1>6. Holding'
  BY <1>1, TurnEffects DEF Holding, SR!Active, callers
<1>7. Unsent'
  <2>1. \A p \in calls + 1 .. MaxCalls : p \in Endpoints
    BY PortsExist
  <2>2. \A c \in Clients : cpc[c] = "bound" => port[c] \in Endpoints
    BY PortsExist
  <2>3. QED
    BY <1>1, <1>4, <2>1, <2>2, TurnEffects DEF Unsent, callers
<1>8. NestedInv' /\ VerdictInv' /\ Replying'
  BY <1>1, <1>2, TurnEffects, TagAssumption DEF NestedInv, Waiting, VerdictInv, GivingUp, Replying, Known
<1>9. GivesUpLast => GivesUpLast'
  BY <1>1, <1>2, TurnEffects DEF GivesUpLast, callers
<1>10. QED
  BY <1>5, <1>6, <1>7, <1>8, <1>9 DEF Prompt, LastInv

(* The reply goes to a port that the relay has heard of; a 408 only to one     *)
(* whose caller has no time left.                                              *)
LEMMA ReplyKeeps ==
    ASSUME RelayInv, RelayReplies
    PROVE  RelayInv' /\ Prompt
<1> USE DEF RelayInv
<1>1. /\ ~Waiting /\ pc = "commit" /\ pc' = "head" /\ dest' = dest
      /\ known_nodes' = add_node(dest)
      /\ sent'.to = known_nodes'[dest.tag]
      /\ UNCHANGED <<callers, requests, inhand, served, nested, timer>>
  BY DEF RelayReplies, Commit
<1>2. dest \in QhmEndpoint /\ dest.tag \in Tags \cup {NoTag} /\ dest.endpoint \in Endpoints \cup {NoEndpoint}
  BY DEF Types, QhmEndpoint, NullNode
<1>3. NewSocket(dest) \in {dest.endpoint, NoEndpoint}
  BY DEF NewSocket
<1>4. /\ \A t \in Tags \cup {NoTag} :
            known_nodes'[t] = known_nodes[t] \/ known_nodes'[t] \in {dest.endpoint, NoEndpoint}
      /\ known_nodes' \in [Tags \cup {NoTag} -> Endpoints \cup {NoEndpoint, Absent}]
      /\ known_nodes'[dest.tag] # Absent
  BY <1>1, <1>2, <1>3, EndpointAssumption DEF add_node, Known, Types
<1>5. Used' \subseteq Used \cup {NoEndpoint}
  BY <1>1, <1>4, TagAssumption DEF Used
<1>6. sent'.to \in Endpoints \cup {NoEndpoint}
  BY <1>1, <1>2, <1>4
<1>7. /\ sent'.to \in Used \cup {NoEndpoint}
      /\ ~Known(NoTag)' /\ dest'.tag \in TempTags
  BY <1>1, <1>2, <1>3, TagAssumption, EndpointAssumption DEF Replying, add_node, Known, Types, Used
<1>8. \A r \in replies' :
          r \in replies \/ (r.port = sent'.to /\ r.port # NoEndpoint /\ (r.status = 408 => GivingUp))
  <2>1. reply.status # 408
    BY <1>1 DEF Replying
  <2>2. QED
    BY <1>1, <2>1 DEF RelayReplies, OfHandler, GivingUp
<1>9. ASSUME NEW p \in Endpoints, Fresh(p) PROVE Fresh(p)'
  <2>1. \A r \in replies' : r \in replies \/ r.port \in Used
    BY <1>7, <1>8
  <2>2. QED
    BY <1>1, <1>5, <1>9, <2>1, FreshKept
<1>10. Types'
  BY <1>1, <1>4, <1>6, <1>8 DEF Types, callers
<1>11. Holding'
  BY <1>1 DEF Holding, SR!Active, callers
<1>12. Unsent'
  <2>1. \A p \in calls + 1 .. MaxCalls : p \in Endpoints
    BY PortsExist
  <2>2. \A c \in Clients : cpc[c] = "bound" => port[c] \in Endpoints
    BY PortsExist
  <2>3. QED
    BY <1>1, <1>9, <2>1, <2>2 DEF Unsent, callers
<1>13. NestedInv' /\ VerdictInv' /\ Replying'
  BY <1>1, <1>7 DEF NestedInv, Waiting, VerdictInv, GivingUp, Replying
<1>14. LastInv => GivesUpLast'
  <2>1. SUFFICES ASSUME LastInv, NEW r \in replies', r \notin replies, r.status = 408,
                        owner[r.port] # NoClient
                 PROVE  timer[owner[r.port]] = 0
    BY <1>1 DEF LastInv, GivesUpLast, callers
  <2>2. r.port \in Used /\ r.port \in Endpoints /\ Outlasts(0)
    BY <1>6, <1>7, <1>8, <2>1 DEF LastInv, VerdictInv
  <2>3. owner[r.port] \in Clients /\ SR!Active(owner[r.port]) /\ port[owner[r.port]] = r.port
    BY <2>1, <2>2 DEF Types, Holding
  <2>4. cpc[owner[r.port]] = "wait"
    BY <2>2, <2>3 DEF SR!Active, Unsent, Fresh
  <2>5. QED
    BY <2>2, <2>3, <2>4, RelayAssumption DEF Outlasts, Types
<1>15. QED
  BY <1>10, <1>11, <1>12, <1>13, <1>14 DEF Prompt, LastInv
-----------------------------------------------------------------------------
(* What disturbs none of it. *)
LEMMA OthersKeep ==
    ASSUME RelayInv, UNCHANGED <<vars, callers, requests, replies, inhand, served, nested, verdict, timer>>
    PROVE  RelayInv' /\ Prompt
<1> USE DEF vars, callers, RelayInv
<1>1. Used' = Used /\ \A p : Fresh(p)' <=> Fresh(p)
  BY DEF Used, Fresh
<1>2. Types' /\ Holding' /\ Unsent' /\ (GivesUpLast => GivesUpLast')
  BY <1>1 DEF Types, Holding, SR!Active, Unsent, GivesUpLast
<1>3. NestedInv' /\ (VerdictInv => VerdictInv') /\ Replying'
  BY <1>1 DEF NestedInv, VerdictInv, Replying, Known, GivingUp, Outlasts, Waiting
<1>4. QED
  BY <1>2, <1>3 DEF Prompt, LastInv

LEMMA RelayStep ==
    ASSUME RelayInv, [RelayNext]_relayVars
    PROVE  RelayInv' /\ Prompt
<1>1. ASSUME NEW d \in requests, RelayRefuses(d) PROVE RelayInv' /\ Prompt
  <2>1. pc = "recv" /\ pc' = "error" /\ UNCHANGED <<known_nodes, dest>>
    BY <1>1 DEF RelayRefuses, RouteFailed, ReturnStatus, After, CORE_GENERIC_ERROR, CORE_OK
  <2>2. QED
    BY <1>1, <2>1, TakeKeeps DEF RelayRefuses
<1>2. ASSUME NEW d \in requests, RelayAsks(d) PROVE RelayInv' /\ Prompt
  BY <1>2, TakeKeeps DEF RelayAsks, NestedTimeout
<1>3. ASSUME NEW t \in told, RelayAnswered(t) PROVE RelayInv' /\ Prompt
  <2> DEFINE evts == IF t.count >= 1 THEN <<HighMark>> ELSE <<>>
  <2>1. Resume(200, t.of, evts)
    BY <1>3 DEF RelayAnswered
  <2> HIDE DEF evts
  <2>2. QED
    BY <2>1, ResumeKeeps
<1>4. CASE RelayTimesOut \/ RelayRecvFails
  BY <1>4, ResumeKeeps DEF RelayTimesOut, RelayRecvFails
<1>5. CASE RelayTurn
  BY <1>5, TurnKeeps
<1>6. CASE RelayReplies
  BY <1>6, ReplyKeeps
<1>7. CASE KillRelay
  BY <1>7, OthersKeep DEF KillRelay, Kill, relay
<1>8. CASE Tick
  BY <1>8, TickKeeps
<1>9. ASSUME NEW a \in asked, TimeAnswers(a) PROVE RelayInv' /\ Prompt
  BY <1>9, OthersKeep DEF TimeAnswers, sysVars, relay
<1>10. ASSUME NEW c \in Clients, ClientStep(c) PROVE RelayInv' /\ Prompt
  BY <1>10, ClientsKeep
<1>11. CASE UNCHANGED relayVars
  BY <1>11, OthersKeep DEF relayVars, sysVars, relay
<1>12. QED
  BY <1>1, <1>2, <1>3, <1>4, <1>5, <1>6, <1>7, <1>8, <1>9, <1>10, <1>11
  DEF RelayNext, RelayLoop

(* The relay gives no nested call up while its caller still has time, for any *)
(* number of callers, calls, hosts and ticks, as long as the recv of no nested *)
(* call has failed or got an empty datagram: a 408 of the relay is read by no  *)
(* caller that would still wait for the time.                                  *)
THEOREM RelayGivesUpLast == QuietSpec => []GivesUpLastIfPatient
<1> DEFINE Inv == RelayInv /\ (patient => LastInv)
<1>1. QuietInit => Inv
  BY RelayInitInv DEF QuietInit
<1>2. Inv /\ [RelayNext /\ Remember]_<<relayVars, quiet, patient>> => Inv'
  <2>1. ASSUME RelayInv, patient => LastInv, RelayNext, Remember
        PROVE  patient' => LastInv'
    <3>1. Prompt
      BY <2>1, RelayStep
    <3>2. QED
      BY <2>1, <3>1, Zenon DEF Prompt, Remember
  <2>2. ASSUME RelayInv, patient => LastInv, UNCHANGED <<relayVars, patient>>
        PROVE  patient' => LastInv'
    BY <2>2 DEF relayVars, sysVars, vars, callers, relay, LastInv, VerdictInv, GivingUp, Outlasts,
       Used, GivesUpLast
  <2>3. QED
    BY <2>1, <2>2, RelayStep
<1>3. Inv => GivesUpLastIfPatient
  BY DEF LastInv, GivesUpLastIfPatient
<1>4. QED
  BY <1>1, <1>2, <1>3, PTL DEF QuietSpec
-----------------------------------------------------------------------------
(* Whose answer a caller gets.  Every call has a port of its own, so that a    *)
(* call's number says where its answer belongs.                                *)

Kept ==
    /\ RelayTypeOK
    /\ call \in [Clients -> 0 .. MaxCalls]
    /\ outcome = [c \in Clients |-> outcome[c]]
    /\ \A r \in replies : r.of \in 0 .. MaxCalls

Naming == \A c \in Clients : SR!Active(c) => call[c] = port[c]

Requested == \A d \in requests : d.id = d.port /\ d.id \in 1 .. MaxCalls

(* The relay has a request in hand. *)
Busy == Waiting \/ pc \in {"error", "commit"}

Serves == Busy => inhand.id = inhand.port /\ inhand.id \in 1 .. MaxCalls

(* What the nested call is told is for the request in hand: an answer to an    *)
(* earlier one comes to a port that is closed.                                 *)
Asking ==
    /\ Waiting => nested.ask = served /\ served > 0
    /\ \A a \in asked : a.ask \in 1 .. served /\ (a.ask = nested.ask => a.of = inhand.id)
    /\ \A t \in told : Waiting /\ t.of = inhand.id

(* Only add_sign says 200 without a time. *)
Deciding ==
    pc = "commit" /\ reply.status = 200 /\ verdict.status = 200 =>
        verdict.of = inhand.id \/ (verdict.of = 0 /\ Signed)

OwnInv == Kept /\ Naming /\ Requested /\ Serves /\ Asking /\ Deciding

(* A reply is at the port of its request, with the time of its request. *)
Right(r) ==
    /\ r.id = r.port
    /\ r.status = 200 => r.of = r.id \/ (r.of = 0 /\ route[r.id] = "add_sign")

(* What holds while no client's node has met another request.                  *)
AloneInv ==
    quiet =>
        /\ Busy => \A t \in TempTags : ~Known(t)
        /\ pc = "commit" => reply.status = 200 /\ dest.endpoint = inhand.port
        /\ \A r \in replies : Right(r)
        /\ OwnAnswers

LEMMA OwnInitInv ==
    /\ RelayInit => OwnInv
    /\ QuietInit => AloneInv
<1> USE DEF RelayInit, LoopInit, CallersInit, SR!Init
<1>1. ASSUME RelayInit PROVE OwnInv
  <2>1. Kept
    BY <1>1, RelayAssumption, CallerAssumption DEF Kept, RelayTypeOK, NoCall, NoVerdict, SR!Status
  <2>2. QED
    BY <1>1, <2>1 DEF OwnInv, Naming, SR!Active, Requested, Serves, Busy, Waiting, Asking, Deciding
<1>2. ASSUME RelayInit PROVE OwnAnswers
  BY <1>2, RelayAssumption DEF OwnAnswers, SR!Status
<1>3. QED
  BY <1>1, <1>2 DEF QuietInit, AloneInv, Busy, Waiting

(* The callers leave the relay's fields alone. *)
LEMMA CallersKeep ==
    ASSUME Kept, UNCHANGED <<served, nested, verdict, asked, told, count>>,
           timer' \in [Clients -> 0 .. TIMEOUT], time' \in [Clients -> 0 .. MaxCalls],
           call' \in [Clients -> 0 .. MaxCalls], outcome' = [c \in Clients |-> outcome'[c]],
           \A r \in replies' : r.of \in 0 .. MaxCalls
    PROVE  Kept'
BY DEF Kept, RelayTypeOK

LEMMA OwnBinds ==
    ASSUME RelayInv, OwnInv, NEW c \in Clients, ClientBinds(c),
           UNCHANGED <<vars, inhand, killed, relay, times>>
    PROVE  OwnInv' /\ (AloneInv /\ Remember => AloneInv')
<1>1. /\ cpc[c] = "idle" /\ calls < MaxCalls
      /\ call' = [call EXCEPT ![c] = calls + 1]
      /\ port' = [port EXCEPT ![c] = calls + 1]
      /\ outcome' = [outcome EXCEPT ![c] = [status |-> 0, id |-> 0]]
      /\ cpc' = [cpc EXCEPT ![c] = "bound"]
      /\ time' = [time EXCEPT ![c] = 0]
      /\ UNCHANGED <<requests, replies, timer>>
  BY DEF ClientBinds, SR!Bind, SR!traffic, SR!Status
<1> USE DEF OwnInv
<1>2. calls + 1 \in 1 .. MaxCalls /\ calls + 1 \in 0 .. MaxCalls /\ 0 \in 0 .. MaxCalls
  BY <1>1, CallerAssumption DEF RelayInv, Types
<1>3. Kept'
  <2>1. timer' \in [Clients -> 0 .. TIMEOUT] /\ time' \in [Clients -> 0 .. MaxCalls]
        /\ call' \in [Clients -> 0 .. MaxCalls]
    BY <1>1, <1>2 DEF Kept, RelayTypeOK
  <2>2. outcome' = [a \in Clients |-> outcome'[a]]
    BY <1>1 DEF Kept
  <2>3. \A r \in replies' : r.of \in 0 .. MaxCalls
    BY <1>1 DEF Kept
  <2>4. QED
    BY <2>1, <2>2, <2>3, CallersKeep DEF relay, times
<1>4. Naming'
  BY <1>1 DEF Naming, SR!Active, RelayInv, Types, Kept
<1>5. Requested' /\ Serves' /\ Asking' /\ Deciding'
  BY <1>1 DEF Requested, Serves, Busy, Waiting, Asking, Deciding, Signed, vars, relay, times
<1>6. ASSUME AloneInv, Remember PROVE AloneInv'
  <2>1. OwnAnswers => OwnAnswers'
    BY <1>1 DEF OwnAnswers, Kept, RelayTypeOK, relay
  <2>2. QED
    BY <1>1, <1>6, <2>1 DEF AloneInv, Remember, Meets, Busy, Waiting, Known, Right, vars, relay, times
<1>7. QED
  BY <1>3, <1>4, <1>5, <1>6

LEMMA OwnSends ==
    ASSUME RelayInv, OwnInv, NEW c \in Clients, ClientSends(c),
           UNCHANGED <<vars, inhand, killed, relay, times>>
    PROVE  OwnInv' /\ (AloneInv /\ Remember => AloneInv')
<1>1. /\ cpc[c] = "bound" /\ cpc' = [cpc EXCEPT ![c] = "wait"]
      /\ requests' = requests \cup {SR!RequestOf(c)}
      /\ timer' = [timer EXCEPT ![c] = TIMEOUT]
      /\ UNCHANGED <<calls, call, port, outcome, replies, time>>
  BY DEF ClientSends, SR!SendRequest
<1> USE DEF OwnInv
<1>2. Kept'
  <2>1. /\ timer' \in [Clients -> 0 .. TIMEOUT] /\ time' \in [Clients -> 0 .. MaxCalls]
        /\ call' \in [Clients -> 0 .. MaxCalls] /\ outcome' = [a \in Clients |-> outcome'[a]]
    BY <1>1, RelayAssumption DEF Kept, RelayTypeOK
  <2>2. \A r \in replies' : r.of \in 0 .. MaxCalls
    BY <1>1 DEF Kept
  <2>3. QED
    BY <2>1, <2>2, CallersKeep DEF relay, times
<1>3. Naming'
  BY <1>1 DEF Naming, SR!Active, RelayInv, Types
<1>4. Requested'
  <2>1. call[c] = port[c] /\ port[c] \in 1 .. calls
    BY <1>1 DEF Naming, RelayInv, Holding, SR!Active
  <2>2. call[c] \in 1 .. MaxCalls
    BY <2>1, CallerAssumption DEF RelayInv, Types
  <2>3. QED
    BY <1>1, <2>1, <2>2 DEF Requested, SR!RequestOf
<1>5. Serves' /\ Asking' /\ Deciding'
  BY DEF Serves, Busy, Waiting, Asking, Deciding, Signed, vars, relay, times
<1>6. AloneInv /\ Remember => AloneInv'
  <2>1. OwnAnswers <=> OwnAnswers'
    BY <1>1 DEF OwnAnswers, relay
  <2>2. QED
    BY <1>1, <2>1 DEF AloneInv, Remember, Meets, Busy, Waiting, Known, Right, vars, relay
<1>7. QED
  BY <1>2, <1>3, <1>4, <1>5, <1>6

(* A call returns, with what it read or without a response. *)
LEMMA OwnReturns ==
    ASSUME RelayInv, OwnInv, NEW c \in Clients, NEW result, cpc[c] = "wait", SR!Return(c, result),
           NEW of \in 0 .. MaxCalls, time' = [time EXCEPT ![c] = of],
           replies' \subseteq replies, requests' = requests, timer' = [timer EXCEPT ![c] = 0],
           UNCHANGED <<vars, inhand, killed, relay, times>>,
           quiet /\ AloneInv =>
               /\ result.id \in {0, call[c]}
               /\ result.status = 200 => of = call[c] \/ (of = 0 /\ route[call[c]] = "add_sign")
    PROVE  OwnInv' /\ (AloneInv /\ Remember => AloneInv')
<1>1. PICK s \in {"idle", "crashed"} : cpc' = [cpc EXCEPT ![c] = s]
  BY DEF SR!Return
<1>2. outcome' = [outcome EXCEPT ![c] = result] /\ UNCHANGED <<calls, call, port>>
  BY DEF SR!Return
<1> USE DEF OwnInv
<1>3. Kept'
  <2>1. timer' \in [Clients -> 0 .. TIMEOUT] /\ time' \in [Clients -> 0 .. MaxCalls]
        /\ call' \in [Clients -> 0 .. MaxCalls]
    BY <1>1, <1>2, RelayAssumption DEF Kept, RelayTypeOK
  <2>2. outcome' = [a \in Clients |-> outcome'[a]]
    BY <1>2 DEF Kept
  <2>3. \A r \in replies' : r.of \in 0 .. MaxCalls
    BY DEF Kept
  <2>4. QED
    BY <2>1, <2>2, <2>3, CallersKeep DEF relay, times
<1>4. Naming'
  BY <1>1, <1>2 DEF Naming, SR!Active, RelayInv, Types
<1>5. Requested' /\ Serves' /\ Asking' /\ Deciding'
  BY DEF Requested, Serves, Busy, Waiting, Asking, Deciding, Signed, vars, relay, times
<1>6. ASSUME AloneInv, Remember PROVE AloneInv'
  <2>1. quiet' => quiet
    BY <1>6 DEF Remember
  <2>2. OwnAnswers /\ quiet => OwnAnswers'
    <3>1. SUFFICES ASSUME OwnAnswers, quiet, NEW a \in Clients
                   PROVE  /\ outcome'[a].id \in {0, call[a]}
                          /\ outcome'[a].status = 200 =>
                                time'[a] = call[a] \/ (time'[a] = 0 /\ route[call[a]] = "add_sign")
      BY <1>2 DEF OwnAnswers, relay
    <3>2. CASE a = c
      BY <1>2, <1>6, <3>1, <3>2 DEF Kept, RelayTypeOK
    <3>3. CASE a # c
      BY <1>2, <3>1, <3>3 DEF Kept, RelayTypeOK, OwnAnswers
    <3>4. QED
      BY <3>2, <3>3
  <2>3. QED
    BY <1>6, <2>1, <2>2 DEF AloneInv, Busy, Waiting, Known, Right, vars, relay, times
<1>7. QED
  BY <1>3, <1>4, <1>5, <1>6

LEMMA OwnReceives ==
    ASSUME RelayInv, OwnInv, NEW c \in Clients, NEW r \in replies, ClientReceives(c, r),
           UNCHANGED <<vars, inhand, killed, relay, times>>
    PROVE  OwnInv' /\ (AloneInv /\ Remember => AloneInv')
<1>1. /\ cpc[c] = "wait" /\ SR!CanRead(c, r)
      /\ replies' = replies \ {r}
      /\ SR!Return(c, [status |-> r.status, id |-> r.id])
      /\ time' = [time EXCEPT ![c] = r.of]
      /\ requests' = requests /\ timer' = [timer EXCEPT ![c] = 0]
  BY DEF ClientReceives, SR!ReceiveResponse
<1>2. r.port = call[c]
  <2>1. port[c] \in 1 .. calls /\ owner[port[c]] = c /\ call[c] = port[c]
    BY <1>1 DEF RelayInv, Holding, OwnInv, Naming, SR!Active
  <2>2. port[c] \in Endpoints
    BY <2>1, RelayAssumption, CallerAssumption DEF RelayInv, Types
  <2>3. QED
    BY <1>1, <2>1, <2>2 DEF SR!CanRead, SR!Holds
<1>3. quiet /\ AloneInv =>
          /\ r.id \in {0, call[c]}
          /\ r.status = 200 => r.of = call[c] \/ (r.of = 0 /\ route[call[c]] = "add_sign")
  BY <1>2 DEF AloneInv, Right
<1> DEFINE result == [status |-> r.status, id |-> r.id]
<1>4. /\ SR!Return(c, result)
      /\ quiet /\ AloneInv =>
          /\ result.id \in {0, call[c]}
          /\ result.status = 200 => r.of = call[c] \/ (r.of = 0 /\ route[call[c]] = "add_sign")
  BY <1>1, <1>3
<1>5. r.of \in 0 .. MaxCalls /\ replies' \subseteq replies
  BY <1>1 DEF OwnInv, Kept
<1> HIDE DEF result
<1>6. QED
  BY <1>1, <1>4, <1>5, OwnReturns, Zenon

LEMMA OwnTimesOut ==
    ASSUME RelayInv, OwnInv, NEW c \in Clients, ClientTimesOut(c),
           UNCHANGED <<vars, inhand, killed, relay, times>>
    PROVE  OwnInv' /\ (AloneInv /\ Remember => AloneInv')
<1> DEFINE result == [status |-> 408, id |-> 0]
<1>1. /\ cpc[c] = "wait" /\ SR!Return(c, result)
      /\ UNCHANGED <<requests, replies, time>> /\ timer' = [timer EXCEPT ![c] = 0]
  BY DEF ClientTimesOut, SR!RequestTimeout, SR!traffic, SR!Status
<1>2. /\ requests' = requests /\ replies' \subseteq replies
      /\ time[c] \in 0 .. MaxCalls /\ time' = [time EXCEPT ![c] = time[c]]
  BY <1>1 DEF OwnInv, Kept, RelayTypeOK
<1>3. quiet /\ AloneInv =>
          /\ result.id \in {0, call[c]}
          /\ result.status = 200 => time[c] = call[c] \/ (time[c] = 0 /\ route[call[c]] = "add_sign")
  OBVIOUS
<1> HIDE DEF result
<1>4. QED
  BY <1>1, <1>2, <1>3, OwnReturns, Zenon

(* What leaves the callers, the table and the reply alone. *)
LEMMA OwnRest ==
    ASSUME RelayInv, OwnInv, UNCHANGED <<vars, callers, requests, replies, inhand, relay, time>>,
           nested' = nested, timer' \in [Clients -> 0 .. TIMEOUT], count' \in {0, 1},
           asked' \subseteq asked,
           \A t \in told' : t \in told \/ (/\ t \in [of : 1 .. MaxCalls, count : {0, 1}]
                                           /\ Waiting /\ t.of = inhand.id)
    PROVE  OwnInv' /\ (AloneInv /\ Remember => AloneInv')
<1> USE DEF OwnInv, relay, vars, callers
<1>1. Kept'
  BY DEF Kept, RelayTypeOK
<1>2. Naming' /\ Requested'
  BY DEF Naming, SR!Active, Requested
<1>3. Serves' /\ Asking' /\ Deciding'
  BY DEF Serves, Busy, Waiting, Asking, Deciding, Signed
<1>4. AloneInv /\ Remember => AloneInv'
  <2>1. OwnAnswers <=> OwnAnswers'
    BY DEF OwnAnswers
  <2>2. QED
    BY <2>1 DEF AloneInv, Remember, Meets, Busy, Waiting, Known, Right
<1>5. QED
  BY <1>1, <1>2, <1>3, <1>4

(* Only the time left changes. *)
LEMMA OwnTick ==
    ASSUME RelayInv, OwnInv, Tick
    PROVE  OwnInv' /\ (AloneInv /\ Remember => AloneInv')
<1>1. /\ timer' = [c \in Clients |-> IF cpc[c] = "wait" THEN Less(timer[c]) ELSE timer[c]]
      /\ nested' = [nested EXCEPT !.left = Less(@)]
      /\ UNCHANGED <<vars, callers, requests, replies, inhand, route, served, verdict, times, time>>
  BY DEF Tick, sysVars
<1>2. \A n \in 0 .. TIMEOUT : Less(n) \in 0 .. TIMEOUT
  BY RelayAssumption DEF Less
<1> USE DEF OwnInv, vars, callers, times
<1>3. nested' \in [ask : 0 .. MaxServed, left : 0 .. TIMEOUT] /\ nested'.ask = nested.ask
  BY <1>1, <1>2 DEF Kept, RelayTypeOK
<1>4. timer' \in [Clients -> 0 .. TIMEOUT]
  BY <1>1, <1>2 DEF Kept, RelayTypeOK
<1>5. Kept'
  BY <1>1, <1>3, <1>4 DEF Kept, RelayTypeOK
<1>6. Waiting' <=> Waiting
  <2>1. Waiting => nested.ask > 0
    BY DEF Asking
  <2>2. nested = NoCall => nested' = NoCall
    BY <1>1 DEF NoCall, Less
  <2>3. nested'.ask > 0 => nested' # NoCall
    BY DEF NoCall
  <2>4. QED
    BY <1>3, <2>1, <2>2, <2>3 DEF Waiting
<1>7. Naming' /\ Requested'
  BY <1>1 DEF Naming, SR!Active, Requested
<1>8. Serves' /\ Deciding'
  BY <1>1, <1>6 DEF Serves, Busy, Deciding, Signed
<1>9. Asking'
  BY <1>1, <1>3, <1>6 DEF Asking
<1>10. AloneInv /\ Remember => AloneInv'
  <2>1. OwnAnswers <=> OwnAnswers'
    BY <1>1 DEF OwnAnswers
  <2>2. QED
    BY <1>1, <1>6, <2>1 DEF AloneInv, Remember, Meets, Busy, Known, Right
<1>11. QED
  BY <1>5, <1>7, <1>8, <1>9, <1>10

(* The relay takes a request. *)
LEMMA OwnTake ==
    ASSUME RelayInv, OwnInv, NEW d \in requests, Take(d), pc = "recv",
           UNCHANGED <<known_nodes, dest, verdict>>,
           \/ UNCHANGED <<nested, asked>> /\ pc' = "error"
           \/ /\ pc' = "recv" /\ nested' = [ask |-> served', left |-> TIMEOUT]
              /\ asked' = asked \cup {[ask |-> served', of |-> d.id]}
    PROVE  OwnInv' /\ (AloneInv /\ Remember => AloneInv')
<1>1. /\ ~Waiting /\ served' = served + 1 /\ served < MaxServed
      /\ inhand' = d /\ requests' \subseteq requests
      /\ UNCHANGED <<callers, replies, told, count, timer, time, route>>
  BY DEF Take
<1> USE DEF OwnInv, callers
<1>2. d.id = d.port /\ d.id \in 1 .. MaxCalls
  BY DEF Requested
<1>3. served \in 0 .. MaxServed /\ served' \in 1 .. MaxServed
  BY <1>1, RelayAssumption DEF Kept, RelayTypeOK
<1>4. Kept'
  <2>1. nested' \in [ask : 0 .. MaxServed, left : 0 .. TIMEOUT]
    BY <1>3, RelayAssumption DEF Kept, RelayTypeOK
  <2>2. asked' \subseteq [ask : 1 .. MaxServed, of : 1 .. MaxCalls]
    BY <1>2, <1>3 DEF Kept, RelayTypeOK
  <2>3. QED
    BY <1>1, <1>3, <2>1, <2>2 DEF Kept, RelayTypeOK
<1>5. Naming' /\ Requested' /\ Serves'
  BY <1>1, <1>2 DEF Naming, SR!Active, Requested, Serves
<1>6. Asking'
  <2>1. told = {} /\ nested.ask = 0
    BY <1>1 DEF Asking, Waiting, NoCall
  <2>2. \A a \in asked : a.ask \in 1 .. served
    BY DEF Asking
  <2>3. CASE UNCHANGED <<nested, asked>> /\ pc' = "error"
    BY <1>1, <1>3, <2>1, <2>2, <2>3 DEF Asking, Waiting
  <2>4. CASE /\ nested' = [ask |-> served', left |-> TIMEOUT]
             /\ asked' = asked \cup {[ask |-> served', of |-> d.id]}
    <3>1. nested'.ask = served' /\ \A a \in asked : a.ask # served'
      BY <1>1, <1>3, <2>2, <2>4
    <3>2. QED
      BY <1>1, <1>3, <2>1, <2>2, <2>4, <3>1 DEF Asking
  <2>5. QED
    BY <2>3, <2>4
<1>7. Deciding'
  BY DEF Deciding
<1>8. ASSUME AloneInv, Remember PROVE AloneInv'
  <2>1. quiet' => quiet /\ \A t \in TempTags : ~Known(t)'
    <3>1. served' # served
      BY <1>1, <1>3
    <3>2. QED
      BY <1>8, <3>1, Zenon DEF Remember, Meets, Known
  <2>2. OwnAnswers <=> OwnAnswers'
    BY <1>1 DEF OwnAnswers
  <2>3. pc' # "commit" /\ replies' = replies /\ route' = route
    BY <1>1
  <2>4. QED
    BY <1>8, <2>1, <2>2, <2>3 DEF AloneInv, Right
<1>9. QED
  BY <1>4, <1>5, <1>6, <1>7, <1>8

(* Its nested call returns, with the answer to it or without one. *)
LEMMA OwnResume ==
    ASSUME RelayInv, OwnInv, NEW status, NEW of, NEW evts, Resume(status, of, evts),
           (status = 200 /\ of = inhand.id) \/ (status = 408 /\ of = 0)
    PROVE  OwnInv' /\ (AloneInv /\ Remember => AloneInv')
<1>1. /\ Waiting /\ nested' = NoCall /\ told' = {}
      /\ verdict' = [status |-> IF Signed THEN 200 ELSE status, of |-> of]
      /\ UNCHANGED <<callers, requests, replies, inhand, route, served, asked, count, timer, time>>
  BY DEF Resume
<1>2. /\ pc' = "commit" /\ reply'.status = 200 /\ known_nodes' = known_nodes
      /\ dest' = [tag |-> HostTag[inhand.from], endpoint |-> inhand.port]
  BY DEF Resume, RouteAnswered, ReplyTo, Received, After, CORE_OK
<1> USE DEF OwnInv, callers
<1>3. inhand.id = inhand.port /\ inhand.id \in 1 .. MaxCalls
  BY <1>1 DEF Serves, Busy
<1>4. Kept'
  <2>1. nested' \in [ask : 0 .. MaxServed, left : 0 .. TIMEOUT]
    BY <1>1, RelayAssumption DEF NoCall
  <2>2. of \in 0 .. MaxCalls
    BY <1>3, CallerAssumption
  <2>3. verdict' \in [status : {0, 200, 408}, of : 0 .. MaxCalls]
    BY <1>1, <2>2
  <2>4. QED
    BY <1>1, <2>1, <2>3 DEF Kept, RelayTypeOK
<1>5. Naming' /\ Requested' /\ Serves'
  BY <1>1, <1>3 DEF Naming, SR!Active, Requested, Serves
<1>6. Asking'
  <2>1. nested'.ask = 0 /\ ~Waiting'
    BY <1>1 DEF NoCall, Waiting
  <2>2. QED
    BY <1>1, <2>1 DEF Asking
<1>7. Deciding'
  BY <1>1, <1>3 DEF Deciding, Signed
<1>8. ASSUME AloneInv, Remember PROVE AloneInv'
  <2>1. OwnAnswers <=> OwnAnswers'
    BY <1>1 DEF OwnAnswers
  <2>2. dest'.endpoint = inhand'.port /\ replies' = replies /\ route' = route
    BY <1>1, <1>2
  <2>3. quiet' => quiet
    BY <1>8, Zenon DEF Remember
  <2>4. (\A t \in TempTags : ~Known(t)) => \A t \in TempTags : ~Known(t)'
    BY <1>2 DEF Known
  <2>5. QED
    BY <1>1, <1>2, <1>8, <2>1, <2>2, <2>3, <2>4 DEF AloneInv, Busy, Right
<1>9. QED
  BY <1>4, <1>5, <1>6, <1>7, <1>8

(* A turn of the loop, without a request. *)
LEMMA OwnTurn ==
    ASSUME RelayInv, OwnInv, RelayTurn
    PROVE  OwnInv' /\ (AloneInv /\ Remember => AloneInv')
<1>1. /\ ~Waiting /\ (Turn \/ ReceiveKill)
      /\ UNCHANGED <<route, served, nested, verdict, asked, told, count, timer, time>>
  BY DEF RelayTurn, relay, times
<1>2. /\ \A t \in Tags \cup {NoTag} : known_nodes'[t] \in {known_nodes[t], Absent}
      /\ dest' = dest
      /\ pc' = "commit" => Known(dest.tag) /\ reply'.status = 500
      /\ UNCHANGED <<callers, requests, replies, inhand>>
  BY <1>1, TurnEffects
<1>3. pc' \in {"error", "commit"} => pc = "error"
  <2>1. ASSUME ProcessEvent PROVE pc' \notin {"error", "commit"}
    BY <2>1 DEF ProcessEvent, NoEvent, EventTerminate, EventDelete, EventUnhandled, EventApp
  <2>2. ASSUME RecvNothing \/ ErrorReply \/ ErrorDropped \/ Finalize \/ Stopped
        PROVE  pc' \in {"error", "commit"} => pc = "error"
    BY <2>2 DEF RecvNothing, ErrorReply, ErrorDropped, Finalize, Stopped
  <2>3. ASSUME ReceiveKill PROVE pc' \notin {"error", "commit"}
    BY <2>3 DEF ReceiveKill, HandleTerminate, ReturnStatus, After, CORE_OK, CORE_CONTINUE
  <2>4. QED
    BY <1>1, <2>1, <2>2, <2>3 DEF Turn
<1> USE DEF OwnInv, callers
<1>4. Kept'
  BY <1>1, <1>2 DEF Kept, RelayTypeOK
<1>5. Busy' => Busy /\ ~Waiting'
  BY <1>1, <1>3 DEF Busy, Waiting
<1>6. Naming' /\ Requested' /\ Serves'
  BY <1>2, <1>5 DEF Naming, SR!Active, Requested, Serves
<1>7. Asking'
  BY <1>1, <1>2 DEF Asking, Waiting
<1>8. Deciding'
  BY <1>2 DEF Deciding
<1>9. ASSUME AloneInv, Remember PROVE AloneInv'
  <2>1. OwnAnswers <=> OwnAnswers'
    BY <1>1, <1>2 DEF OwnAnswers
  <2>2. quiet' => quiet
    BY <1>9 DEF Remember
  <2>3. quiet /\ Busy' => pc' # "commit"
    <3>1. quiet /\ Busy' => \A t \in TempTags : ~Known(t)
      BY <1>5, <1>9 DEF AloneInv
    <3>2. QED
      BY <1>2, <3>1 DEF RelayInv, Replying
  <2>4. quiet /\ Busy' => \A t \in TempTags : ~Known(t)'
    BY <1>2, <1>5, <1>9, TagAssumption DEF AloneInv, Known
  <2>5. QED
    BY <1>1, <1>2, <1>9, <2>1, <2>2, <2>3, <2>4 DEF AloneInv, Busy, Right
<1>10. QED
  BY <1>4, <1>6, <1>7, <1>8, <1>9

(* The reply leaves, and at the port of its request when no node was in the    *)
(* table before.                                                               *)
LEMMA OwnReplies ==
    ASSUME RelayInv, OwnInv, RelayReplies
    PROVE  OwnInv' /\ (AloneInv /\ Remember => AloneInv')
<1>1. /\ ~Waiting /\ pc = "commit" /\ pc' = "head"
      /\ known_nodes' = add_node(dest)
      /\ sent'.to = known_nodes'[dest.tag]
      /\ verdict' = NoVerdict
      /\ UNCHANGED <<callers, requests, inhand, route, served, nested, asked, told, count, timer, time>>
  BY DEF RelayReplies, Commit, times
<1> DEFINE new == [id |-> inhand.id, port |-> sent'.to,
                   status |-> IF OfHandler THEN verdict.status ELSE reply.status,
                   of |-> IF OfHandler THEN verdict.of ELSE 0]
<1>2. replies' \subseteq replies \cup {new} /\ (new \in replies' => new \in replies \/ sent'.to # NoEndpoint)
  BY DEF RelayReplies
<1>3. /\ new.id = inhand.id /\ new.port = sent'.to
      /\ new.of = IF OfHandler THEN verdict.of ELSE 0
      /\ new.status = IF OfHandler THEN verdict.status ELSE reply.status
  OBVIOUS
<1> HIDE DEF new
<1> USE DEF OwnInv, callers
<1>4. ~Waiting' /\ ~Busy'
  BY <1>1 DEF Busy, Waiting
<1>5. new.of \in 0 .. MaxCalls
  BY <1>3, CallerAssumption DEF Kept, RelayTypeOK
<1>6. Kept'
  BY <1>1, <1>2, <1>5, RelayAssumption, CallerAssumption DEF Kept, RelayTypeOK, NoVerdict
<1>7. Naming' /\ Requested' /\ Serves' /\ Asking' /\ Deciding'
  BY <1>1, <1>4 DEF Naming, SR!Active, Requested, Serves, Asking, Deciding, Waiting
<1>8. ASSUME AloneInv, Remember PROVE AloneInv'
  <2>1. OwnAnswers <=> OwnAnswers'
    BY <1>1 DEF OwnAnswers
  <2>2. quiet' => quiet
    BY <1>8 DEF Remember
  <2>3. ASSUME quiet, sent'.to # NoEndpoint PROVE Right(new)
    <3>1. reply.status = 200 /\ dest.endpoint = inhand.port /\ ~Known(dest.tag) /\ dest.tag \in TempTags
      BY <1>1, <1>8, <2>3 DEF AloneInv, Busy, RelayInv, Replying
    <3>2. sent'.to = NewSocket(dest)
      BY <1>1, <3>1, TagAssumption DEF add_node, RelayInv, Types
    <3>3. new.id = new.port
      BY <1>1, <1>3, <2>3, <3>1, <3>2 DEF NewSocket, Serves, Busy
    <3>4. new.status = verdict.status /\ new.of = verdict.of
      BY <1>3, <3>1 DEF OfHandler
    <3>5. QED
      BY <1>1, <1>3, <3>1, <3>3, <3>4 DEF Right, Deciding, Signed
  <2>4. quiet => \A r \in replies' : Right(r)
    BY <1>2, <1>8, <2>3 DEF AloneInv
  <2>5. QED
    BY <1>1, <1>4, <2>1, <2>2, <2>4, <1>8 DEF AloneInv, Right
<1>9. QED
  BY <1>6, <1>7, <1>8

LEMMA OwnStep ==
    ASSUME RelayInv, OwnInv, RelayNext
    PROVE  OwnInv' /\ (AloneInv /\ Remember => AloneInv')
<1> DEFINE Goal == OwnInv' /\ (AloneInv /\ Remember => AloneInv')
<1> SUFFICES Goal
  OBVIOUS
<1> HIDE DEF Goal
<1>1. ASSUME NEW d \in requests, RelayRefuses(d) PROVE Goal
  <2>1. pc = "recv" /\ pc' = "error" /\ UNCHANGED <<known_nodes, dest>>
    BY <1>1 DEF RelayRefuses, RouteFailed, ReturnStatus, After, CORE_GENERIC_ERROR, CORE_OK
  <2>2. Take(d) /\ UNCHANGED <<nested, asked, verdict>>
    BY <1>1 DEF RelayRefuses
  <2>3. QED
    BY <2>1, <2>2, OwnTake DEF Goal
<1>2. ASSUME NEW d \in requests, RelayAsks(d) PROVE Goal
  BY <1>2, OwnTake DEF RelayAsks, NestedTimeout, Goal
<1>3. ASSUME NEW t \in told, RelayAnswered(t) PROVE Goal
  <2> DEFINE evts == IF t.count >= 1 THEN <<HighMark>> ELSE <<>>
  <2>1. Resume(200, t.of, evts)
    BY <1>3 DEF RelayAnswered
  <2> HIDE DEF evts
  <2>2. (200 = 200 /\ t.of = inhand.id) \/ (200 = 408 /\ t.of = 0)
    BY DEF OwnInv, Asking
  <2>3. QED
    BY <2>1, <2>2, OwnResume DEF Goal
<1>4. CASE RelayTimesOut \/ RelayRecvFails
  BY <1>4, OwnResume DEF RelayTimesOut, RelayRecvFails, Goal
<1>5. CASE RelayTurn
  BY <1>5, OwnTurn DEF Goal
<1>6. CASE RelayReplies
  BY <1>6, OwnReplies DEF Goal
<1>7. CASE KillRelay
  <2>1. UNCHANGED <<vars, callers, requests, replies, inhand, relay, times, timer, time>>
    BY <1>7 DEF KillRelay, Kill
  <2>2. nested' = nested /\ timer' \in [Clients -> 0 .. TIMEOUT] /\ count' \in {0, 1}
        /\ asked' \subseteq asked /\ told' = told
    BY <2>1 DEF times, relay, OwnInv, Kept, RelayTypeOK
  <2>3. QED
    BY <2>1, <2>2, OwnRest DEF Goal
<1>8. CASE Tick
  BY <1>8, OwnTick DEF Goal
<1>9. ASSUME NEW a \in asked, TimeAnswers(a) PROVE Goal
  <2>1. UNCHANGED <<vars, callers, requests, replies, inhand, relay, time>>
    BY <1>9 DEF TimeAnswers, sysVars
  <2>2. nested' = nested /\ timer' \in [Clients -> 0 .. TIMEOUT] /\ count' \in {0, 1}
        /\ asked' \subseteq asked
    BY <1>9 DEF TimeAnswers, relay, OwnInv, Kept, RelayTypeOK
  <2>3. nested.ask = a.ask => Waiting /\ a.of = inhand.id
    BY DEF OwnInv, Asking, Waiting, NoCall
  <2>4. [of |-> a.of, count |-> count] \in [of : 1 .. MaxCalls, count : {0, 1}]
    BY DEF OwnInv, Kept, RelayTypeOK
  <2>5. \A t \in told' : t \in told \/ (/\ t \in [of : 1 .. MaxCalls, count : {0, 1}]
                                         /\ Waiting /\ t.of = inhand.id)
    BY <1>9, <2>3, <2>4 DEF TimeAnswers, Open
  <2>6. QED
    BY <2>1, <2>2, <2>5, OwnRest DEF Goal
<1>10. ASSUME NEW c \in Clients, ClientStep(c) PROVE Goal
  BY <1>10, OwnBinds, OwnSends, OwnTimesOut, OwnReceives DEF ClientStep, Goal
<1>11. CASE RelayLoop
  BY <1>1, <1>2, <1>3, <1>4, <1>5, <1>6, <1>11 DEF RelayLoop
<1>12. QED
  BY <1>4, <1>7, <1>8, <1>9, <1>10, <1>11 DEF RelayNext

(* Every field of the relay and of its callers keeps its range. *)
THEOREM RelayTyped == RelaySpec => []RelayTypeOK
<1>1. RelayInit => RelayInv /\ OwnInv
  BY RelayInitInv, OwnInitInv
<1>2. RelayInv /\ OwnInv /\ [RelayNext]_relayVars => (RelayInv /\ OwnInv)'
  <2>1. ASSUME OwnInv, UNCHANGED relayVars PROVE OwnInv'
    BY <2>1 DEF OwnInv, relayVars, sysVars, vars, callers, relay, times, Kept, RelayTypeOK, Naming,
       SR!Active, Requested, Serves, Busy, Waiting, Asking, Deciding, Signed
  <2>2. QED
    BY <2>1, RelayStep, OwnStep
<1>3. OwnInv => RelayTypeOK
  BY DEF OwnInv, Kept
<1>4. QED
  BY <1>1, <1>2, <1>3, PTL DEF RelaySpec

(* Every caller gets the relay's answer to its own request, with the time that *)
(* was asked for it, as long as the relay has met no request with a client's   *)
(* node in its table, for any number of callers, hosts, calls and ticks.       *)
THEOREM OwnIfQuiet == QuietSpec => []OwnAnswersIfQuiet
<1> DEFINE Inv == RelayInv /\ OwnInv /\ AloneInv
<1>1. QuietInit => Inv
  BY RelayInitInv, OwnInitInv DEF QuietInit
<1>2. Inv /\ [RelayNext /\ Remember]_<<relayVars, quiet, patient>> => Inv'
  <2>1. ASSUME OwnInv, AloneInv, UNCHANGED <<relayVars, quiet>> PROVE OwnInv' /\ AloneInv'
    <3> USE DEF relayVars, sysVars, vars, callers, relay, times
    <3>1. OwnInv'
      BY <2>1 DEF OwnInv, Kept, RelayTypeOK, Naming, SR!Active, Requested, Serves, Busy, Waiting,
         Asking, Deciding, Signed
    <3>2. AloneInv'
      BY <2>1 DEF AloneInv, Busy, Waiting, Known, Right, OwnAnswers
    <3>3. QED
      BY <3>1, <3>2
  <2>2. QED
    BY <2>1, RelayStep, OwnStep
<1>3. Inv => OwnAnswersIfQuiet
  BY DEF AloneInv, OwnAnswersIfQuiet
<1>4. QED
  BY <1>1, <1>2, <1>3, PTL DEF QuietSpec
=============================================================================
