------------------------------- MODULE Relay -------------------------------
(***************************************************************************)
(* The tutorial's relay service, on its Messenger: the handler of its       *)
(* routes calls the time service with sync_send_request, so the relay's     *)
(* loop stands still, with a timeout of its own, inside a call that has     *)
(* the same timeout.  Timers count in ticks of one clock.                   *)
(* RequestService has the callers, the Messenger and the network between.   *)
(***************************************************************************)
EXTENDS RequestService

CONSTANTS
    time_service,  \* the tag that the relay looks up
    TimeEndpoint,  \* where the time service is
    Routes,        \* what the clients' calls may ask the relay for, one after the other
    TIMEOUT,       \* the default timeout of sync_send_request, in ticks
    MaxServed      \* bound: how many requests the relay takes

ASSUME TimeServiceAssumption ==
    /\ time_service \in Tags \ TempTags
    /\ TimeEndpoint \in Connectable

(* Callers' binds succeed here: SyncRequest has those that fail. *)
ASSUME RelayAssumption ==
    /\ ~MayFail
    /\ 1 .. MaxCalls \subseteq Endpoints
    /\ Routes \subseteq [1 .. MaxCalls -> {"relay", "add_sign", "malformed"}]
    /\ TIMEOUT \in Nat \ {0}
    /\ MaxServed \in Nat

HIGH_MARK == 1     \* the number that register_evt_handler gives

HighMark == [type |-> HIGH_MARK, tag |-> NoTag]

VARIABLES
    route,      \* which of Routes it is
    served,     \* how many requests the relay has taken
    nested,     \* the nested call: which request it is for (0: none), its time left
    asked,      \* requests of nested calls on their way to the time service
    told,       \* and the answers
    count,      \* the time service's count: 0, or 1 for any more
    verdict,    \* the relay's reply in hand
    timer,      \* the time left to each call
    time        \* the call whose time each caller was told last (0: none)

relay     == <<route, served, nested, verdict>>
times     == <<asked, told, count>>
relayVars == <<sysVars, relay, times, timer, time>>

NoCall    == [ask |-> 0, left |-> 0]
NoVerdict == [status |-> 0, of |-> 0]

RelayInit ==
    /\ LoopInit
    /\ known_nodes \in [Tags \cup {NoTag} -> {Absent, TimeEndpoint}]
    /\ \A t \in Tags \cup {NoTag} : t # time_service => ~Known(t)
    /\ CallersInit
    /\ route \in Routes
    /\ served = 0
    /\ nested = NoCall
    /\ asked = {}
    /\ told = {}
    /\ count \in {0, 1}
    /\ verdict = NoVerdict
    /\ timer = [c \in Clients |-> 0]
    /\ time = [c \in Clients |-> 0]
-----------------------------------------------------------------------------
(* The relay.  It reads nothing else while its handler waits. *)

Waiting == nested # NoCall

Take(d) ==
    /\ ~Waiting /\ served < MaxServed
    /\ served' = served + 1
    /\ inhand' = d
    /\ requests' \in {requests, requests \ {d}}
    /\ sent' = Nothing
    /\ UNCHANGED <<callers, replies, killed, told, count, timer, time, route>>

IsRelayed(d) == route[d.id] \in {"relay", "add_sign"}

(* No time service is known, the body is not JSON or names no callback: what  *)
(* the handler returns is not CORE_OK.                                        *)
RelayRefuses(d) ==
    /\ Take(d)
    /\ route[d.id] = "malformed" \/ (IsRelayed(d) /\ ~Known(time_service))
    /\ RouteFailed(Received(d, "service"), <<>>)
    /\ UNCHANGED <<nested, asked, verdict>>

(* Mutant: the nested call's timeout is shorter than its caller's. *)
NestedTimeout_shorter == TIMEOUT - 1

(* Mutant: the timeout of the relay's own loop. *)
NestedTimeout_loop == 10 * TIMEOUT

NestedTimeout == TIMEOUT

(* The callback is added, and the nested call draws a port of its own.        *)
RelayAsks(d) ==
    /\ Take(d) /\ pc = "recv"
    /\ IsRelayed(d) /\ Known(time_service)
    /\ nested' = [ask |-> served', left |-> NestedTimeout]
    /\ asked' = asked \cup {[ask |-> served', of |-> d.id]}
    /\ UNCHANGED <<pc, should_run, known_nodes, event_queue, timeout, reply, dest, verdict>>

Signed == route[inhand.id] = "add_sign"

Resume(status, of, evts) ==
    /\ Waiting
    /\ RouteAnswered(Received(inhand, "service"), evts)
    /\ nested' = NoCall
    /\ told' = {}
    /\ verdict' = [status |-> IF Signed THEN SR!HTTP_STATUS_OK ELSE status, of |-> of]
    /\ sent' = Nothing
    /\ UNCHANGED <<callers, requests, replies, inhand, killed, route, served, asked, count,
                   timer, time>>

RelayAnswered(t) == Resume(SR!HTTP_STATUS_OK, t.of, IF t.count >= 1 THEN <<HighMark>> ELSE <<>>)

(* Mutant: recv without a timeout. *)
RelayTimesOut_never ==
    /\ nested.left = 0 /\ told # {}
    /\ Resume(SR!HTTP_STATUS_REQUEST_TIMEOUT, 0, <<>>)

(* The nested call returns 408, without a count; add_sign makes it a 200.     *)
RelayTimesOut ==
    /\ nested.left = 0
    /\ Resume(SR!HTTP_STATUS_REQUEST_TIMEOUT, 0, <<>>)

(* It does so at once when select() fails or the datagram is empty. *)
RelayRecvFails == Resume(SR!HTTP_STATUS_REQUEST_TIMEOUT, 0, <<>>)

(* One turn of the loop.  The HIGH_MARK event calls every callback back with   *)
(* async_send_request: that goes to other services, and nothing comes back.   *)
RelayTurn ==
    /\ ~Waiting
    /\ Turn \/ ReceiveKill
    /\ UNCHANGED <<relay, times, timer, time>>

OfHandler == reply.status = SR!HTTP_STATUS_OK

(* The reply: what the handler made of the nested call's, or a 201 or a 500.  *)
RelayReplies ==
    /\ ~Waiting
    /\ Commit
    /\ replies' =
          IF sent'.to = NoEndpoint \/ owner[sent'.to] = NoClient THEN replies
          ELSE replies \cup
               {[id |-> inhand.id, port |-> sent'.to,
                 status |-> IF OfHandler THEN verdict.status ELSE reply.status,
                 of |-> IF OfHandler THEN verdict.of ELSE 0]}
    /\ verdict' = NoVerdict
    /\ UNCHANGED <<callers, requests, inhand, killed, route, served, nested, times, timer, time>>
-----------------------------------------------------------------------------
(* The time service.  A message of any set that is never taken is lost. *)

(* Mutant: every nested call has the same port. *)
Open_always(ask) == Waiting

(* The port of the nested call is open while it waits. *)
Open(ask) == nested.ask = ask

TimeAnswers(a) ==
    /\ count' = 1
    /\ asked' = asked \ {a}
    /\ told' = IF Open(a.ask) THEN told \cup {[of |-> a.of, count |-> count]} ELSE told
    /\ UNCHANGED <<sysVars, relay, timer, time>>
-----------------------------------------------------------------------------
(* The callers.  Every call has a port of its own. *)

ClientBinds(c) ==
    /\ SR!Bind(c, calls + 1)
    /\ time' = [time EXCEPT ![c] = 0]
    /\ UNCHANGED timer

ClientSends(c) ==
    /\ SR!SendRequest(c)
    /\ timer' = [timer EXCEPT ![c] = TIMEOUT]
    /\ UNCHANGED time

ClientReceives(c, r) ==
    /\ SR!ReceiveResponse(c, r)
    /\ time' = [time EXCEPT ![c] = r.of]
    /\ timer' = [timer EXCEPT ![c] = 0]

(* The timeout passed, or its recv failed or got an empty datagram before. *)
ClientTimesOut(c) ==
    /\ SR!RequestTimeout(c)
    /\ timer' = [timer EXCEPT ![c] = 0]
    /\ UNCHANGED time

ClientStep(c) ==
    /\ UNCHANGED <<vars, inhand, killed, relay, times>>
    /\ \/ ClientBinds(c) \/ ClientSends(c) \/ ClientTimesOut(c)
       \/ \E r \in replies : ClientReceives(c, r)

Less(n) == IF n = 0 THEN 0 ELSE n - 1

(* Time passes: for every call at once, and for a caller from its send on (no  *)
(* caller is held up for a tick between its send and its recv).               *)
Tick ==
    /\ timer' = [c \in Clients |-> IF cpc[c] = "wait" THEN Less(timer[c]) ELSE timer[c]]
    /\ nested' = [nested EXCEPT !.left = Less(@)]
    /\ UNCHANGED <<sysVars, route, served, verdict, times, time>>

KillRelay ==
    /\ Kill
    /\ UNCHANGED <<relay, times, timer, time>>
-----------------------------------------------------------------------------
RelayLoop ==
    \/ \E d \in requests : RelayRefuses(d) \/ RelayAsks(d)
    \/ \E t \in told : RelayAnswered(t)
    \/ RelayTimesOut \/ RelayTurn \/ RelayReplies

RelayNext ==
    \/ RelayLoop \/ RelayRecvFails \/ KillRelay \/ Tick
    \/ \E a \in asked : TimeAnswers(a)
    \/ \E c \in Clients : ClientStep(c)

RelaySpec == RelayInit /\ [][RelayNext]_relayVars

(* The relay's thread runs, and time passes; nothing is assumed of failures. *)
RelayFairness == WF_relayVars(RelayLoop) /\ WF_relayVars(Tick)
-----------------------------------------------------------------------------
RelayTypeOK ==
    /\ served \in 0 .. MaxServed
    /\ nested \in [ask : 0 .. MaxServed, left : 0 .. TIMEOUT]
    /\ asked \subseteq [ask : 1 .. MaxServed, of : 1 .. MaxCalls]
    /\ told \subseteq [of : 1 .. MaxCalls, count : {0, 1}]
    /\ count \in {0, 1}
    /\ verdict \in [status : {0, SR!HTTP_STATUS_OK, SR!HTTP_STATUS_REQUEST_TIMEOUT},
                    of : 0 .. MaxCalls]
    /\ timer \in [Clients -> 0 .. TIMEOUT]
    /\ time \in [Clients -> 0 .. MaxCalls]

(* The response that a caller gets is the relay's to the request it made (not *)
(* the 500 to another one either), and the time in it is the one that the     *)
(* relay asked for that request: only add_sign says 200 without one.          *)
OwnAnswers ==
    \A c \in Clients :
        /\ outcome[c].id \in {0, call[c]}
        /\ outcome[c].status = SR!HTTP_STATUS_OK =>
              time[c] = call[c] \/ (time[c] = 0 /\ route[call[c]] = "add_sign")

(* The relay gives a nested call up when its caller has given the relay up:   *)
(* both wait as long, and the caller began before.  A 408 of the relay finds  *)
(* no caller that has time left (GivesUpLastIfPatient says when).             *)
GivesUpLast ==
    \A r \in replies :
        (r.status = SR!HTTP_STATUS_REQUEST_TIMEOUT /\ owner[r.port] # NoClient) =>
            timer[owner[r.port]] = 0

(* A relay that has read its terminate stops, although its time service may   *)
(* never answer and its own handlers put events before it.                    *)
KillObeyed == killed = "received" ~> pc \in {"done", "crashed"}
=============================================================================
