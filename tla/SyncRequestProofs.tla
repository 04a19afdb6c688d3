------------------------- MODULE SyncRequestProofs -------------------------
(***************************************************************************)
(* Proofs about the callers of sync_send_request and async_send_request,    *)
(* for any number of callers, ports and calls.                              *)
(***************************************************************************)
EXTENDS SyncDraws, TLAPS

USE ClientAssumption, ModeAssumption
USE DEF HTTP_STATUS_OK, HTTP_STATUS_NOT_FOUND, HTTP_STATUS_REQUEST_TIMEOUT,
        HTTP_STATUS_SERVICE_UNAVAILABLE, Answers

(* Calls are numbered as they are made. *)
CallsCounted == \A c \in Clients : call[c] <= calls

(* A request names the port of its caller, which Bind has set.                *)
TypeInv == TypeOK /\ PortDrawn /\ CallsCounted

(* What this step's draw hits, if it is one. *)
DrawsBound == \A c \in Clients, p \in Ports : Bind(c, p) => owner'[p] = c
DrawsQuiet == \A c \in Clients, p \in Ports : Bind(c, p) => ~Travelling(p)

(* What a step keeps of the ports. *)
PortsKept == PortsReleased' /\ (PortsHeld /\ DrawsBound => PortsHeld')

(* Every step of a caller, the network or the service keeps the types.        *)
LEMMA TypeStep ==
    ASSUME TypeInv, [Next]_vars
    PROVE  TypeInv'
<1> USE DEF TypeInv, TypeOK, PortDrawn, CallsCounted, Active, Holds, Request, Response, Outcome,
            Status, callers, traffic
<1>1. ASSUME NEW c \in Clients, NoPortFound(c) PROVE TypeInv'
  BY <1>1 DEF NoPortFound
<1>2. ASSUME NEW c \in Clients, NEW p \in Ports, Bind(c, p) PROVE TypeInv'
  BY <1>2 DEF Bind, ServerBinds, ServerThrows, Travelling
<1>3. ASSUME NEW c \in Clients, RefuseRequest(c) PROVE TypeInv'
  BY <1>3 DEF RefuseRequest, Return, Released
<1>4. ASSUME NEW c \in Clients, AbortRequest(c) PROVE TypeInv'
  BY <1>4 DEF AbortRequest, Crash, Released
<1>5. ASSUME NEW c \in Clients, SendRequest(c) PROVE TypeInv'
  BY <1>5 DEF SendRequest, RequestOf
<1>6. ASSUME NEW c \in Clients, SendNowhere(c) PROVE TypeInv'
  BY <1>6 DEF SendNowhere
<1>7. ASSUME NEW c \in Clients, SendAsync(c) PROVE TypeInv'
  BY <1>7 DEF SendAsync, RequestOf, Return, Released
<1>8. ASSUME NEW c \in Clients, RequestTimeout(c) PROVE TypeInv'
  BY <1>8 DEF RequestTimeout, Return, Released
<1>9. ASSUME NEW c \in Clients, ReceiveCrash(c) PROVE TypeInv'
  BY <1>9 DEF ReceiveCrash, Crash, Released
<1>10. ASSUME NEW c \in Clients, NEW r \in replies, ReceiveResponse(c, r) PROVE TypeInv'
  BY <1>10 DEF ReceiveResponse, CanRead, Return, Released
<1>11. ASSUME NEW d \in requests, LoseRequest(d) PROVE TypeInv'
  BY <1>11 DEF LoseRequest
<1>12. ASSUME NEW r \in replies, LoseResponse(r) PROVE TypeInv'
  BY <1>12 DEF LoseResponse
<1>13. ASSUME NEW d \in requests, AcceptRequest(d) PROVE TypeInv'
  BY <1>13 DEF AcceptRequest
<1>14. ASSUME NEW d \in serving, DropRequest(d) PROVE TypeInv'
  BY <1>14 DEF DropRequest
<1>15. ASSUME NEW d \in serving, NEW s \in Answers, AnswerRequest(d, s) PROVE TypeInv'
  BY <1>15 DEF AnswerRequest
<1>16. CASE UNCHANGED vars
  BY <1>16 DEF vars
<1>17. QED
  BY <1>1, <1>2, <1>3, <1>4, <1>5, <1>6, <1>7, <1>8, <1>9, <1>10, <1>11, <1>12,
     <1>13, <1>14, <1>15, <1>16
  DEF Next, ClientNext, Call, Proceed, Network, Service, Finished

(* Every way out of a call closes the port that bind() has given it, and when  *)
(* every bind succeeds nothing else takes it away.                             *)
LEMMA HeldStep ==
    ASSUME TypeInv, TypeInv', PortsReleased, [Next]_vars
    PROVE  PortsKept
<1> USE DEF TypeInv, TypeOK, PortDrawn, PortsKept, PortsReleased, PortsHeld, Active, Holds, callers,
            traffic
<1>1. ASSUME NEW c \in Clients, NoPortFound(c) PROVE PortsKept
  BY <1>1 DEF NoPortFound
<1>2. ASSUME NEW c \in Clients, NEW p \in Ports, Bind(c, p) PROVE PortsKept
  <2>1. /\ cpc[c] = "idle" /\ cpc' = [cpc EXCEPT ![c] = "bound"] /\ port' = [port EXCEPT ![c] = p]
        /\ ServerBinds(c, p) \/ ServerThrows(p)
    BY <1>2 DEF Bind
  <2>2. PortsReleased'
    BY <2>1 DEF ServerBinds, ServerThrows
  <2>3. DrawsBound => owner'[p] = c
    BY <1>2 DEF DrawsBound
  <2>4. PortsHeld /\ owner'[p] = c => PortsHeld'
    BY <2>1, <2>2 DEF ServerBinds, ServerThrows
  <2>5. QED
    BY <2>2, <2>3, <2>4
<1>3. ASSUME NEW c \in Clients, RefuseRequest(c) PROVE PortsKept
  BY <1>3 DEF RefuseRequest, Return, Released
<1>4. ASSUME NEW c \in Clients, AbortRequest(c) PROVE PortsKept
  BY <1>4 DEF AbortRequest, Crash, Released
<1>5. ASSUME NEW c \in Clients, SendRequest(c) PROVE PortsKept
  BY <1>5 DEF SendRequest, RequestOf
<1>6. ASSUME NEW c \in Clients, SendNowhere(c) PROVE PortsKept
  BY <1>6 DEF SendNowhere
<1>7. ASSUME NEW c \in Clients, SendAsync(c) PROVE PortsKept
  BY <1>7 DEF SendAsync, RequestOf, Return, Released
<1>8. ASSUME NEW c \in Clients, RequestTimeout(c) PROVE PortsKept
  BY <1>8 DEF RequestTimeout, Return, Released
<1>9. ASSUME NEW c \in Clients, ReceiveCrash(c) PROVE PortsKept
  BY <1>9 DEF ReceiveCrash, Crash, Released
<1>10. ASSUME NEW c \in Clients, NEW r \in replies, ReceiveResponse(c, r) PROVE PortsKept
  BY <1>10 DEF ReceiveResponse, CanRead, Return, Released
<1>11. ASSUME NEW d \in requests, LoseRequest(d) PROVE PortsKept
  BY <1>11 DEF LoseRequest
<1>12. ASSUME NEW r \in replies, LoseResponse(r) PROVE PortsKept
  BY <1>12 DEF LoseResponse
<1>13. ASSUME NEW d \in requests, AcceptRequest(d) PROVE PortsKept
  BY <1>13 DEF AcceptRequest
<1>14. ASSUME NEW d \in serving, DropRequest(d) PROVE PortsKept
  BY <1>14 DEF DropRequest
<1>15. ASSUME NEW d \in serving, NEW s \in Answers, AnswerRequest(d, s) PROVE PortsKept
  BY <1>15 DEF AnswerRequest
<1>16. CASE UNCHANGED vars
  BY <1>16 DEF vars
<1>17. QED
  BY <1>1, <1>2, <1>3, <1>4, <1>5, <1>6, <1>7, <1>8, <1>9, <1>10, <1>11, <1>12,
     <1>13, <1>14, <1>15, <1>16
  DEF Next, ClientNext, Call, Proceed, Network, Service, Finished

(* When no draw hits a port that an earlier call's datagrams still name       *)
(* either, what travels to a bound port belongs to the call that bound it.     *)
LEMMA OwnStep ==
    ASSUME TypeInv, TypeInv', PortsHeld, TrafficCurrent, AnswersOwnRequest,
           DrawsBound, DrawsQuiet, [Next]_vars
    PROVE  TrafficCurrent' /\ AnswersOwnRequest'
<1> USE DEF TypeInv, TypeOK, PortDrawn, PortsReleased, PortsHeld, Active, Holds, TrafficCurrent,
            AnswersOwnRequest, Request, Response, Outcome, Status, callers, traffic
<1>1. ASSUME NEW c \in Clients, NoPortFound(c) PROVE TrafficCurrent' /\ AnswersOwnRequest'
  BY <1>1 DEF NoPortFound
<1>2. ASSUME NEW c \in Clients, NEW p \in Ports, Bind(c, p) PROVE TrafficCurrent' /\ AnswersOwnRequest'
  <2>1. owner'[p] = c /\ ~Travelling(p)
    BY <1>2 DEF DrawsBound, DrawsQuiet
  <2>2. owner' = [owner EXCEPT ![p] = c]
    BY <1>2, <2>1 DEF Bind, ServerBinds, ServerThrows
  <2>3. QED
    BY <1>2, <2>1, <2>2 DEF Bind, Travelling
<1>3. ASSUME NEW c \in Clients, RefuseRequest(c) PROVE TrafficCurrent' /\ AnswersOwnRequest'
  BY <1>3 DEF RefuseRequest, Return, Released
<1>4. ASSUME NEW c \in Clients, AbortRequest(c) PROVE TrafficCurrent' /\ AnswersOwnRequest'
  BY <1>4 DEF AbortRequest, Crash, Released
<1>5. ASSUME NEW c \in Clients, SendRequest(c) PROVE TrafficCurrent' /\ AnswersOwnRequest'
  BY <1>5 DEF SendRequest, RequestOf
<1>6. ASSUME NEW c \in Clients, SendNowhere(c) PROVE TrafficCurrent' /\ AnswersOwnRequest'
  BY <1>6 DEF SendNowhere
<1>7. ASSUME NEW c \in Clients, SendAsync(c) PROVE TrafficCurrent' /\ AnswersOwnRequest'
  BY <1>7 DEF SendAsync, RequestOf, Return, Released
<1>8. ASSUME NEW c \in Clients, RequestTimeout(c) PROVE TrafficCurrent' /\ AnswersOwnRequest'
  BY <1>8 DEF RequestTimeout, Return, Released
<1>9. ASSUME NEW c \in Clients, ReceiveCrash(c) PROVE TrafficCurrent' /\ AnswersOwnRequest'
  BY <1>9 DEF ReceiveCrash, Crash, Released
<1>10. ASSUME NEW c \in Clients, NEW r \in replies, ReceiveResponse(c, r) PROVE TrafficCurrent' /\ AnswersOwnRequest'
  BY <1>10 DEF ReceiveResponse, CanRead, Return, Released
<1>11. ASSUME NEW d \in requests, LoseRequest(d) PROVE TrafficCurrent' /\ AnswersOwnRequest'
  BY <1>11 DEF LoseRequest
<1>12. ASSUME NEW r \in replies, LoseResponse(r) PROVE TrafficCurrent' /\ AnswersOwnRequest'
  BY <1>12 DEF LoseResponse
<1>13. ASSUME NEW d \in requests, AcceptRequest(d) PROVE TrafficCurrent' /\ AnswersOwnRequest'
  BY <1>13 DEF AcceptRequest
<1>14. ASSUME NEW d \in serving, DropRequest(d) PROVE TrafficCurrent' /\ AnswersOwnRequest'
  BY <1>14 DEF DropRequest
<1>15. ASSUME NEW d \in serving, NEW s \in Answers, AnswerRequest(d, s) PROVE TrafficCurrent' /\ AnswersOwnRequest'
  BY <1>15 DEF AnswerRequest
<1>16. CASE UNCHANGED vars
  BY <1>16 DEF vars
<1>17. QED
  BY <1>1, <1>2, <1>3, <1>4, <1>5, <1>6, <1>7, <1>8, <1>9, <1>10, <1>11, <1>12,
     <1>13, <1>14, <1>15, <1>16
  DEF Next, ClientNext, Call, Proceed, Network, Service, Finished
-----------------------------------------------------------------------------
LEMMA InitInv == Init => TypeInv /\ PortsHeld /\ TrafficCurrent /\ AnswersOwnRequest
BY DEF Init, TypeInv, TypeOK, PortDrawn, CallsCounted, Active, Status, Outcome, PortsHeld, PortsReleased,
       TrafficCurrent, AnswersOwnRequest

LEMMA TypesKept == Spec => []TypeInv
BY InitInv, TypeStep, PTL DEF Spec

(* The callers', the operating system's and the network's state keep their    *)
(* types.                                                                      *)
THEOREM TypeCorrect == Spec => []TypeOK
BY TypesKept, PTL DEF TypeInv

(* If no bind fails, neither on a port in use nor on a free one, a running     *)
(* call's socket is bound to its port and no port is left bound by a call that *)
(* returned, refused, timed out or aborted.                                    *)
THEOREM PortsAreHeld ==
    ASSUME ~MayCollide, ~MayFail
    PROVE  Spec => []PortsHeld
<1>1. TypeInv => DrawsBound
  BY DEF DrawsBound, Bind, ServerBinds, ServerThrows, TypeInv, TypeOK
<1>2. TypeInv /\ TypeInv' /\ PortsHeld /\ [Next]_vars => PortsHeld'
  BY <1>1, HeldStep DEF PortsKept, PortsHeld
<1>3. QED
  BY <1>2, InitInv, TypesKept, PTL DEF Spec

(* If, besides, a drawn port is not named by any datagram still under way, the *)
(* only datagrams a call can receive answer its own request, although they     *)
(* carry nothing to tell: loss, duplication, reordering, late answers and any  *)
(* number of other callers do not matter.                                      *)
THEOREM OwnAnswers ==
    ASSUME ~MayCollide, ~MayFail, ~MayReuse
    PROVE  Spec => []AnswersOwnRequest
<1>1. TypeInv => DrawsBound /\ DrawsQuiet
  BY DEF DrawsBound, DrawsQuiet, Bind, ServerBinds, ServerThrows, TypeInv, TypeOK
<1>2. TypeInv /\ TypeInv' /\ PortsHeld /\ TrafficCurrent /\ AnswersOwnRequest /\ [Next]_vars
        => TrafficCurrent' /\ AnswersOwnRequest'
  BY <1>1, OwnStep
<1>3. QED
  BY <1>2, InitInv, TypesKept, PortsAreHeld, PTL DEF Spec
-----------------------------------------------------------------------------
(* Callers who may draw any port, as long as they were lucky. *)

(* A bind that fails, and a draw of a port that a datagram names, is remembered. *)
LEMMA DrawsNoted ==
    ASSUME TypeInv, TypeInv'
    PROVE  (~Unbound => DrawsBound) /\ (~Reused => DrawsQuiet)
<1>1. ASSUME NEW c \in Clients, NEW p \in Ports, Bind(c, p)
      PROVE  Drawn(c, p)
  <2>1. call'[c] = calls + 1 /\ port'[c] = p /\ cpc'[c] = "bound"
    BY <1>1 DEF Bind, TypeInv, TypeOK
  <2>2. call[c] \in Nat /\ calls \in Nat /\ call[c] <= calls
    BY DEF TypeInv, TypeOK, CallsCounted
  <2>3. QED
    BY <2>1, <2>2 DEF Drawn
<1>2. QED
  BY <1>1 DEF Unbound, Reused, DrawsBound, DrawsQuiet

Drawing == draws \in {"quiet", "bound", "any"}

QuietInv == draws = "quiet" => TrafficCurrent /\ AnswersOwnRequest

DrawsInv == TypeInv /\ Drawing /\ PortsHeldIfBound /\ QuietInv

LEMMA DrawsInvInit == DrawsInit => DrawsInv
BY InitInv DEF DrawsInit, DrawsInv, Drawing, PortsHeldIfBound, PortsHeld, QuietInv

LEMMA DrawsInvStep ==
    ASSUME DrawsInv, [Next /\ Remember]_<<vars, draws>>
    PROVE  DrawsInv'
<1> USE DEF DrawsInv
<1>1. CASE UNCHANGED <<vars, draws>>
  BY <1>1 DEF vars, callers, traffic, TypeInv, TypeOK, PortDrawn, CallsCounted, Active, Holds,
              Drawing, PortsHeldIfBound, PortsReleased, PortsHeld, QuietInv, TrafficCurrent, AnswersOwnRequest
<1>2. CASE Next /\ Remember
  <2>1. TypeInv'
    BY <1>2, TypeStep
  <2>2. PortsKept
    BY <1>2, <2>1, HeldStep DEF PortsHeldIfBound
  <2>3. /\ draws' \in {"quiet", "bound", "any"}
        /\ draws' # "any" => draws # "any" /\ ~Unbound
        /\ draws' = "quiet" => draws \notin {"bound", "any"} /\ ~Unbound /\ ~Reused
    <3>1. Unbound \in BOOLEAN /\ Reused \in BOOLEAN
      BY DEF Unbound, Reused
    <3>2. QED
      BY <1>2, <3>1 DEF Remember, Drawing
  <2>4. PortsHeldIfBound'
    <3> SUFFICES ASSUME draws' # "any" PROVE PortsHeld'
      BY <2>2, <2>3 DEF PortsHeldIfBound, PortsKept
    <3>1. draws # "any" /\ ~Unbound
      BY <2>3
    <3>2. PortsHeld /\ DrawsBound
      BY <2>1, <3>1, DrawsNoted DEF PortsHeldIfBound, Drawing
    <3>3. QED
      BY <2>2, <3>2 DEF PortsKept
  <2>5. QuietInv'
    <3> SUFFICES ASSUME draws' = "quiet" PROVE TrafficCurrent' /\ AnswersOwnRequest'
      BY DEF QuietInv
    <3>1. draws = "quiet" /\ ~Unbound /\ ~Reused
      BY <2>3 DEF Drawing
    <3>2. PortsHeld /\ TrafficCurrent /\ AnswersOwnRequest /\ DrawsBound /\ DrawsQuiet
      BY <2>1, <3>1, DrawsNoted DEF PortsHeldIfBound, QuietInv
    <3>3. QED
      BY <1>2, <2>1, <3>2, OwnStep
  <2>6. QED
    BY <2>1, <2>3, <2>4, <2>5 DEF Drawing
<1>3. QED
  BY <1>1, <1>2

LEMMA DrawsKept == DrawsSpec => []DrawsInv
BY DrawsInvInit, DrawsInvStep, PTL DEF DrawsSpec

(* Until a bind fails, for whichever reason, sockets hold the ports of running *)
(* calls, although nothing in the code keeps draws apart; and whatever fails,  *)
(* they hold no others.                                                        *)
THEOREM HeldIfBound == DrawsSpec => []PortsHeldIfBound
BY DrawsKept, PTL DEF DrawsInv

(* Until a bind fails or a draw hits a port that a datagram still names, every *)
(* answer that a call returns is the one to its own request.                   *)
THEOREM OwnIfQuiet == DrawsSpec => []OwnAnswerIfQuiet
<1>1. DrawsInv => OwnAnswerIfQuiet
  BY DEF DrawsInv, QuietInv, OwnAnswerIfQuiet
<1>2. QED
  BY <1>1, DrawsKept, PTL
=============================================================================
