----------------------------- MODULE SyncDraws ------------------------------
(***************************************************************************)
(* SyncRequest's callers, who draw any port, and what their draws were so  *)
(* far: the program has no such variable, it is what its promises depend   *)
(* on.                                                                     *)
(***************************************************************************)
EXTENDS SyncRequest

VARIABLE draws    \* "quiet": each bound a port that no datagram named; "bound": each bound its port

(* A call drew a port, and bind failed on it, or a datagram still named it. *)
Drawn(c, p) == call'[c] # call[c] /\ port'[c] = p /\ cpc'[c] = "bound"
Unbound == \E c \in Clients, p \in Ports : Drawn(c, p) /\ owner'[p] # c
Reused  == \E c \in Clients, p \in Ports : Drawn(c, p) /\ Travelling(p)

Remember ==
    draws' = IF draws = "any" \/ Unbound THEN "any"
             ELSE IF draws = "bound" \/ Reused THEN "bound" ELSE draws

DrawsInit == Init /\ draws = "quiet"

DrawsSpec ==
    /\ DrawsInit
    /\ [][Next /\ Remember]_<<vars, draws>>
    /\ Fairness
-----------------------------------------------------------------------------
(* As long as no bind has failed (which the code does not notice: the port was *)
(* in use, the address not local, no descriptor left), a running call's socket *)
(* is bound to the port that its request names until it returns, whichever way *)
(* its call and the others go.  No port stays bound after its call in any case. *)
PortsHeldIfBound == PortsReleased /\ (draws \in {"quiet", "bound"} => PortsHeld)

(* As long as, besides, no draw has hit a port that a datagram still named,    *)
(* every response that sync_send_request returns is the one to the request it  *)
(* sent.                                                                       *)
OwnAnswerIfQuiet == draws = "quiet" => AnswersOwnRequest
=============================================================================
