---------------------------- MODULE MCMessenger ----------------------------
(***************************************************************************)
(* Two clients' tags, one of which a peer advertises too (the node that     *)
(* lasts is the one without a tag); an endpoint that resolves and one that  *)
(* does not; a message type and an event type that nobody registered.       *)
(***************************************************************************)
EXTENDS Messenger

CONSTANTS temp1, temp2, e1, bad, m1, m2

MCTags        == {temp1, temp2}
MCTempTags    == {temp1, temp2}
MCEndpoints   == {e1, bad}
MCConnectable == {e1}
MCAdvertised  == [tag : {temp2}, endpoint : Endpoints]

MCAppMessages == {m1, m2}
MCMsgHandlers == {m1}
MCAppEvents   == {1, 2}
MCEvtHandlers == {1}
=============================================================================
