----------------------------- MODULE RelayQuiet -----------------------------
(***************************************************************************)
(* Relay, whether it has always met a request with no client's node in its *)
(* table, and whether its nested calls have always waited their time: the  *)
(* program has no such variables, they are what the promises to the        *)
(* callers depend on.                                                      *)
(***************************************************************************)
EXTENDS Relay

VARIABLES quiet, patient

(* The relay took no request while the node of an earlier one was still in    *)
(* its table, behind the HIGH_MARK event.                                     *)
Meets == served' = served \/ \A t \in TempTags : ~Known(t)

(* It gave no nested call up early, because of its recv. *)
GivesUpEarly ==
    /\ Waiting /\ ~Waiting' /\ nested.left > 0
    /\ verdict'.status = SR!HTTP_STATUS_REQUEST_TIMEOUT

Remember ==
    /\ quiet' = (quiet /\ Meets)
    /\ patient' = (patient /\ ~GivesUpEarly)

QuietInit == RelayInit /\ quiet = TRUE /\ patient = TRUE

QuietSpec ==
    /\ QuietInit
    /\ [][RelayNext /\ Remember]_<<relayVars, quiet, patient>>
    /\ RelayFairness

(* Every caller gets the answer to its own request, and the time asked for it, *)
(* as long as the relay has taken no request while the client's node of an     *)
(* earlier one waited for its deletion.                                        *)
OwnAnswersIfQuiet == quiet => OwnAnswers

(* As long as no nested call's recv has failed or got an empty datagram, the   *)
(* relay gives a nested call up no earlier than its caller has given it up.    *)
GivesUpLastIfPatient == patient => GivesUpLast
=============================================================================
