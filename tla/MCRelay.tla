------------------------------ MODULE MCRelay ------------------------------
(***************************************************************************)
(* Two threads of one host, and calls on both routes of the relay.         *)
(***************************************************************************)
EXTENDS RelayQuiet

CONSTANTS c1, c2, temp1

MCClients  == {c1, c2}
MCHosts    == [c \in MCClients |-> temp1]
MCTempTags == {temp1}
MCTags     == {temp1, time_service}
MCPorts    == 1 .. MaxCalls + 1
MCTimeEndpoint == MaxCalls + 1
MCRoutes   == {<<"relay", "add_sign">>, <<"malformed", "relay">>}
MCNone     == {}
MCEvents   == {HIGH_MARK}
=============================================================================
