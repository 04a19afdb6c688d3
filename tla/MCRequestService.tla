-------------------------- MODULE MCRequestService --------------------------
(* Two callers, threads of one host that share its tag, and a Messenger. *)
EXTENDS RequestService, TLC

CONSTANTS c1, c2, p1, p2, temp1

MCClients  == {c1, c2}
MCPorts    == {p1, p2}
MCOneTag   == {temp1}
MCOneHost  == [c \in MCClients |-> temp1]
MCNone     == {}

Symmetry == Permutations(MCClients) \cup Permutations(MCPorts)
=============================================================================
