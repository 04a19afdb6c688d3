--------------------------- MODULE MCSyncRequest ---------------------------
(***************************************************************************)
(* Two callers on one host, and fewer ports than calls: draws may collide  *)
(* or hit the port of an earlier call.                                     *)
(***************************************************************************)
EXTENDS SyncDraws

CONSTANTS c1, c2, p1, p2

MCClients  == {c1, c2}
MCPorts    == {p1, p2}
=============================================================================
