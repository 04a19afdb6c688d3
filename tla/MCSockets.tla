----------------------------- MODULE MCSockets -----------------------------
(* Two sockets, two endpoints that resolve and one that does not. *)
EXTENDS Sockets, TLC

CONSTANTS s1, s2, e1, e2, unresolved

MCSocketSet  == {s1, s2}
MCEndpoints  == {e1, e2, unresolved}
MCResolvable == {e1, e2}

Symmetry == Permutations(MCSocketSet) \cup Permutations(MCResolvable)
=============================================================================
