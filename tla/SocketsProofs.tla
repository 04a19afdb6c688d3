--------------------------- MODULE SocketsProofs ---------------------------
(***************************************************************************)
(* Proofs about Sockets, for any number of sockets, endpoints and objects. *)
(***************************************************************************)
EXTENDS Sockets, TLAPS

(* Objects are made in order, and none is alive before it is made. *)
MadeInOrder == \A o \in Objects : o > made => o \notin Live

(* A pointer without its flag, as unbind and disconnect leave it, points to no *)
(* live object: so a bind that fails cannot bring a stale one back.           *)
NoneDangling ==
    \A s \in alive : /\ ~server_initialized[s] => server[s] \notin Live
                     /\ ~client_initialized[s] => client[s] \notin Live

Inv ==
    /\ TypeOK /\ MadeInOrder /\ NoneDangling
    /\ FlagsTruthful /\ HeldOnce /\ OnlyAfterFailure

LEMMA InitInv == Init => Inv
BY SocketAssumption DEF Init, Inv, TypeOK, MadeInOrder, NoneDangling, FlagsTruthful, HeldOnce,
   OnlyAfterFailure, Live, Objects

(* What is undefined changes nothing else, and comes from a pointer that its   *)
(* socket's flag vouches for.                                                  *)
LEMMA UndefinedInv ==
    ASSUME Inv, NEW s \in Sockets, Undefined(s),
           s \in failed \/ s \notin alive
    PROVE  Inv'
BY SocketAssumption DEF Inv, TypeOK, MadeInOrder, NoneDangling, FlagsTruthful, HeldOnce,
   OnlyAfterFailure, Undefined, Live, Objects, Points, Pointed, flags, objects

LEMMA WildOnlyIfFailed ==
    ASSUME Inv, NEW s \in Sockets, s \in alive,
           NEW o \in Pointed(s), o \notin Live
    PROVE  s \in failed
BY DEF Inv, FlagsTruthful, Pointed

(* What New and Delete do to the objects. *)
LEMMA NewObject ==
    ASSUME Inv, NEW at \in Endpoints \cup {Anywhere}, New(at)
    PROVE  /\ made' = made + 1 /\ made' \in Objects /\ made' \notin Live
           /\ address' \in [Objects -> Endpoints \cup {Anywhere, Closed}]
           /\ address'[made'] = at
           /\ \A o \in Objects : o # made' => address'[o] = address[o]
           /\ Live' = Live \cup {made'}
<1>1. made' = made + 1 /\ made' \in Objects /\ made' \notin Live
  BY SocketAssumption DEF Inv, New, TypeOK, Objects, MadeInOrder
<1>2. address' = [address EXCEPT ![made'] = at]
  BY DEF New
<1>3. at # Closed /\ at \in Endpoints \cup {Anywhere, Closed}
  BY SocketAssumption
<1>4. address \in [Objects -> Endpoints \cup {Anywhere, Closed}]
  BY DEF Inv, TypeOK
<1>5. address' \in [Objects -> Endpoints \cup {Anywhere, Closed}]
  BY <1>2, <1>3, <1>4
<1>6. address'[made'] = at /\ \A o \in Objects : o # made' => address'[o] = address[o]
  BY <1>1, <1>2, <1>4
<1>7. Live' = Live \cup {made'}
  BY <1>1, <1>3, <1>6 DEF Live, Objects
<1> QED BY <1>1, <1>5, <1>6, <1>7

LEMMA DeletedObjects ==
    ASSUME Inv, NEW os, Delete(os)
    PROVE  /\ address' \in [Objects -> Endpoints \cup {Anywhere, Closed}]
           /\ Live' = Live \ os
           /\ \A o \in Live' : address'[o] = address[o]
<1>1. address \in [Objects -> Endpoints \cup {Anywhere, Closed}]
  BY DEF Inv, TypeOK
<1>2. address' = [o \in Objects |-> IF o \in os THEN Closed ELSE address[o]]
  BY DEF Delete
<1>3. address' \in [Objects -> Endpoints \cup {Anywhere, Closed}]
  BY <1>1, <1>2
<1>4. \A o \in Objects : address'[o] = IF o \in os THEN Closed ELSE address[o]
  BY <1>2
<1> QED BY <1>3, <1>4 DEF Live, Objects

(* A pointer never points past the objects that were made. *)
LEMMA PointersMade ==
    ASSUME Inv, NEW s \in Sockets
    PROVE  server[s] \in 0 .. made /\ client[s] \in 0 .. made /\ made \in Nat
BY SocketAssumption DEF Inv, TypeOK

(* A new object is no other's, and its socket had none alive under the flag.   *)
LEMMA BoundInv ==
    ASSUME Inv, NEW s \in Sockets, Uses(s), ~server_initialized[s],
           NEW e \in Endpoints, New(e),
           server' = [server EXCEPT ![s] = made'],
           server_initialized' = [server_initialized EXCEPT ![s] = TRUE],
           UNCHANGED <<alive, client_initialized, client, failed, undefined>>
    PROVE  Inv'
<1>1. /\ made' = made + 1 /\ made' \in Objects /\ made' \notin Live
      /\ address' \in [Objects -> Endpoints \cup {Anywhere, Closed}]
      /\ address'[made'] = e
      /\ \A o \in Objects : o # made' => address'[o] = address[o]
      /\ Live' = Live \cup {made'}
  BY NewObject
<1>2. TypeOK'
  BY <1>1, PointersMade DEF Inv, TypeOK, Objects
<1>3. MadeInOrder'
  BY <1>1, PointersMade DEF Inv, MadeInOrder, Objects
<1>4. server'[s] = made' /\ \A t \in Sockets \ {s} : server'[t] = server[t]
  BY DEF Inv, TypeOK
<1>5. /\ server_initialized'[s]
      /\ \A t \in Sockets \ {s} : server_initialized'[t] = server_initialized[t]
  BY DEF Inv, TypeOK
<1>6. \A t \in Sockets : server[t] # made' /\ client[t] # made'
  BY <1>1, PointersMade
<1>7. alive \subseteq Sockets
  BY DEF Inv, TypeOK
<1>8. NoneDangling'
  BY <1>1, <1>4, <1>5, <1>6, <1>7 DEF Inv, NoneDangling
<1>9. FlagsTruthful'
  BY <1>1, <1>4, <1>5, <1>6, <1>7, SocketAssumption DEF Inv, FlagsTruthful, Live
<1>10. HeldOnce'
  <2>1. \A t \in Sockets : \A o : Points(t, o)' <=> Points(t, o) \/ (t = s /\ o = made')
    BY <1>1, <1>4, <1>5 DEF Points, Pointed, Uses
  <2>2. \A t \in Sockets : ~Points(t, made')
    BY <1>6 DEF Points, Pointed
  <2> QED BY <1>1, <2>1, <2>2 DEF Inv, HeldOnce, Objects
<1> QED BY <1>2, <1>3, <1>8, <1>9, <1>10 DEF Inv, OnlyAfterFailure

LEMMA ConnectedInv ==
    ASSUME Inv, NEW s \in Sockets, Uses(s), ~client_initialized[s],
           New(Anywhere),
           client' = [client EXCEPT ![s] = made'],
           client_initialized' = [client_initialized EXCEPT ![s] = TRUE],
           UNCHANGED <<alive, server_initialized, server, failed, undefined>>
    PROVE  Inv'
<1>1. /\ made' = made + 1 /\ made' \in Objects /\ made' \notin Live
      /\ address' \in [Objects -> Endpoints \cup {Anywhere, Closed}]
      /\ address'[made'] = Anywhere
      /\ \A o \in Objects : o # made' => address'[o] = address[o]
      /\ Live' = Live \cup {made'}
  BY NewObject
<1>2. TypeOK'
  BY <1>1, PointersMade DEF Inv, TypeOK, Objects
<1>3. MadeInOrder'
  BY <1>1, PointersMade DEF Inv, MadeInOrder, Objects
<1>4. client'[s] = made' /\ \A t \in Sockets \ {s} : client'[t] = client[t]
  BY DEF Inv, TypeOK
<1>5. /\ client_initialized'[s]
      /\ \A t \in Sockets \ {s} : client_initialized'[t] = client_initialized[t]
  BY DEF Inv, TypeOK
<1>6. \A t \in Sockets : client[t] # made' /\ server[t] # made'
  BY <1>1, PointersMade
<1>7. alive \subseteq Sockets
  BY DEF Inv, TypeOK
<1>8. NoneDangling'
  BY <1>1, <1>4, <1>5, <1>6, <1>7 DEF Inv, NoneDangling
<1>9. FlagsTruthful'
  BY <1>1, <1>4, <1>5, <1>6, <1>7, SocketAssumption DEF Inv, FlagsTruthful, Live
<1>10. HeldOnce'
  <2>1. \A t \in Sockets : \A o : Points(t, o)' <=> Points(t, o) \/ (t = s /\ o = made')
    BY <1>1, <1>4, <1>5 DEF Points, Pointed, Uses
  <2>2. \A t \in Sockets : ~Points(t, made')
    BY <1>6 DEF Points, Pointed
  <2> QED BY <1>1, <2>1, <2>2 DEF Inv, HeldOnce, Objects
<1> QED BY <1>2, <1>3, <1>8, <1>9, <1>10 DEF Inv, OnlyAfterFailure

(* A flag that is set over a pointer to none: the socket is one that failed.   *)
LEMMA FailedInv ==
    ASSUME Inv, NEW s \in Sockets, Uses(s), failed' = failed \cup {s},
           \/ /\ ~server_initialized[s] /\ UNCHANGED client_initialized
              /\ server_initialized' = [server_initialized EXCEPT ![s] = TRUE]
           \/ /\ ~client_initialized[s] /\ UNCHANGED server_initialized
              /\ client_initialized' = [client_initialized EXCEPT ![s] = TRUE],
           UNCHANGED <<alive, server, client, objects, undefined>>
    PROVE  Inv'
<1>1. Live' = Live /\ alive \subseteq Sockets
  BY DEF Live, Objects, objects, Inv, TypeOK
<1>2. TypeOK'
  BY DEF Inv, TypeOK, objects, Objects
<1>3. \A t \in Sockets \ {s} : /\ server_initialized'[t] = server_initialized[t]
                              /\ client_initialized'[t] = client_initialized[t]
  BY DEF Inv, TypeOK
<1>4. /\ server_initialized[s] => server_initialized'[s]
      /\ client_initialized[s] => client_initialized'[s]
  BY DEF Inv, TypeOK
<1>5. MadeInOrder'
  BY <1>1 DEF Inv, MadeInOrder, objects, Objects
<1>6. NoneDangling'
  BY <1>1, <1>3, <1>4 DEF Inv, NoneDangling
<1>7. FlagsTruthful'
  BY <1>1, <1>3 DEF Inv, FlagsTruthful, objects
<1>8. \A o \in Live, t \in Sockets : Points(t, o)' <=> Points(t, o)
  <2>1. \A o \in Live, t \in Sockets \ {s} : Points(t, o)' <=> Points(t, o)
    BY <1>3 DEF Points, Pointed
  <2>2. \A o \in Live : Points(s, o)' <=> Points(s, o)
    BY <1>4 DEF Inv, TypeOK, NoneDangling, Points, Pointed, Uses
  <2> QED BY <2>1, <2>2
<1>9. HeldOnce'
  BY <1>1, <1>8 DEF Inv, HeldOnce
<1> QED BY <1>2, <1>5, <1>6, <1>7, <1>9 DEF Inv, OnlyAfterFailure, Uses

(* unbind closes the object that its own flag vouched for: no other socket has *)
(* it, and the socket's client is another one.                                 *)
LEMMA UnboundInv ==
    ASSUME Inv, NEW s \in Sockets, Uses(s), server_initialized[s],
           server[s] \in Live, Delete({server[s]}),
           server_initialized' = [server_initialized EXCEPT ![s] = FALSE],
           UNCHANGED <<alive, client_initialized, server, client, made, failed, undefined>>
    PROVE  Inv'
<1>1. /\ address' \in [Objects -> Endpoints \cup {Anywhere, Closed}]
      /\ Live' = Live \ {server[s]}
      /\ \A o \in Live' : address'[o] = address[o]
  BY DeletedObjects
<1>2. TypeOK'
  BY <1>1 DEF Inv, TypeOK, Objects
<1>3. MadeInOrder'
  BY <1>1 DEF Inv, MadeInOrder, Objects
<1>4. /\ ~server_initialized'[s]
      /\ \A t \in Sockets \ {s} : server_initialized'[t] = server_initialized[t]
      /\ alive \subseteq Sockets
  BY DEF Inv, TypeOK
<1>5. NoneDangling'
  BY <1>1, <1>4 DEF Inv, NoneDangling
<1>6. \A t \in alive \ {s} : server[s] \notin Pointed(t)
  BY <1>4 DEF Inv, HeldOnce, Points, Pointed, Uses
<1>7. FlagsTruthful'
  <2>1. \A t \in (alive \ failed) \ {s} :
           /\ server_initialized'[t] => server[t] \in Live' /\ address'[server[t]] # Anywhere
           /\ client_initialized[t] => client[t] \in Live' /\ address'[client[t]] = Anywhere
    BY <1>1, <1>4, <1>6 DEF Inv, FlagsTruthful, Pointed
  <2>2. s \notin failed /\ client_initialized[s] =>
           client[s] \in Live' /\ address'[client[s]] = Anywhere
    BY <1>1 DEF Inv, FlagsTruthful, Uses
  <2> QED BY <1>4, <2>1, <2>2 DEF FlagsTruthful
<1>8. \A o \in Live', t \in Sockets : Points(t, o)' <=> Points(t, o)
  BY <1>1, <1>4 DEF Points, Pointed
<1>9. HeldOnce'
  BY <1>1, <1>8 DEF Inv, HeldOnce
<1> QED BY <1>2, <1>3, <1>5, <1>7, <1>9 DEF Inv, OnlyAfterFailure

LEMMA DisconnectedInv ==
    ASSUME Inv, NEW s \in Sockets, Uses(s), client_initialized[s],
           client[s] \in Live, Delete({client[s]}),
           client_initialized' = [client_initialized EXCEPT ![s] = FALSE],
           UNCHANGED <<alive, server_initialized, server, client, made, failed, undefined>>
    PROVE  Inv'
<1>1. /\ address' \in [Objects -> Endpoints \cup {Anywhere, Closed}]
      /\ Live' = Live \ {client[s]}
      /\ \A o \in Live' : address'[o] = address[o]
  BY DeletedObjects
<1>2. TypeOK'
  BY <1>1 DEF Inv, TypeOK, Objects
<1>3. MadeInOrder'
  BY <1>1 DEF Inv, MadeInOrder, Objects
<1>4. /\ ~client_initialized'[s]
      /\ \A t \in Sockets \ {s} : client_initialized'[t] = client_initialized[t]
      /\ alive \subseteq Sockets
  BY DEF Inv, TypeOK
<1>5. NoneDangling'
  BY <1>1, <1>4 DEF Inv, NoneDangling
<1>6. \A t \in alive \ {s} : client[s] \notin Pointed(t)
  BY <1>4 DEF Inv, HeldOnce, Points, Pointed, Uses
<1>7. FlagsTruthful'
  <2>1. \A t \in (alive \ failed) \ {s} :
           /\ client_initialized'[t] => client[t] \in Live' /\ address'[client[t]] = Anywhere
           /\ server_initialized[t] => server[t] \in Live' /\ address'[server[t]] # Anywhere
    BY <1>1, <1>4, <1>6 DEF Inv, FlagsTruthful, Pointed
  <2>2. s \notin failed /\ server_initialized[s] =>
           server[s] \in Live' /\ address'[server[s]] # Anywhere
    BY <1>1 DEF Inv, FlagsTruthful, Uses
  <2> QED BY <1>4, <2>1, <2>2 DEF FlagsTruthful
<1>8. \A o \in Live', t \in Sockets : Points(t, o)' <=> Points(t, o)
  BY <1>1, <1>4 DEF Points, Pointed
<1>9. HeldOnce'
  BY <1>1, <1>8 DEF Inv, HeldOnce
<1> QED BY <1>2, <1>3, <1>5, <1>7, <1>9 DEF Inv, OnlyAfterFailure

(* ~Socket closes what both flags vouch for. *)
LEMMA DeletedInv ==
    ASSUME Inv, NEW s \in Sockets, Uses(s),
           Pointed(s) \subseteq Live, Delete(Pointed(s)), alive' = alive \ {s},
           UNCHANGED <<flags, server, client, made, failed, undefined>>
    PROVE  Inv'
<1>1. /\ address' \in [Objects -> Endpoints \cup {Anywhere, Closed}]
      /\ Live' = Live \ Pointed(s)
      /\ \A o \in Live' : address'[o] = address[o]
  BY DeletedObjects
<1>2. TypeOK'
  BY <1>1 DEF Inv, TypeOK, Objects, flags
<1>3. MadeInOrder'
  BY <1>1 DEF Inv, MadeInOrder, Objects
<1>4. alive \subseteq Sockets
  BY DEF Inv, TypeOK
<1>5. NoneDangling'
  BY <1>1, <1>4 DEF Inv, NoneDangling, flags
<1>6. \A t \in alive \ {s} : Pointed(s) \cap Pointed(t) \cap Live = {}
  BY <1>4 DEF Inv, HeldOnce, Points, Uses
<1>7. FlagsTruthful'
  BY <1>1, <1>4, <1>6 DEF Inv, FlagsTruthful, Pointed, flags
<1>8. \A o \in Live', t \in Sockets : Points(t, o)' <=> Points(t, o)
  BY <1>1 DEF Points, Pointed, flags
<1>9. HeldOnce'
  BY <1>1, <1>8 DEF Inv, HeldOnce
<1> QED BY <1>2, <1>3, <1>5, <1>7, <1>9, <1>4 DEF Inv, OnlyAfterFailure, Uses

LEMMA StepInv == Inv /\ [Next]_vars => Inv'
<1> SUFFICES ASSUME Inv, [Next]_vars PROVE Inv'
  OBVIOUS
<1>1. ASSUME NEW s \in Sockets, recv_or_send(s) PROVE Inv'
  <2>1. s \in failed
    BY <1>1, WildOnlyIfFailed DEF recv_or_send, Uses, Pointed
  <2> QED BY <1>1, <2>1, UndefinedInv DEF recv_or_send
<1>2. ASSUME NEW s \in Sockets, use_after_delete(s) PROVE Inv'
  BY <1>2, UndefinedInv DEF use_after_delete
<1>3. ASSUME NEW s \in Sockets, NEW e \in Endpoints, bind(s, e) PROVE Inv'
  BY <1>3, BoundInv, FailedInv DEF bind, new_udp_server, NotBound, NotMade
<1>4. ASSUME NEW s \in Sockets, NEW e \in Endpoints, connect(s, e) \/ connect_from(s, e)
      PROVE  Inv'
  BY <1>4, ConnectedInv, FailedInv DEF connect, connect_from, new_udp_client, NotMade
<1>5. ASSUME NEW s \in Sockets, unbind(s) PROVE Inv'
  BY <1>5, UnboundInv, UndefinedInv, WildOnlyIfFailed DEF unbind, Uses, Pointed
<1>6. ASSUME NEW s \in Sockets, disconnect(s) PROVE Inv'
  BY <1>6, DisconnectedInv, UndefinedInv, WildOnlyIfFailed DEF disconnect, Uses, Pointed
<1>7. ASSUME NEW s \in Sockets, delete(s) PROVE Inv'
  BY <1>7, DeletedInv, UndefinedInv, WildOnlyIfFailed DEF delete, Uses
<1>8. CASE UNCHANGED vars
  BY <1>8 DEF vars, flags, objects, Inv, TypeOK, MadeInOrder, NoneDangling, FlagsTruthful,
     HeldOnce, OnlyAfterFailure, Live, Objects, Points, Pointed
<1> QED
  BY <1>1, <1>2, <1>3, <1>4, <1>5, <1>6, <1>7, <1>8 DEF Next

LEMMA Invariance == Spec => []Inv
<1>1. Init => Inv
  BY InitInv
<1>2. Inv /\ [Next]_vars => Inv'
  BY StepInv
<1> QED BY <1>1, <1>2, PTL DEF Spec

(* Whatever the operations called, in whatever order: a socket of which no     *)
(* bind or connect swallowed an exception is bound and connected as its flags  *)
(* say.                                                                        *)
THEOREM FlagsTell == Spec => []FlagsTruthful
<1>1. Inv => FlagsTruthful
  BY DEF Inv
<1> QED BY <1>1, Invariance, PTL

(* No descriptor leaks, and no two sockets will close the same one.            *)
THEOREM NoLeak == Spec => []HeldOnce
<1>1. Inv => HeldOnce
  BY DEF Inv
<1> QED BY <1>1, Invariance, PTL

(* The process does what is undefined only by a socket whose failure was       *)
(* swallowed, or after the socket's end.                                       *)
THEOREM FailureFirst == Spec => []OnlyAfterFailure
<1>1. Inv => OnlyAfterFailure
  BY DEF Inv
<1> QED BY <1>1, Invariance, PTL
=============================================================================
