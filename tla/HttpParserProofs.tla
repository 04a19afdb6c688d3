-------------------------- MODULE HttpParserProofs --------------------------
(***************************************************************************)
(* The parser's type invariant, its assertions and the framing of its      *)
(* messages, proved for every ULLONG_MAX, limit and buffer.                *)
(*                                                                         *)
(* Step(p, q) says that q is sound after a byte that p was given, and that *)
(* the callbacks of the byte account for the messages that are waited for. *)
(* One lemma shows it for each handler; InLine, InHead, InChunks, InBody,  *)
(* InIdle and InStart do so for the parts of a message.  A record that has *)
(* been changed is described by Like, field by field, and its definition   *)
(* hidden: what follows depends on the fields alone.                       *)
(*                                                                         *)
(* The lemmas called Read, at the end, say what one turn of the loop makes *)
(* of each field in the states of a whole message, and when it fails.      *)
(***************************************************************************)
EXTENDS HttpParserInv, TLAPS, FiniteSetTheorems

(* A length that passes the test for overflow takes any further digit of its  *)
(* base without wrapping, and stays below the length that means "not known".  *)
THEOREM LongerFits ==
    ASSUME NEW base \in {10, 16}, NEW n \in Nat, NEW d \in 0 .. base - 1, ~TooLong(n, base)
    PROVE  Longer(n, base, d) = n * base + d /\ n * base + d < ULLONG_MAX
<1>1. CASE base = 10
  <2>1. n <= (ULLONG_MAX - 10) \div 10
    BY <1>1, ParserAssumption DEF TooLong
  <2>2. n * 10 + d < ULLONG_MAX
    BY <1>1, <2>1, ParserAssumption
  <2>3. QED
    BY <1>1, <2>2, ParserAssumption DEF Longer
<1>2. CASE base = 16
  <2>1. n <= (ULLONG_MAX - 16) \div 16
    BY <1>2, ParserAssumption DEF TooLong
  <2>2. n * 16 + d < ULLONG_MAX
    BY <1>2, <2>1, ParserAssumption
  <2>3. QED
    BY <1>2, <2>2, ParserAssumption DEF Longer
<1>3. QED
  BY <1>1, <1>2
-----------------------------------------------------------------------------

(* What a handler owes: q is sound after a byte, and its callbacks account for *)
(* the messages that wait to be completed.                                      *)
Step(p, q) ==
    /\ Sound(q)
    /\ ~Failed(q) => Waits(q) = Waits(p) + One("headers_complete", q) - One("message_complete", q)

(* The parts of a message share no state. *)
LEMMA Disjoint ==
    /\ Lines \cap (Idle \cup Heads \cup Bodies \cup ChunkStates) = {}
    /\ Heads \cap (Idle \cup Bodies \cup ChunkStates) = {}
    /\ Bodies \cap (Idle \cup ChunkStates) = {}
    /\ ChunkStates \cap Idle = {}
    /\ Loops \subseteq Heads /\ "s_req_method" \in Lines
BY DEF Lines, Idle, Heads, Bodies, ChunkStates, UrlStates, UrlEnds, Loops

(* Outside bodies and chunks nothing is asked of content_length. *)
LEMMA Kinds ==
    ASSUME NEW s \in Idle \cup Lines \cup Heads
    PROVE  s \notin Known /\ s \notin {"s_chunk_size_start", "s_body_identity", "s_chunk_data",
                                       "s_chunk_data_almost_done"}
BY Disjoint DEF Known, Bodies, ChunkStates

(* A field may take any value of its type. *)
LEMMA Put ==
    ASSUME NEW p \in Parser
    PROVE  /\ \A x \in States : [p EXCEPT !.state = x] \in Parser
           /\ \A x \in Headers : [p EXCEPT !.header_state = x] \in Parser
           /\ \A x \in 0 .. 17 : [p EXCEPT !.index = x] \in Parser
           /\ \A x \in SUBSET Flags : [p EXCEPT !.flags = x] \in Parser
           /\ \A x \in 0 .. ULLONG_MAX : [p EXCEPT !.content_length = x] \in Parser
           /\ \A x \in MethodNames : [p EXCEPT !.method = x] \in Parser
           /\ \A x \in Nat : /\ [p EXCEPT !.http_major = x] \in Parser
                             /\ [p EXCEPT !.http_minor = x] \in Parser
                             /\ [p EXCEPT !.status_code = x] \in Parser
           /\ \A x \in BOOLEAN : /\ [p EXCEPT !.upgrade = x] \in Parser
                                 /\ [p EXCEPT !.skipping = x] \in Parser
                                 /\ [p EXCEPT !.exited = x] \in Parser
           /\ \A x \in 0 .. MaxCount : /\ [p EXCEPT !.nread = x] \in Parser
                                       /\ [p EXCEPT !.passed = x] \in Parser
           /\ \A x \in Errnos : [p EXCEPT !.http_errno = x] \in Parser
           /\ \A x \in SUBSET Data : /\ [p EXCEPT !.marks = x] \in Parser
                                     /\ [p EXCEPT !.data = x] \in Parser
           /\ \A x \in SUBSET Calls : [p EXCEPT !.calls = x] \in Parser
<1> USE DEF Parser
<1>1. \A x \in States : [p EXCEPT !.state = x] \in Parser
  OBVIOUS
<1>2. \A x \in Headers : [p EXCEPT !.header_state = x] \in Parser
  OBVIOUS
<1>3. \A x \in 0 .. 17 : [p EXCEPT !.index = x] \in Parser
  OBVIOUS
<1>4. \A x \in SUBSET Flags : [p EXCEPT !.flags = x] \in Parser
  OBVIOUS
<1>5. \A x \in 0 .. ULLONG_MAX : [p EXCEPT !.content_length = x] \in Parser
  OBVIOUS
<1>6. \A x \in MethodNames : [p EXCEPT !.method = x] \in Parser
  OBVIOUS
<1>7. \A x \in Nat : [p EXCEPT !.http_major = x] \in Parser
  OBVIOUS
<1>8. \A x \in Nat : [p EXCEPT !.http_minor = x] \in Parser
  OBVIOUS
<1>9. \A x \in Nat : [p EXCEPT !.status_code = x] \in Parser
  OBVIOUS
<1>10. \A x \in BOOLEAN : [p EXCEPT !.upgrade = x] \in Parser
  OBVIOUS
<1>11. \A x \in BOOLEAN : [p EXCEPT !.skipping = x] \in Parser
  OBVIOUS
<1>12. \A x \in BOOLEAN : [p EXCEPT !.exited = x] \in Parser
  OBVIOUS
<1>13. \A x \in 0 .. MaxCount : [p EXCEPT !.nread = x] \in Parser
  OBVIOUS
<1>14. \A x \in 0 .. MaxCount : [p EXCEPT !.passed = x] \in Parser
  OBVIOUS
<1>15. \A x \in Errnos : [p EXCEPT !.http_errno = x] \in Parser
  OBVIOUS
<1>16. \A x \in SUBSET Data : [p EXCEPT !.marks = x] \in Parser
  OBVIOUS
<1>17. \A x \in SUBSET Data : [p EXCEPT !.data = x] \in Parser
  OBVIOUS
<1>18. \A x \in SUBSET Calls : [p EXCEPT !.calls = x] \in Parser
  OBVIOUS
<1> HIDE DEF Parser
<1>19. QED
  BY <1>1, <1>2, <1>3, <1>4, <1>5, <1>6, <1>7, <1>8, <1>9, <1>10, <1>11, <1>12, <1>13, <1>14,
     <1>15, <1>16, <1>17, <1>18

(* Values that are often assigned. *)
LEMMA Values ==
    /\ 0 \in 0 .. 17 /\ 1 \in 0 .. 17 /\ 0 \in Nat /\ 9 \in Nat
    /\ 0 \in 0 .. MaxCount /\ 0 \in 0 .. ULLONG_MAX /\ ULLONG_MAX \in 0 .. ULLONG_MAX
    /\ {} \in SUBSET Flags /\ {} \in SUBSET Data /\ {} \in SUBSET Calls
    /\ TRUE \in BOOLEAN /\ FALSE \in BOOLEAN
BY ParserAssumption

(* The words that are matched, and the methods, have lengths that fit index. *)
LEMMA Lengths ==
    /\ \A h \in DOMAIN Word : Length(Word[h]) \in 5 .. 17
    /\ \A m \in MethodNames : Length(m) \in 1 .. 16
    /\ \A m \in OtherMethods : m[4] \in MethodNames /\ m[2] + 1 <= Length(m[4])
<1>1. \A m \in OtherMethods : m[2] \in 0 .. Length(m[4]) - 1
  BY LengthAssumption DEF Length
<1>2. \A h \in DOMAIN Word : Length(Word[h]) \in 5 .. 17
  BY LengthAssumption DEF Length
<1>3. \A m \in MethodNames : Length(m) \in 1 .. 16
  BY LengthAssumption DEF Length
<1>4. \A m \in OtherMethods : m[4] \in MethodNames
  BY DEF MethodNames
<1>5. QED
  BY <1>1, <1>2, <1>3, <1>4

(* A byte that a word has is inside it. *)
LEMMA NthInside ==
    ASSUME NEW w, NEW i, Nth(w, i) # NUL
    PROVE  i < Length(w)
BY Zenon DEF Nth, Length

(* q differs from p in the fields D at most. *)
Like(p, q, D) ==
    /\ q \in Parser
    /\ "type" \notin D => q.type = p.type
    /\ "state" \notin D => q.state = p.state
    /\ "header_state" \notin D => q.header_state = p.header_state
    /\ "index" \notin D => q.index = p.index
    /\ "flags" \notin D => q.flags = p.flags
    /\ "content_length" \notin D => q.content_length = p.content_length
    /\ "method" \notin D => q.method = p.method
    /\ "status_code" \notin D => q.status_code = p.status_code
    /\ "upgrade" \notin D => q.upgrade = p.upgrade
    /\ "nread" \notin D => q.nread = p.nread
    /\ "http_errno" \notin D => q.http_errno = p.http_errno
    /\ "marks" \notin D => q.marks = p.marks
    /\ "passed" \notin D => q.passed = p.passed
    /\ "skipping" \notin D => q.skipping = p.skipping
    /\ "exited" \notin D => q.exited = p.exited
    /\ "calls" \notin D => q.calls = p.calls

(* What each of the small operators changes. *)
LEMMA Goes ==
    ASSUME NEW p \in Parser, NEW s \in States
    PROVE  Like(p, Go(p, s), {"state"}) /\ Go(p, s).state = s
<1>1. Go(p, s) \in Parser
  BY Put DEF Go
<1>2. QED
  BY <1>1 DEF Go, Like, Parser

LEMMA Fails ==
    ASSUME NEW p \in Parser, NEW e \in Errnos
    PROVE  Like(p, Fail(p, e), {"http_errno"}) /\ Fail(p, e).http_errno = e
<1>1. Fail(p, e) \in Parser
  BY Put DEF Fail
<1>2. QED
  BY <1>1 DEF Fail, Like, Parser

LEMMA FlagSets ==
    ASSUME NEW p \in Parser, NEW f \in Flags
    PROVE  Like(p, Flag(p, f), {"flags"}) /\ Flag(p, f).flags = p.flags \cup {f}
<1>1. p.flags \cup {f} \in SUBSET Flags
  BY DEF Parser
<1>2. Flag(p, f) \in Parser
  BY <1>1, Put, Zenon DEF Flag
<1>3. QED
  BY <1>2 DEF Flag, Like, Parser

LEMMA CallNotes ==
    ASSUME NEW p \in Parser, NEW f \in Calls
    PROVE  Like(p, Call(p, f), {"calls"}) /\ Call(p, f).calls = p.calls \cup {f}
<1>1. p.calls \cup {f} \in SUBSET Calls
  BY DEF Parser
<1>2. Call(p, f) \in Parser
  BY <1>1, Put, Zenon DEF Call
<1>3. QED
  BY <1>2 DEF Call, Like, Parser

LEMMA MarkSets ==
    ASSUME NEW p \in Parser, NEW k \in Data
    PROVE  Like(p, MARK(p, k), {"marks"}) /\ MARK(p, k).marks = p.marks \cup {k}
<1>1. p.marks \cup {k} \in SUBSET Data
  BY DEF Parser
<1>2. MARK(p, k) \in Parser
  BY <1>1, Put, Zenon DEF MARK
<1>3. QED
  BY <1>2 DEF MARK, Like, Parser

LEMMA DataGiven ==
    ASSUME NEW p \in Parser, NEW k \in Data
    PROVE  Like(p, CALLBACK_DATA(p, k), {"marks"}) /\ CALLBACK_DATA(p, k).marks = p.marks \ {k}
<1>1. p.marks \ {k} \in SUBSET Data
  BY DEF Parser
<1>2. CALLBACK_DATA(p, k) \in Parser
  BY <1>1, Put, Zenon DEF CALLBACK_DATA
<1>3. QED
  BY <1>2 DEF CALLBACK_DATA, Like, Parser

(* A handler that fails keeps what its parser was. *)
LEMMA FailStep ==
    ASSUME NEW p, NEW r, Sound(r), NEW e \in Errnos, e # "OK"
    PROVE  Step(p, Fail(r, e)) /\ Failed(Fail(r, e))
<1>1. Fail(r, e) \in Parser /\ Fail(r, e).http_errno = e /\ Fail(r, e).state = r.state
      /\ Fail(r, e).flags = r.flags
  BY DEF Fail, Sound, Parser
<1>2. QED
  BY <1>1 DEF Sound, Step, Failed, Framed

(* Neither of the callbacks that are counted. *)
Silent(p) == "headers_complete" \notin p.calls /\ "message_complete" \notin p.calls

(* Nothing of a start line is flagged. *)
LEMMA InLine ==
    ASSUME NEW p, Sound(p), ~Failed(p), p.state \in Lines, p.calls = {},
           NEW q \in Parser, q.state \in Lines \cup {"s_header_field_start"},
           q.marks \subseteq MarkOf(q.state), q.flags = p.flags, q.passed = p.passed,
           q.skipping = p.skipping, q.calls = p.calls,
           q.state = "s_req_method" => q.index <= Length(q.method)
    PROVE  Step(p, q)
<1>1. p.flags = {} /\ p.passed = 0 /\ p.skipping = FALSE
  BY Disjoint DEF Sound, Flagging, Looped
<1>2. q.state \in Lines \cup Heads /\ q.state \notin Loops /\ q.state \in Lasting
  BY Disjoint DEF Heads, Loops, Lasting
<1>3. Framed(q) /\ Looped(q)
  BY <1>1, <1>2, Disjoint DEF Framed, Looped
<1>4. Flagging(q) /\ Sized(q)
  BY <1>1, <1>2, Disjoint, Kinds DEF Flagging, Sized
<1>5. Matching(q)
  BY <1>2 DEF Matching, Loops
<1>6. Waits(q) = 0 /\ Waits(p) = 0 /\ One("headers_complete", q) = 0 /\ One("message_complete", q) = 0
  BY <1>1, <1>2, Disjoint DEF Waits, One
<1>7. QED
  BY <1>2, <1>3, <1>4, <1>5, <1>6 DEF Sound, Step

(* Headers, and the trailer. *)
LEMMA InHead ==
    ASSUME NEW p, Sound(p), ~Failed(p), p.state \in Heads,
           NEW q \in Parser, q.state \in Heads, Silent(q),
           ~Failed(q) => /\ q.marks \subseteq MarkOf(q.state) /\ Looped(q) /\ Matching(q)
                         /\ "TRAILING" \in q.flags <=> "TRAILING" \in p.flags
                         /\ "CONTENTLENGTH" \in q.flags => q.content_length < ULLONG_MAX
    PROVE  Step(p, q)
<1>1. q.state \in Lasting /\ Framed(q)
  BY Disjoint DEF Framed, Lasting
<1>2. SUFFICES ASSUME ~Failed(q) PROVE Sound(q) /\ Waits(q) = Waits(p)
  BY <1>1 DEF Sound, Step, Silent, One, Waits
<1>3. Flagging(q) /\ Sized(q)
  BY <1>2, Disjoint, Kinds DEF Flagging, Sized
<1>4. Waits(q) = Waits(p)
  BY <1>2, Disjoint DEF Waits
<1>5. QED
  BY <1>1, <1>2, <1>3, <1>4 DEF Sound

(* Chunks, before the last. *)
LEMMA InChunks ==
    ASSUME NEW p, Sound(p), ~Failed(p), p.state \in ChunkStates, p.calls = {},
           NEW q \in Parser, q.state \in ChunkStates, q.marks \subseteq MarkOf(q.state),
           q.flags = p.flags, q.passed = p.passed, q.skipping = p.skipping, q.calls = p.calls,
           ~Failed(q) => Sized(q)
    PROVE  Step(p, q)
<1>1. p.passed = 0 /\ p.skipping = FALSE /\ "CHUNKED" \in p.flags
  BY Disjoint DEF Sound, Flagging, Looped
<1>2. Framed(q) /\ q.state \notin Loops /\ q.state \in Lasting
  BY Disjoint DEF Sound, Framed, Lasting
<1>3. Looped(q) /\ Flagging(q) /\ Matching(q)
  BY <1>1, <1>2, Disjoint DEF Looped, Flagging, Matching, Loops
<1>4. Waits(q) = 1 /\ Waits(p) = 1 /\ One("headers_complete", q) = 0 /\ One("message_complete", q) = 0
  BY Disjoint DEF Waits, One
<1>5. QED
  BY <1>2, <1>3, <1>4 DEF Sound, Step

(* A byte of a body that goes on. *)
LEMMA InBody ==
    ASSUME NEW p, Sound(p), ~Failed(p), p.state \in Bodies, p.calls = {},
           NEW q \in Parser, q.state = p.state, q.marks \subseteq {"body"},
           q.flags = p.flags, q.passed = p.passed, q.skipping = p.skipping, q.calls = p.calls,
           q.http_errno = p.http_errno, Sized(q)
    PROVE  Step(p, q)
<1>1. p.passed = 0 /\ p.skipping = FALSE /\ "TRAILING" \notin p.flags
  BY Disjoint DEF Sound, Flagging, Looped
<1>2. Framed(q) /\ q.state \notin Loops /\ q.marks \subseteq MarkOf(q.state)
  BY Disjoint DEF Framed, MarkOf
<1>3. Looped(q) /\ Flagging(q) /\ Matching(q)
  BY <1>1, <1>2, Disjoint DEF Looped, Flagging, Matching, Loops
<1>4. Waits(q) = 1 /\ Waits(p) = 1 /\ One("headers_complete", q) = 0 /\ One("message_complete", q) = 0
  BY Disjoint DEF Waits, One
<1>5. QED
  BY <1>2, <1>3, <1>4 DEF Sound, Step

(* After a message nothing is waited for. *)
LEMMA InIdle ==
    ASSUME NEW q \in Parser, q.state \in Idle, q.marks = {}, q.passed = 0, q.skipping = FALSE,
           "CONTENTLENGTH" \in q.flags => q.content_length < ULLONG_MAX
    PROVE  Sound(q) /\ Waits(q) = 0
<1>1. Framed(q) /\ Looped(q) /\ Flagging(q) /\ q.state \in Lasting
  BY Disjoint DEF Framed, Looped, Flagging, Lasting
<1>2. Sized(q) /\ Waits(q) = 0
  BY Disjoint, Kinds DEF Sized, Waits
<1>3. Matching(q)
  BY Disjoint DEF Matching, Loops, Idle
<1>4. QED
  BY <1>1, <1>2, <1>3 DEF Sound
-----------------------------------------------------------------------------
(* Transitions that do nothing but go on to another state. *)

(* A transition stays in the part of the message, or begins the headers. *)
LEMMA MovesKeep ==
    ASSUME NEW m \in Moves
    PROVE  /\ MarkOf(m[1]) = {} /\ m[1] \notin Loops
           /\ m[3] # "s_req_method"
           /\ \/ m[1] \in Idle /\ m[3] = m[1]
              \/ m[1] \in Lines /\ m[3] \in Lines \cup {"s_header_field_start"}
              \/ m[1] \in Heads /\ m[3] \in Heads \ Loops
              \/ /\ m[1] \in {"s_chunk_size", "s_chunk_parameters"}
                 /\ m[3] \in {"s_chunk_parameters", "s_chunk_size_almost_done"}
<1>1. /\ m[1] \notin Bodies \cup {"s_chunk_data", "s_chunk_data_almost_done"}
      /\ m[1] \notin {"s_header_field", "s_header_value", "s_res_status"} \cup UrlStates
  BY DEF Moves, Bodies, UrlStates, UrlEnds
<1>2. MarkOf(m[1]) = {} /\ m[1] \notin Loops
  BY <1>1 DEF MarkOf, Remarked, Loops
<1>3. \/ m[1] \in Idle /\ m[3] = m[1]
      \/ m[1] \in Lines /\ m[3] \in Lines \cup {"s_header_field_start"}
      \/ m[1] \in Heads /\ m[3] \in Heads \ Loops
      \/ /\ m[1] \in {"s_chunk_size", "s_chunk_parameters"}
         /\ m[3] \in {"s_chunk_parameters", "s_chunk_size_almost_done"}
  BY DEF Moves, Idle, Lines, Heads, Loops
<1>4. m[3] # "s_req_method"
  BY DEF Moves
<1>5. QED
  BY <1>2, <1>3, <1>4
-----------------------------------------------------------------------------
(* Start lines. *)

(* Between messages, and into the start line of the next. *)
LEMMA InStart ==
    ASSUME NEW p, Sound(p), ~Failed(p), p.state \in Idle, p.calls = {},
           NEW q \in Parser, q.state \in Idle \cup Lines, q.marks = p.marks, q.flags = {},
           q.passed = p.passed, q.skipping = p.skipping, q.calls = p.calls,
           q.state = "s_req_method" => q.index <= Length(q.method)
    PROVE  Step(p, q)
<1>1. p.passed = 0 /\ p.skipping = FALSE /\ p.marks = {}
  BY Disjoint DEF Sound, Looped, Idle, MarkOf, Remarked, Bodies, UrlStates, UrlEnds
<1>2. Framed(q) /\ Looped(q) /\ Flagging(q) /\ q.state \in Lasting
  BY <1>1, Disjoint DEF Framed, Looped, Flagging, Lasting
<1>3. Sized(q) /\ Waits(q) = 0 /\ Waits(p) = 0
  BY Disjoint, Kinds DEF Sized, Waits
<1>4. Matching(q) /\ One("headers_complete", q) = 0 /\ One("message_complete", q) = 0
  BY Disjoint DEF Matching, Loops, Heads, One
<1>5. QED
  BY <1>1, <1>2, <1>3, <1>4 DEF Sound, Step

LEMMA NewHeadersStep ==
    ASSUME NEW p, Sound(p), ~Failed(p), p.state \in Idle, p.calls = {}
    PROVE  LET q == NewHeaders(p)
           IN  /\ Step(p, q) /\ q \in Parser /\ q.state = p.state /\ q.marks = p.marks
               /\ q.flags = {} /\ q.passed = p.passed /\ q.skipping = p.skipping /\ q.calls = p.calls
<1> DEFINE q == NewHeaders(p)
<1>0. p \in Parser
  BY DEF Sound
<1>1. q \in Parser
  BY <1>0, Values, Put, Zenon DEF NewHeaders
<1>2. /\ q.state = p.state /\ q.marks = p.marks
      /\ q.flags = {} /\ q.passed = p.passed /\ q.skipping = p.skipping /\ q.calls = p.calls
  BY <1>0 DEF NewHeaders, Parser
<1> HIDE DEF q
<1>3. Step(p, q)
  BY <1>1, <1>2, Disjoint, InStart
<1>4. QED
  BY <1>1, <1>2, <1>3 DEF q

(* A response begins. *)
LEMMA StartResponseStep ==
    ASSUME NEW p, Sound(p), ~Failed(p), p.state = "s_start_res", p.calls = {}, NEW ch
    PROVE  Step(p, StartResponse(p, ch))
<1> DEFINE r == NewHeaders(p)
<1>1. p.state \in Idle
  BY DEF Idle
<1>2. /\ Step(p, r) /\ r \in Parser /\ r.state = p.state /\ r.marks = p.marks
      /\ r.flags = {} /\ r.passed = p.passed /\ r.skipping = p.skipping /\ r.calls = p.calls
  BY <1>1, NewHeadersStep
<1> HIDE DEF r
<1>3. Step(p, Fail(r, "INVALID_CONSTANT"))
  BY <1>2, FailStep DEF Step, Errnos
<1>4. Step(p, Go(r, "s_res_H"))
  <2> DEFINE q == Go(r, "s_res_H")
  <2>1. "s_res_H" \in States /\ "s_res_H" \in Lines
    BY DEF States, Lasting, Lines
  <2>2. /\ q \in Parser /\ q.state = "s_res_H" /\ q.marks = p.marks
        /\ q.flags = {} /\ q.passed = p.passed /\ q.skipping = p.skipping /\ q.calls = p.calls
    BY <1>2, <2>1 DEF Go, Parser
  <2> HIDE DEF q
  <2>3. Step(p, q)
    BY <1>1, <2>1, <2>2, InStart
  <2>4. QED
    BY <2>3 DEF q
<1>5. QED
  BY <1>2, <1>3, <1>4 DEF StartResponse, r

(* A request begins. *)
LEMMA StartRequestStep ==
    ASSUME NEW p, Sound(p), ~Failed(p), p.state = "s_start_req", p.calls = {}, NEW ch
    PROVE  Step(p, StartRequest(p, ch))
<1> DEFINE r      == NewHeaders(p)
           t      == [r EXCEPT !.method = "DELETE", !.index = 1]
           begins == {m \in FirstMethods : Nth(m, 0) = ch}
           q      == [Go(t, "s_req_method") EXCEPT !.method = CHOOSE m \in begins : TRUE]
<1>1. p.state \in Idle
  BY DEF Idle
<1>2. /\ Step(p, r) /\ r \in Parser /\ r.state = p.state /\ r.marks = p.marks
      /\ r.flags = {} /\ r.passed = p.passed /\ r.skipping = p.skipping /\ r.calls = p.calls
  BY <1>1, NewHeadersStep
<1>3. "DELETE" \in MethodNames /\ FirstMethods \subseteq MethodNames
  BY DEF MethodNames, FirstMethods
<1>4. CASE ch \notin ALPHA
  <2>1. StartRequest(p, ch) = Fail(r, "INVALID_METHOD")
    BY <1>4 DEF StartRequest
  <2> HIDE DEF r
  <2>2. QED
    BY <1>2, <2>1, FailStep DEF Step, Errnos
<1>5. CASE ch \in ALPHA /\ begins = {}
  <2>1. StartRequest(p, ch) = Fail(t, "INVALID_METHOD")
    BY <1>5 DEF StartRequest
  <2> HIDE DEF r
  <2>2. t \in Parser
    BY <1>2, <1>3, Values, Put, Zenon
  <2>3. /\ t.state = p.state /\ t.marks = p.marks
        /\ t.flags = {} /\ t.passed = p.passed /\ t.skipping = p.skipping /\ t.calls = p.calls
    BY <1>2 DEF Parser
  <2> HIDE DEF t
  <2>6. Step(p, t)
    BY <1>1, <2>2, <2>3, Disjoint, InStart
  <2>4. QED
    BY <2>1, <2>6, FailStep DEF Step, Errnos
<1>6. CASE ch \in ALPHA /\ begins # {}
  <2>1. StartRequest(p, ch) = q
    BY <1>6 DEF StartRequest
  <2>2. (CHOOSE m \in begins : TRUE) \in MethodNames
    BY <1>3, <1>6
  <2>3. "s_req_method" \in States /\ "s_req_method" \in Lines
    BY DEF States, Lasting, Lines
  <2> HIDE DEF r, begins
  <2>4. q \in Parser
    BY <1>2, <1>3, <2>2, <2>3, Values, Put, Zenon DEF Go
  <2>5. /\ q.state = "s_req_method" /\ q.marks = p.marks /\ q.index = 1
        /\ q.flags = {} /\ q.passed = p.passed /\ q.skipping = p.skipping /\ q.calls = p.calls
    BY <1>2 DEF Go, Parser
  <2> HIDE DEF q
  <2>6. q.method \in MethodNames
    BY <2>4 DEF Parser
  <2>7. q.index <= Length(q.method)
    BY <2>5, <2>6, Lengths
  <2>8. QED
    BY <1>1, <2>1, <2>3, <2>4, <2>5, <2>7, InStart
<1>7. QED
  BY <1>4, <1>5, <1>6

(* index never passes the end of the method that it is compared with. *)
LEMMA MethodStep ==
    ASSUME NEW p, Sound(p), ~Failed(p), p.state = "s_req_method", p.calls = {}, NEW ch
    PROVE  Step(p, Method(p, ch))
<1> DEFINE others == {m \in OtherMethods : m[1] = p.method /\ m[2] = p.index /\ m[3] = ch}
           q      == [p EXCEPT !.index = @ + 1]
           u      == Go(q, "s_req_spaces_before_url")
           v      == [q EXCEPT !.method = (CHOOSE m \in others : TRUE)[4]]
<1>1. p \in Parser /\ p.state \in Lines /\ MarkOf(p.state) = {} /\ p.marks = {} /\ p.http_errno = "OK"
  BY DEF Sound, Lines, MarkOf, Remarked, Bodies, UrlStates, UrlEnds, Failed
<1>2. "s_req_spaces_before_url" \in States /\ "s_req_spaces_before_url" \in Lines
  BY DEF States, Lasting, Lines
<1>3. p.index \in 0 .. 17 /\ p.method \in MethodNames /\ p.index <= Length(p.method)
      /\ Length(p.method) \in 1 .. 16
  BY <1>1, Lengths DEF Sound, Matching, Parser
<1>4. p.index + 1 \in 0 .. 17
  BY <1>3
<1>5. Step(p, Fail(p, "INVALID_METHOD"))
  BY FailStep DEF Errnos
<1>6. ASSUME NEW r \in Parser, r.state \in Lines, r.marks = p.marks, r.flags = p.flags,
             r.passed = p.passed, r.skipping = p.skipping, r.calls = p.calls,
             r.state = "s_req_method" => r.index <= Length(r.method)
      PROVE  Step(p, r)
  BY <1>1, <1>6, InLine
<1>7. q \in Parser /\ u \in Parser
  BY <1>1, <1>2, <1>4, Put, Zenon DEF Go
<1>8. /\ q.state = p.state /\ q.marks = p.marks /\ q.flags = p.flags /\ q.passed = p.passed
      /\ q.skipping = p.skipping /\ q.calls = p.calls /\ q.index = p.index + 1
      /\ q.method = p.method
  BY <1>1 DEF Parser
<1>9. /\ u.state = "s_req_spaces_before_url" /\ u.marks = p.marks /\ u.flags = p.flags
      /\ u.passed = p.passed /\ u.skipping = p.skipping /\ u.calls = p.calls
  BY <1>1 DEF Parser, Go
<1>10. \/ Method(p, ch) = Fail(p, "INVALID_METHOD")
       \/ Method(p, ch) = u
       \/ Method(p, ch) = q /\ ch # NUL /\ ch = Nth(p.method, p.index)
       \/ Method(p, ch) = v /\ others # {}
  BY DEF Method
<1>11. Step(p, u)
  BY <1>2, <1>6, <1>7, <1>9
<1>12. ASSUME ch # NUL, ch = Nth(p.method, p.index)
       PROVE  Step(p, q)
  <2>1. p.index + 1 <= Length(p.method)
    BY <1>3, <1>12, NthInside
  <2>2. QED
    BY <1>1, <1>6, <1>7, <1>8, <2>1
<1>13. ASSUME others # {}
       PROVE  Step(p, v)
  <2> DEFINE m == CHOOSE m \in others : TRUE
  <2>1. m \in OtherMethods /\ m[2] = p.index
    BY <1>13
  <2>2. m[4] \in MethodNames /\ p.index + 1 <= Length(m[4])
    BY <2>1, Lengths
  <2> HIDE DEF m
  <2>3. v = [q EXCEPT !.method = m[4]]
    BY DEF m
  <2> HIDE DEF v, others
  <2>4. v \in Parser
    BY <1>7, <2>2, <2>3, Put, Zenon
  <2> HIDE DEF q
  <2>5. /\ v.state = p.state /\ v.marks = p.marks /\ v.flags = p.flags /\ v.passed = p.passed
        /\ v.skipping = p.skipping /\ v.calls = p.calls /\ v.index = p.index + 1
        /\ v.method = m[4]
    BY <1>7, <1>8, <2>3 DEF Parser
  <2>6. QED
    BY <1>1, <1>6, <2>2, <2>4, <2>5
<1>14. QED
  BY <1>5, <1>10, <1>11, <1>12, <1>13

(* Outside the table there is only s_dead, which is the error. *)
LEMMA UrlTargets ==
    ASSUME NEW s, NEW ch
    PROVE  parse_url_char(s, ch) \in UrlStates \cup {"s_dead"}
<1>1. \A m \in UrlMoves : m[3] \in UrlStates
  BY DEF UrlMoves, UrlStates, UrlEnds
<1>2. QED
  BY <1>1 DEF parse_url_char

(* The url is marked from its first byte to the one that ends it. *)
LEMMA UrlStep ==
    ASSUME NEW p, Sound(p), ~Failed(p), p.state \in UrlStates \cup {"s_req_spaces_before_url"},
           p.calls = {}, NEW ch
    PROVE  Step(p, Url(p, ch))
<1> DEFINE first == p.state = "s_req_spaces_before_url"
           from  == IF first /\ p.method = "CONNECT" THEN "s_req_server_start" ELSE p.state
           to    == parse_url_char(from, ch)
           q     == IF first THEN MARK(p, "url") ELSE p
           old   == [q EXCEPT !.http_major = 0, !.http_minor = 9]
           Ends(r, s) == CALLBACK_DATA(Go(r, s), "url")
<1>1. p \in Parser /\ p.marks \subseteq {"url"} /\ p.http_errno = "OK" /\ p.state \in Lines
  BY DEF Sound, Lines, MarkOf, Remarked, Bodies, UrlStates, UrlEnds, Failed
<1>2. q \in Parser /\ q.marks \subseteq {"url"}
      /\ q.state = p.state /\ q.flags = p.flags /\ q.passed = p.passed
      /\ q.skipping = p.skipping /\ q.calls = p.calls
  <2>1. "url" \in Data
    BY DEF Data
  <2>2. CASE first
    <3>1. q = MARK(p, "url")
      BY <2>2
    <3>2. Like(p, q, {"marks"}) /\ q.marks = p.marks \cup {"url"}
      BY <1>1, <2>1, <3>1, MarkSets
    <3> HIDE DEF q
    <3>3. p.marks \cup {"url"} \subseteq {"url"}
      BY <1>1
    <3>4. QED
      BY <1>1, <3>2, <3>3 DEF Like
  <2>3. CASE ~first
    <3>1. q = p
      BY <2>3
    <3> HIDE DEF q
    <3>2. QED
      BY <1>1, <3>1
  <2>4. QED
    BY <2>2, <2>3
<1>3. old \in Parser /\ old.marks \subseteq {"url"}
      /\ old.state = p.state /\ old.flags = p.flags /\ old.passed = p.passed
      /\ old.skipping = p.skipping /\ old.calls = p.calls
  <2> HIDE DEF q
  <2>1. old \in Parser
    BY <1>2, Values, Put, Zenon
  <2>2. QED
    BY <1>2, <2>1 DEF Parser
<1>4. ASSUME NEW r \in Parser, r.marks \subseteq {"url"}, r.flags = p.flags, r.passed = p.passed,
             r.skipping = p.skipping, r.calls = p.calls,
             NEW s \in {"s_req_http_start", "s_req_line_almost_done", "s_header_field_start"}
      PROVE  Step(p, Ends(r, s))
  <2> DEFINE e == Ends(r, s)
  <2>1. s \in States /\ s \in Lines \cup {"s_header_field_start"} /\ s # "s_req_method"
    BY DEF States, Lasting, Lines, Heads
  <2>2. r.marks \ {"url"} = {} /\ "url" \in Data
    BY <1>4 DEF Data
  <2>3. Like(r, Go(r, s), {"state"}) /\ Go(r, s).state = s
    BY <2>1, Goes
  <2>4. Like(Go(r, s), e, {"marks"}) /\ e.marks = Go(r, s).marks \ {"url"}
    BY <2>2, <2>3, DataGiven DEF Like
  <2>5. e \in Parser /\ e.state = s /\ e.marks = {} /\ e.flags = p.flags /\ e.passed = p.passed
        /\ e.skipping = p.skipping /\ e.calls = p.calls
    BY <1>4, <2>2, <2>3, <2>4 DEF Like
  <2> HIDE DEF e
  <2>6. e.marks \subseteq MarkOf(e.state) /\ e.state # "s_req_method"
    BY <2>1, <2>5
  <2>7. Step(p, e)
    BY <1>1, <2>1, <2>5, <2>6, InLine
  <2>8. QED
    BY <2>7 DEF e
<1>5. ASSUME to # "s_dead"
      PROVE  Step(p, Go(q, to))
  <2>1. to \in UrlStates /\ to \in States /\ to \in Lines /\ to # "s_req_method"
    BY <1>5, UrlTargets DEF States, Lasting, Lines, UrlStates, UrlEnds
  <2>2. MarkOf(to) = {"url"}
    BY <2>1 DEF MarkOf, Remarked, UrlStates, UrlEnds, Bodies
  <2> HIDE DEF to, q
  <2> DEFINE g == Go(q, to)
  <2>3. Like(q, g, {"state"}) /\ g.state = to
    BY <1>2, <2>1, Goes
  <2>4. g \in Parser /\ g.marks = q.marks /\ g.flags = p.flags /\ g.passed = p.passed
        /\ g.skipping = p.skipping /\ g.calls = p.calls
    BY <1>2, <2>3 DEF Like
  <2> HIDE DEF g
  <2>5. g.marks \subseteq MarkOf(g.state) /\ g.state # "s_req_method"
    BY <1>2, <2>1, <2>2, <2>3, <2>4
  <2>6. Step(p, g)
    BY <1>1, <2>1, <2>3, <2>4, <2>5, InLine
  <2>7. QED
    BY <2>6 DEF g
<1>6. Step(p, Fail(q, "INVALID_URL"))
  <2>1. q.state \in Lasting /\ Framed(q)
    BY <1>1, <1>2, Disjoint DEF Sound, Framed
  <2> HIDE DEF q
  <2>2. Like(q, Fail(q, "INVALID_URL"), {"http_errno"}) /\ Failed(Fail(q, "INVALID_URL"))
    BY <1>2, Fails DEF Errnos, Failed
  <2>3. QED
    BY <2>1, <2>2 DEF Like, Step, Sound, Framed
<1>7. Url(p, ch) \in {Ends(q, "s_req_http_start"), Ends(old, "s_req_line_almost_done"),
                      Ends(old, "s_header_field_start"), Fail(q, "INVALID_URL")}
      \/ (Url(p, ch) = Go(q, to) /\ to # "s_dead")
  BY DEF Url
<1>8. Step(p, Ends(q, "s_req_http_start"))
  BY <1>2, <1>4
<1>9. Step(p, Ends(old, "s_req_line_almost_done")) /\ Step(p, Ends(old, "s_header_field_start"))
  BY <1>3, <1>4
<1>10. QED
  BY <1>5, <1>6, <1>7, <1>8, <1>9

(* The digits and their values. *)
LEMMA Digits ==
    /\ \A ch \in NUM : Digit[ch] \in 0 .. 9
    /\ \A ch \in DOMAIN unhex : unhex[ch] \in 0 .. 15
<1>1. ASSUME NEW ch \in NUM
      PROVE  Digit[ch] \in 0 .. 9
  <2>1. ch \in Chars("0123456789") /\ Digit[ch] = IndexIn("0123456789", ch) - 1
    BY <1>1 DEF NUM, Digit
  <2>2. \E i \in 1 .. 10 : SubSeq("0123456789", i, i) = ch
    BY <2>1, LengthAssumption DEF Chars
  <2>3. IndexIn("0123456789", ch) \in 1 .. 10
    BY <2>2, LengthAssumption DEF IndexIn
  <2>4. QED
    BY <2>1, <2>3
<1>2. ASSUME NEW ch \in DOMAIN unhex
      PROVE  unhex[ch] \in 0 .. 15
  <2> DEFINE i == IndexIn("0123456789abcdefABCDEF", ch) - 1
  <2>1. ch \in Chars("0123456789abcdefABCDEF") /\ unhex[ch] = IF i > 15 THEN i - 6 ELSE i
    BY <1>2 DEF unhex
  <2>2. \E k \in 1 .. 22 : SubSeq("0123456789abcdefABCDEF", k, k) = ch
    BY <2>1, LengthAssumption DEF Chars
  <2>3. IndexIn("0123456789abcdefABCDEF", ch) \in 1 .. 22
    BY <2>2, LengthAssumption DEF IndexIn
  <2>4. QED
    BY <2>1, <2>3
<1>3. QED
  BY <1>1, <1>2

LEMMA NumberFields ==
    ASSUME NEW n \in Numbers
    PROVE  /\ n[1] \in {"http_major", "http_minor", "status_code"}
           /\ n[3] \in Lines /\ n[3] # "s_req_method" /\ n[3] \notin UrlStates
           /\ n[3] # "s_res_status"
           /\ n[4] \in Errnos \ {"OK"}
BY DEF Numbers, Lines, UrlStates, UrlEnds, Errnos

(* A number of the start line: its field, of three, keeps a natural. *)
LEMMA NumberStep ==
    ASSUME NEW p, Sound(p), ~Failed(p), p.state \in NumberStates, p.calls = {}, NEW ch
    PROVE  Step(p, Number(p, ch))
<1> DEFINE n     == CHOOSE m \in Numbers : p.state \in {m[2], m[3]}
           first == p.state = n[2]
           value == IF first THEN Digit[ch] ELSE 10 * p[n[1]] + Digit[ch]
           q     == [Go(p, n[3]) EXCEPT ![n[1]] = value]
<1>1. n \in Numbers /\ p \in Parser /\ p.http_errno = "OK"
  BY DEF NumberStates, Sound, Failed
<1>2. p.state \in Lines /\ p.marks = {}
  BY DEF Sound, NumberStates, Numbers, Lines, MarkOf, Remarked, Bodies, UrlStates, UrlEnds
<1>3. /\ n[1] \in {"http_major", "http_minor", "status_code"}
      /\ n[3] \in Lines /\ n[3] # "s_req_method" /\ n[4] \in Errnos \ {"OK"}
  BY <1>1, NumberFields
<1>4. Number(p, ch) = Fail(p, n[4]) \/ (ch \in NUM /\ Number(p, ch) \in {q, Fail(q, n[4])})
  BY DEF Number
<1>5. Step(p, Fail(p, n[4]))
  BY <1>3, FailStep
<1>6. ASSUME ch \in NUM
      PROVE  Step(p, q)
  <2>1. p[n[1]] \in Nat /\ Digit[ch] \in Nat
    BY <1>1, <1>3, <1>6, Digits DEF Parser
  <2>2. value \in Nat
    BY <2>1
  <2>3. n[3] \in States
    BY <1>3 DEF States, Lasting
  <2> DEFINE g == Go(p, n[3])
  <2>4. Like(p, g, {"state"}) /\ g.state = n[3] /\ q = [g EXCEPT ![n[1]] = value]
    BY <1>1, <2>3, Goes
  <2> HIDE DEF n, value, g, q
  <2>5. q \in Parser
    <3>1. CASE n[1] = "http_major"
      BY <2>2, <2>4, <3>1, Put, Zenon DEF Like
    <3>2. CASE n[1] = "http_minor"
      BY <2>2, <2>4, <3>2, Put, Zenon DEF Like
    <3>3. CASE n[1] = "status_code"
      BY <2>2, <2>4, <3>3, Put, Zenon DEF Like
    <3>4. QED
      BY <1>3, <3>1, <3>2, <3>3
  <2>6. /\ q.state = n[3] /\ q.marks = {} /\ q.flags = p.flags /\ q.passed = p.passed
        /\ q.skipping = p.skipping /\ q.calls = p.calls
    BY <1>2, <1>3, <2>4 DEF Like, Parser
  <2>7. QED
    BY <1>2, <1>3, <2>5, <2>6, InLine
<1>7. ASSUME ch \in NUM
      PROVE  Step(p, Fail(q, n[4]))
  <2>1. Sound(q) /\ n[4] \in Errnos /\ n[4] # "OK"
    BY <1>3, <1>6, <1>7 DEF Step
  <2> HIDE DEF q, n
  <2>2. QED
    BY <2>1, FailStep
<1> HIDE DEF q, n
<1>8. QED
  BY <1>4, <1>5, <1>6, <1>7

(* The reason phrase is marked from its first byte to the end of the line. *)
LEMMA ReasonStep ==
    ASSUME NEW p, Sound(p), ~Failed(p), p.calls = {}, NEW ch
    PROVE  /\ p.state = "s_res_status_start" =>
                 Step(p, MARK([Go(p, "s_res_status") EXCEPT !.index = 0], "status"))
           /\ p.state = "s_res_status" => Step(p, ReasonPhrase(p, ch))
<1>1. p \in Parser /\ "status" \in Data /\ MarkOf("s_res_status") = {"status"}
  BY DEF Sound, Data, MarkOf, Remarked, Bodies, UrlStates, UrlEnds
<1>2. {"s_res_status", "s_res_line_almost_done", "s_header_field_start"} \subseteq States
      /\ "s_res_status" \in Lines /\ "s_res_status_start" \in Lines /\ "s_res_line_almost_done" \in Lines
  BY DEF States, Lasting, Lines, Heads
<1>3. ASSUME p.state = "s_res_status_start"
      PROVE  Step(p, MARK([Go(p, "s_res_status") EXCEPT !.index = 0], "status"))
  <2> DEFINE r == [Go(p, "s_res_status") EXCEPT !.index = 0]
             q == MARK(r, "status")
  <2>1. p.marks = {}
    BY <1>3 DEF Sound, MarkOf, Remarked, Bodies, UrlStates, UrlEnds
  <2>2. r \in Parser
    BY <1>1, <1>2, Values, Put, Zenon DEF Go
  <2>3. /\ r.state = "s_res_status" /\ r.marks = {} /\ r.flags = p.flags /\ r.passed = p.passed
        /\ r.skipping = p.skipping /\ r.calls = p.calls
    BY <1>1, <2>1 DEF Go, Parser
  <2> HIDE DEF r
  <2>4. Like(r, q, {"marks"}) /\ q.marks = {"status"}
    BY <1>1, <2>2, <2>3, MarkSets
  <2> HIDE DEF q
  <2>5. q \in Parser /\ q.state = "s_res_status" /\ q.marks \subseteq MarkOf(q.state)
        /\ q.flags = p.flags /\ q.passed = p.passed
        /\ q.skipping = p.skipping /\ q.calls = p.calls
    BY <1>1, <2>3, <2>4 DEF Like
  <2>6. Step(p, q)
    BY <1>2, <1>3, <2>5, InLine
  <2>7. QED
    BY <2>6 DEF q, r
<1>4. ASSUME p.state = "s_res_status", NEW s \in {"s_res_line_almost_done", "s_header_field_start"}
      PROVE  Step(p, CALLBACK_DATA(Go(p, s), "status"))
  <2> DEFINE r == Go(p, s)
             q == CALLBACK_DATA(r, "status")
  <2>1. p.marks \subseteq {"status"}
    BY <1>1, <1>4 DEF Sound
  <2>2. Like(p, r, {"state"}) /\ r.state = s
    BY <1>1, <1>2, Goes
  <2> HIDE DEF r
  <2>3. Like(r, q, {"marks"}) /\ q.marks = r.marks \ {"status"}
    BY <1>1, <2>2, DataGiven DEF Like
  <2> HIDE DEF q
  <2>4. q \in Parser /\ q.state = s /\ q.marks = {} /\ q.flags = p.flags /\ q.passed = p.passed
        /\ q.skipping = p.skipping /\ q.calls = p.calls
    BY <2>1, <2>2, <2>3 DEF Like
  <2>5. q.state \in Lines \cup {"s_header_field_start"} /\ q.state # "s_req_method"
        /\ q.marks \subseteq MarkOf(q.state)
    BY <1>2, <2>4
  <2>6. Step(p, q)
    BY <1>2, <1>4, <2>4, <2>5, InLine
  <2>7. QED
    BY <2>6 DEF q, r
<1>5. ASSUME p.state = "s_res_status"
      PROVE  Step(p, p)
  BY <1>2, <1>5, InLine DEF Sound
<1>6. ReasonPhrase(p, ch) \in {CALLBACK_DATA(Go(p, "s_res_line_almost_done"), "status"),
                               CALLBACK_DATA(Go(p, "s_header_field_start"), "status"), p}
  BY DEF ReasonPhrase
<1>7. QED
  BY <1>3, <1>4, <1>5, <1>6

(* Every transition of the table. *)
LEMMA MoveStep ==
    ASSUME NEW p, Sound(p), ~Failed(p), p.calls = {}, NEW m \in Moves, m[1] = p.state
    PROVE  Step(p, Go(p, m[3]))
<1> DEFINE q == Go(p, m[3])
<1>1. /\ MarkOf(p.state) = {} /\ p.state \notin Loops /\ m[3] # "s_req_method"
      /\ \/ p.state \in Idle /\ m[3] = p.state
         \/ p.state \in Lines /\ m[3] \in Lines \cup {"s_header_field_start"}
         \/ p.state \in Heads /\ m[3] \in Heads \ Loops
         \/ /\ p.state \in {"s_chunk_size", "s_chunk_parameters"}
            /\ m[3] \in {"s_chunk_parameters", "s_chunk_size_almost_done"}
  BY MovesKeep
<1>2. p \in Parser /\ p.marks = {} /\ p.passed = 0 /\ p.skipping = FALSE
  BY <1>1 DEF Sound, Looped
<1>3. m[3] \in States
  BY <1>1 DEF States, Lasting, Heads, ChunkStates
<1>4. Like(p, q, {"state"}) /\ q.state = m[3]
  BY <1>2, <1>3, Goes
<1> HIDE DEF q
<1>5. q \in Parser /\ q.marks = {} /\ q.passed = 0 /\ q.skipping = FALSE
      /\ q.flags = p.flags /\ q.calls = {} /\ q.content_length = p.content_length
      /\ q.marks \subseteq MarkOf(q.state)
  BY <1>2, <1>4 DEF Like
<1>6. CASE p.state \in Idle /\ m[3] = p.state
  <2>1. "CONTENTLENGTH" \in q.flags => q.content_length < ULLONG_MAX
    BY <1>5 DEF Sound, Sized
  <2>2. Sound(q) /\ Waits(q) = 0
    BY <1>4, <1>5, <1>6, <2>1, InIdle
  <2>3. Waits(p) = 0
    BY <1>6, Disjoint DEF Waits
  <2>4. One("headers_complete", q) = 0 /\ One("message_complete", q) = 0
    BY <1>5 DEF One
  <2>5. QED
    BY <2>2, <2>3, <2>4 DEF Step, q
<1>7. CASE p.state \in Lines /\ m[3] \in Lines \cup {"s_header_field_start"}
  <2>1. Step(p, q)
    BY <1>1, <1>2, <1>4, <1>5, <1>7, InLine
  <2>2. QED
    BY <2>1 DEF q
<1>8. CASE p.state \in Heads /\ m[3] \in Heads \ Loops
  <2>1. Looped(q) /\ Matching(q) /\ Silent(q)
    BY <1>1, <1>4, <1>5, <1>8 DEF Looped, Matching, Silent, Loops
  <2>2. "CONTENTLENGTH" \in q.flags => q.content_length < ULLONG_MAX
    BY <1>5 DEF Sound, Sized
  <2>3. Step(p, q)
    BY <1>4, <1>5, <1>8, <2>1, <2>2, InHead
  <2>4. QED
    BY <2>3 DEF q
<1>9. CASE /\ p.state \in {"s_chunk_size", "s_chunk_parameters"}
           /\ m[3] \in {"s_chunk_parameters", "s_chunk_size_almost_done"}
  <2>1. p.state \in ChunkStates /\ q.state \in ChunkStates /\ p.state \in Known
    BY <1>4, <1>9 DEF ChunkStates, Known
  <2>2. Sized(q)
    BY <1>4, <1>5, <1>9, <2>1 DEF Sound, Sized
  <2>3. Step(p, q)
    BY <1>2, <1>5, <2>1, <2>2, InChunks
  <2>4. QED
    BY <2>3 DEF q
<1>10. QED
  BY <1>1, <1>6, <1>7, <1>8, <1>9

-----------------------------------------------------------------------------
(* The end of the headers, and of a message. *)

(* One handler after another. *)
LEMMA StepTrans ==
    ASSUME NEW p, NEW r, NEW q, Step(p, r), ~Failed(r), Silent(r), Step(r, q)
    PROVE  Step(p, q)
<1>1. Waits(p) \in {0, 1} /\ Waits(r) \in {0, 1} /\ Waits(q) \in {0, 1}
  BY DEF Waits
<1>2. One("headers_complete", r) = 0 /\ One("message_complete", r) = 0
  BY DEF One, Silent
<1>3. One("headers_complete", q) \in {0, 1} /\ One("message_complete", q) \in {0, 1}
  BY DEF One
<1>4. Waits(r) = Waits(p)
  BY <1>1, <1>2 DEF Step
<1>5. QED
  BY <1>4 DEF Step

(* The end of a message changes its state and notes the callback. *)
LEMMA Completes ==
    ASSUME NEW p \in Parser
    PROVE  /\ Like(p, Completed(p), {"state", "calls"})
           /\ Completed(p).state \in Idle
           /\ Completed(p).calls = p.calls \cup {"message_complete"}
           /\ Like(p, MessageDone(p), {"state", "calls", "exited"})
           /\ MessageDone(p).state \in Idle
           /\ MessageDone(p).calls = p.calls \cup {"message_complete"}
<1> DEFINE c == Completed(p)
           d == MessageDone(p)
<1>1. PICK s \in Idle : c = Call(Go(p, s), "message_complete")
  BY DEF Completed, Idle
<1>2. s \in States /\ "message_complete" \in Calls
  BY DEF States, Lasting, Calls
<1>3. Like(p, Go(p, s), {"state"}) /\ Go(p, s).state = s
  BY <1>2, Goes
<1>4. Go(p, s) \in Parser
  BY <1>3 DEF Like
<1>5. Like(Go(p, s), c, {"calls"}) /\ c.calls = Go(p, s).calls \cup {"message_complete"}
  BY <1>1, <1>2, <1>4, CallNotes
<1>6. d = [c EXCEPT !.exited = p.upgrade]
  BY DEF MessageDone
<1> HIDE DEF c, d
<1>7. Like(p, c, {"state", "calls"}) /\ c.state \in Idle /\ c.calls = p.calls \cup {"message_complete"}
  BY <1>3, <1>5 DEF Like
<1>8. d \in Parser
  <2>1. c \in Parser /\ p.upgrade \in BOOLEAN
    BY <1>7 DEF Like, Parser
  <2>2. QED
    BY <1>6, <2>1, Put
<1>9. Like(c, d, {"exited"})
  BY <1>6, <1>7, <1>8 DEF Like, Parser
<1>10. Like(p, d, {"state", "calls", "exited"}) /\ d.state \in Idle
       /\ d.calls = p.calls \cup {"message_complete"}
  BY <1>7, <1>9 DEF Like
<1>11. QED
  BY <1>7, <1>10 DEF c, d

(* A message ends, whose headers were complete before, or with them. *)
LEMMA EndStep ==
    ASSUME NEW p, NEW r \in Parser, r.marks = {}, r.passed = 0, r.skipping = FALSE,
           "CONTENTLENGTH" \in r.flags => r.content_length < ULLONG_MAX,
           "message_complete" \notin r.calls,
           Waits(p) + One("headers_complete", r) = 1
    PROVE  Step(p, Completed(r)) /\ Step(p, MessageDone(r))
<1>1. ASSUME NEW q, Like(r, q, {"state", "calls", "exited"}), q.state \in Idle,
             q.calls = r.calls \cup {"message_complete"}
      PROVE  Step(p, q)
  <2>1. Sound(q) /\ Waits(q) = 0
    BY <1>1, InIdle DEF Like
  <2>2. One("headers_complete", q) = One("headers_complete", r) /\ One("message_complete", q) = 1
    BY <1>1 DEF One
  <2>3. Waits(p) \in {0, 1} /\ One("headers_complete", r) \in {0, 1}
    BY DEF Waits, One
  <2>4. QED
    BY <2>1, <2>2, <2>3 DEF Step
<1>2. Like(r, Completed(r), {"state", "calls", "exited"})
  BY Completes DEF Like
<1>3. QED
  BY <1>1, <1>2, Completes

(* The headers are complete: a body follows, or the message has ended. A      *)
(* length that was declared is known, and chunks come without one.            *)
LEMMA HeadersDoneStep ==
    ASSUME NEW p, Sound(p), ~Failed(p), p.state \in Heads \ Loops, Silent(p),
           "TRAILING" \notin p.flags, ~({"CHUNKED", "CONTENTLENGTH"} \subseteq p.flags),
           p.marks = {}, NEW t,
           Like(p, t, {"state", "upgrade", "calls"}), t.calls = p.calls \cup {"headers_complete"}
    PROVE  Step(p, HeadersDone(t))
<1> DEFINE q == [t EXCEPT !.nread = 0]
<1>1. p \in Parser /\ t \in Parser /\ p.passed = 0 /\ p.skipping = FALSE
  BY DEF Sound, Looped, Like
<1>2. q \in Parser
  BY <1>1, Values, Put, Zenon
<1>3. /\ q.flags = p.flags /\ q.content_length = p.content_length /\ q.nread = 0
      /\ q.marks = {} /\ q.passed = 0 /\ q.skipping = FALSE
      /\ q.calls = p.calls \cup {"headers_complete"}
  BY <1>1 DEF Like, Parser
<1>4. "CONTENTLENGTH" \in p.flags => p.content_length < ULLONG_MAX
  BY DEF Sound, Sized
<1>5. "message_complete" \notin q.calls /\ One("headers_complete", q) = 1 /\ One("message_complete", q) = 0
  BY <1>3 DEF One, Silent
<1>6. Waits(p) = 0
  BY Disjoint DEF Waits
<1>7. \/ HeadersDone(t) \in {MessageDone(q), Completed(q)}
      \/ HeadersDone(t) = Go(q, "s_chunk_size_start") /\ "CHUNKED" \in q.flags
      \/ HeadersDone(t) = Go(q, "s_body_identity") /\ q.content_length \notin {0, ULLONG_MAX}
      \/ HeadersDone(t) = Go(q, "s_body_identity_eof")
  BY DEF HeadersDone
<1> HIDE DEF q
<1>8. Step(p, MessageDone(q)) /\ Step(p, Completed(q))
  <2>1. "CONTENTLENGTH" \in q.flags => q.content_length < ULLONG_MAX
    BY <1>3, <1>4
  <2>2. Waits(p) + One("headers_complete", q) = 1
    BY <1>5, <1>6
  <2>3. QED
    BY <1>2, <1>3, <1>5, <2>1, <2>2, EndStep
<1>9. ASSUME NEW s \in Bodies \cup {"s_chunk_size_start"},
             s = "s_chunk_size_start" => "CHUNKED" \in q.flags,
             s = "s_body_identity" => q.content_length \notin {0, ULLONG_MAX}
      PROVE  Step(p, Go(q, s))
  <2> DEFINE g == Go(q, s)
  <2>1. s \in States /\ s \in Lasting /\ s \in Bodies \cup ChunkStates
    BY DEF States, Lasting, ChunkStates
  <2>2. Like(q, g, {"state"}) /\ g.state = s
    BY <1>2, <2>1, Goes
  <2> HIDE DEF g
  <2>3. g \in Parser /\ g.flags = p.flags /\ g.content_length = p.content_length /\ g.nread = 0
        /\ g.marks = {} /\ g.passed = 0 /\ g.skipping = FALSE /\ g.calls = q.calls
    BY <1>3, <2>2 DEF Like
  <2>4. g.content_length \in 0 .. ULLONG_MAX /\ ULLONG_MAX \in Nat
    BY <2>3, ParserAssumption DEF Parser
  <2>5. Framed(g)
    <3>1. g.state \in ChunkStates => g.state = "s_chunk_size_start"
      BY <2>2, Disjoint
    <3>2. QED
      BY <1>3, <1>9, <2>2, <2>3, <3>1 DEF Framed
  <2>6. Looped(g) /\ Flagging(g)
    <3>1. g.state \in ChunkStates => "CHUNKED" \in g.flags
      BY <1>3, <1>9, <2>2, <2>3, Disjoint
    <3>2. QED
      BY <2>1, <2>2, <2>3, <3>1, Disjoint DEF Looped, Flagging
  <2>7. Matching(g)
    BY <2>1, <2>2, Disjoint DEF Matching, Loops
  <2>8. Sized(g)
    <3>1. s \in {"s_body_identity", "s_body_identity_eof", "s_chunk_size_start"}
      BY DEF Bodies
    <3>2. s \in Known => s = "s_body_identity"
      BY <3>1 DEF Known, ChunkStates
    <3>3. s \notin {"s_chunk_data", "s_chunk_data_almost_done"}
      BY <3>1
    <3>4. s = "s_body_identity" => g.content_length > 0 /\ g.content_length < ULLONG_MAX
      BY <1>3, <1>9, <2>3, <2>4
    <3>5. QED
      BY <1>3, <1>4, <2>2, <2>3, <3>2, <3>3, <3>4 DEF Sized
  <2>9. Waits(g) = 1 /\ One("headers_complete", g) = 1 /\ One("message_complete", g) = 0
    BY <1>5, <2>1, <2>2, <2>3 DEF Waits, One
  <2>10. Step(p, g)
    BY <1>6, <2>1, <2>2, <2>3, <2>5, <2>6, <2>7, <2>8, <2>9 DEF Step, Sound
  <2>11. QED
    BY <2>10 DEF g
<1>10. QED
  BY <1>7, <1>8, <1>9 DEF Bodies

(* The empty line that ends the headers, or the trailer. *)
LEMMA HeadersAlmostDoneStep ==
    ASSUME NEW p, Sound(p), ~Failed(p), p.state = "s_headers_almost_done", Silent(p), NEW ch
    PROVE  Step(p, HeadersAlmostDone(p, ch))
<1> DEFINE u == {"UPGRADE", "CONNECTION_UPGRADE"} \subseteq p.flags \/ p.method = "CONNECT"
           r == [p EXCEPT !.state = "s_headers_done", !.upgrade = u]
           t == Call(r, "headers_complete")
<1>1. /\ p \in Parser /\ p.state \in Heads \ Loops /\ p.passed = 0 /\ p.skipping = FALSE
      /\ "CONTENTLENGTH" \in p.flags => p.content_length < ULLONG_MAX
  BY DEF Sound, Heads, Loops, Looped, Sized
<1>2. p.marks = {}
  BY DEF Sound, MarkOf, Remarked, Bodies, UrlStates, UrlEnds
<1>3. Step(p, Fail(p, "STRICT")) /\ Step(p, Fail(p, "UNEXPECTED_CONTENT_LENGTH"))
  BY FailStep DEF Errnos
<1>4. ASSUME "TRAILING" \in p.flags
      PROVE  Step(p, MessageDone(p))
  <2>1. Waits(p) = 1 /\ One("headers_complete", p) = 0 /\ "message_complete" \notin p.calls
    BY <1>1, <1>4, Disjoint DEF Waits, One, Silent
  <2>2. Waits(p) + One("headers_complete", p) = 1
    BY <2>1
  <2>3. QED
    BY <1>1, <1>2, <2>1, <2>2, EndStep
<1>5. ASSUME "TRAILING" \notin p.flags, ~({"CHUNKED", "CONTENTLENGTH"} \subseteq p.flags)
      PROVE  Step(p, HeadersDone(t))
  <2>1. "s_headers_done" \in States /\ u \in BOOLEAN /\ "headers_complete" \in Calls
    BY DEF States, Calls
  <2> HIDE DEF u
  <2>2. r \in Parser
    BY <1>1, <2>1, Put, Zenon
  <2>3. Like(p, r, {"state", "upgrade"})
    BY <1>1, <2>2 DEF Like, Parser
  <2> HIDE DEF r
  <2>4. Like(r, t, {"calls"}) /\ t.calls = r.calls \cup {"headers_complete"}
    BY <2>1, <2>2, CallNotes
  <2> HIDE DEF t
  <2>5. Like(p, t, {"state", "upgrade", "calls"}) /\ t.calls = p.calls \cup {"headers_complete"}
    BY <2>3, <2>4 DEF Like
  <2>6. QED
    BY <1>1, <1>2, <1>5, <2>5, HeadersDoneStep
<1>6. \/ HeadersAlmostDone(p, ch) \in {Fail(p, "STRICT"), Fail(p, "UNEXPECTED_CONTENT_LENGTH")}
      \/ HeadersAlmostDone(p, ch) = MessageDone(p) /\ "TRAILING" \in p.flags
      \/ /\ HeadersAlmostDone(p, ch) = HeadersDone(t)
         /\ "TRAILING" \notin p.flags /\ ~({"CHUNKED", "CONTENTLENGTH"} \subseteq p.flags)
  BY DEF HeadersAlmostDone
<1>7. QED
  BY <1>3, <1>4, <1>5, <1>6

-----------------------------------------------------------------------------
(* Header fields. *)

(* Outside chunks an error asks for the types alone. *)
LEMMA FailedStep ==
    ASSUME NEW p, NEW q \in Parser, Failed(q), q.state \in Lasting \ ChunkStates
    PROVE  Step(p, q)
BY DEF Step, Sound, Framed

(* What the inner loops have marked. *)
LEMMA LoopMarks ==
    /\ MarkOf("s_header_field") = {"header_field"}
    /\ MarkOf("s_header_value") = {"header_value"}
BY DEF MarkOf, Remarked, Bodies, UrlStates, UrlEnds

(* A name begins, or the empty line. *)
LEMMA HeaderFieldStartStep ==
    ASSUME NEW p, Sound(p), ~Failed(p), p.state = "s_header_field_start", Silent(p), NEW ch
    PROVE  Step(p, HeaderFieldStart(p, ch))
<1> DEFINE r == Go(p, "s_headers_almost_done")
           h == FirstLetter(Lowered(ch))
           g == Go(p, "s_header_field")
           m == MARK(g, "header_field")
           q == [m EXCEPT !.index = 0, !.header_state = h]
<1>1. /\ p \in Parser /\ p.state \in Heads /\ p.passed = 0 /\ p.skipping = FALSE
      /\ "CONTENTLENGTH" \in p.flags => p.content_length < ULLONG_MAX
  BY DEF Sound, Heads, Loops, Looped, Sized
<1>2. p.marks = {} /\ p.http_errno = "OK"
  BY DEF Sound, MarkOf, Remarked, Bodies, UrlStates, UrlEnds, Failed
<1>3. Step(p, Fail(p, "INVALID_HEADER_TOKEN"))
  BY FailStep DEF Errnos
<1>4. Like(p, r, {"state"}) /\ r.state = "s_headers_almost_done"
  BY <1>1, Goes DEF States, Lasting, Heads
<1>5. Step(p, r) /\ ~Failed(r) /\ Silent(r)
  <2> HIDE DEF r
  <2>1. r \in Parser /\ r.state \in Heads /\ Silent(r) /\ r.marks \subseteq MarkOf(r.state)
        /\ r.flags = p.flags /\ r.content_length = p.content_length /\ ~Failed(r)
    BY <1>2, <1>4 DEF Like, Silent, Heads, Failed
  <2>2. Looped(r) /\ Matching(r)
    BY <1>1, <1>4 DEF Like, Looped, Matching, Loops
  <2>3. QED
    BY <1>1, <2>1, <2>2, InHead
<1>6. Step(p, HeadersAlmostDone(r, ch))
  <2> HIDE DEF r
  <2>1. Step(r, HeadersAlmostDone(r, ch))
    BY <1>4, <1>5, HeadersAlmostDoneStep DEF Step
  <2>2. QED
    BY <1>5, <2>1, StepTrans
<1>7. Step(p, q)
  <2>1. "s_header_field" \in States /\ "s_header_field" \in Heads /\ "header_field" \in Data
    BY DEF States, Lasting, Heads, Data
  <2>2. h \in {"h_C", "h_matching_proxy_connection", "h_matching_transfer_encoding",
               "h_matching_upgrade", "h_general"}
    BY DEF FirstLetter
  <2>3. h \in FieldHeaders /\ h \in Headers /\ h # "h_matching_connection_token_start"
        /\ h # "h_CO" /\ h # "h_CON"
    BY <2>2 DEF FieldHeaders, Headers, FieldPrefix, FieldMatching
  <2> HIDE DEF h
  <2>4. Like(p, g, {"state"}) /\ g.state = "s_header_field"
    BY <1>1, <2>1, Goes
  <2> HIDE DEF g
  <2>5. Like(g, m, {"marks"}) /\ m.marks = {"header_field"}
    BY <1>2, <2>1, <2>4, MarkSets DEF Like
  <2> HIDE DEF m
  <2>6. q \in Parser
    BY <2>3, <2>5, Values, Put, Zenon DEF Like
  <2>7. /\ q.state = "s_header_field" /\ q.marks = {"header_field"} /\ q.index = 0
        /\ q.header_state = h /\ q.flags = p.flags /\ q.content_length = p.content_length
        /\ q.calls = p.calls
    BY <2>4, <2>5, <2>6 DEF Like, Parser
  <2> HIDE DEF q
  <2>8. q.marks \subseteq MarkOf(q.state) /\ Looped(q)
    BY <2>7, LoopMarks DEF Looped, Loops
  <2>9. Indexed(q)
    BY <2>3, <2>7, Lengths DEF Indexed
  <2>10. Matching(q) /\ Silent(q)
    BY <2>3, <2>7, <2>9 DEF Matching, Silent
  <2>11. QED
    BY <1>1, <2>1, <2>6, <2>7, <2>8, <2>10, InHead
<1>8. HeaderFieldStart(p, ch) \in {HeadersAlmostDone(r, ch), r, q, Fail(p, "INVALID_HEADER_TOKEN")}
  BY DEF HeaderFieldStart
<1>9. QED
  BY <1>3, <1>5, <1>6, <1>7, <1>8

(* Bytes are counted up to MaxCount, or to the error. *)
LEMMA Counts ==
    ASSUME NEW p \in Parser, NEW n \in 0 .. MaxCount
    PROVE  Like(p, COUNT_HEADER_SIZE(p, n), {"nread", "http_errno"})
<1> DEFINE q == [p EXCEPT !.nread = Capped(p.nread + n)]
           c == COUNT_HEADER_SIZE(p, n)
<1>1. Capped(p.nread + n) \in 0 .. MaxCount
  BY ParserAssumption DEF Capped, Parser
<1>2. q \in Parser
  BY <1>1, Put, Zenon
<1>3. Like(p, q, {"nread"})
  BY <1>2 DEF Like, Parser
<1>4. c \in {q, Fail(q, "HEADER_OVERFLOW")}
  BY DEF COUNT_HEADER_SIZE
<1> HIDE DEF q, c
<1>5. Like(q, Fail(q, "HEADER_OVERFLOW"), {"http_errno"})
  BY <1>2, Fails DEF Errnos
<1>6. Like(p, c, {"nread", "http_errno"})
  BY <1>3, <1>4, <1>5 DEF Like
<1>7. QED
  BY <1>6 DEF c

(* An inner loop leaves nothing behind. *)
LEMMA LoopEnds ==
    ASSUME NEW p \in Parser
    PROVE  /\ Like(p, LoopEnd(p), {"nread", "http_errno", "passed", "skipping"})
           /\ LoopEnd(p).passed = 0 /\ LoopEnd(p).skipping = FALSE
<1> DEFINE c == COUNT_HEADER_SIZE(p, p.passed)
           e == LoopEnd(p)
<1>1. Like(p, c, {"nread", "http_errno"})
  BY Counts DEF Parser
<1>2. e = [c EXCEPT !.passed = 0, !.skipping = FALSE]
  BY DEF LoopEnd
<1> HIDE DEF c, e
<1>3. e \in Parser
  BY <1>1, <1>2, Values, Put, Zenon DEF Like
<1>4. Like(p, e, {"nread", "http_errno", "passed", "skipping"}) /\ e.passed = 0 /\ e.skipping = FALSE
  BY <1>1, <1>2, <1>3 DEF Like, Parser
<1>5. QED
  BY <1>4 DEF e

(* A word is matched byte by byte, and has been left before its end. *)
LEMMA Matches ==
    ASSUME NEW p \in Parser, p.header_state \in DOMAIN Word, Indexed(p), NEW c,
           NEW o \in Headers \ DOMAIN Word,
           o \notin {"h_C", "h_CO", "h_CON", "h_matching_connection_token_start"},
           Whole[p.header_state] \in Headers \ DOMAIN Word
    PROVE  LET q == Match(p, c, o)
           IN  /\ Like(p, q, {"header_state", "index"}) /\ Indexed(q)
               /\ q.header_state \in {o, Whole[p.header_state], p.header_state}
<1> DEFINE h == p.header_state
           i == p.index + 1
           k == IF c # Nth(Word[h], i) THEN o ELSE IF i = Length(Word[h]) - 1 THEN Whole[h] ELSE h
           q == Match(p, c, o)
<1>1. q = [p EXCEPT !.index = i, !.header_state = k]
  BY DEF Match, Length
<1>2. i < Length(Word[h]) /\ Length(Word[h]) \in 5 .. 17 /\ p.index \in 0 .. 17
  BY Lengths DEF Indexed, Parser
<1>3. i \in 0 .. 17 /\ k \in {o, Whole[h], h} /\ (k = h => i + 1 < Length(Word[h]))
  BY <1>2
<1>4. k \in Headers
  BY <1>3 DEF Parser
<1> HIDE DEF i, k, q
<1>5. q \in Parser
  BY <1>1, <1>3, <1>4, Put, Zenon
<1>6. Like(p, q, {"header_state", "index"}) /\ q.header_state = k /\ q.index = i
  BY <1>1, <1>5 DEF Like, Parser
<1>7. Indexed(q)
  <2>1. Whole[h] \notin {"h_C", "h_CO", "h_CON", "h_matching_connection_token_start"}
    BY DEF Whole, Word
  <2>2. h \notin {"h_C", "h_CO", "h_CON", "h_matching_connection_token_start"}
    BY DEF Word
  <2>3. k \in DOMAIN Word => k = h
    BY <1>3
  <2>4. QED
    BY <1>3, <1>6, <2>1, <2>2, <2>3 DEF Indexed
<1>8. QED
  BY <1>3, <1>6, <1>7 DEF q

(* A byte of a name: index stays inside the word that it may be. *)
LEMMA FieldBytes ==
    ASSUME NEW p \in Parser, p.header_state \in FieldHeaders, Indexed(p), NEW c
    PROVE  LET q == FieldByte(p, c)
           IN  Like(p, q, {"header_state", "index"}) /\ Indexed(q) /\ q.header_state \in FieldHeaders
<1> DEFINE h  == p.header_state
           to == {m[3] : m \in {n \in FieldMoves : n[1] = h /\ n[2] = c}}
           q  == FieldByte(p, c)
           Starts == {"h_C", "h_CO", "h_CON", "h_matching_connection_token_start"}
<1>1. FieldHeaders \subseteq Headers /\ "h_general" \in FieldHeaders /\ "h_general" \notin DOMAIN Word
  BY DEF FieldHeaders, Headers, Word
<1>2. CASE h \in FieldPrefix
  <2> DEFINE t == IF to = {} THEN "h_general" ELSE CHOOSE x \in to : TRUE
  <2>0. h \notin FieldMatching
    BY <1>2 DEF FieldPrefix, FieldMatching
  <2>1. q = [p EXCEPT !.index = @ + 1, !.header_state = t]
    BY <1>2, <2>0 DEF FieldByte
  <2>2. \/ t = "h_general"
        \/ h = "h_C" /\ t = "h_CO"
        \/ h = "h_CO" /\ t = "h_CON"
        \/ h = "h_CON" /\ t \in {"h_matching_connection", "h_matching_content_length"}
    BY DEF FieldMoves
  <2>3. t \in FieldHeaders
    BY <2>2 DEF FieldHeaders, FieldPrefix, FieldMatching
  <2>4. p.index \in 0 .. 2 /\ (h = "h_C" => p.index = 0) /\ (h = "h_CO" => p.index = 1)
        /\ (h = "h_CON" => p.index = 2)
    BY <1>2 DEF Indexed, FieldPrefix
  <2>5. p.index + 1 \in 0 .. 17
    BY <2>4
  <2> HIDE DEF t, q
  <2>6. q \in Parser
    BY <1>1, <2>1, <2>3, <2>5, Put, Zenon
  <2>7. Like(p, q, {"header_state", "index"}) /\ q.header_state = t /\ q.index = p.index + 1
    BY <2>1, <2>6 DEF Like, Parser
  <2>8. Indexed(q)
    <3>1. CASE t = "h_general"
      BY <2>7, <3>1, <1>1 DEF Indexed
    <3>2. CASE t \in {"h_CO", "h_CON"}
      <4>1. t \notin DOMAIN Word
        BY <3>2 DEF Word
      <4>2. QED
        BY <2>2, <2>4, <2>7, <3>2, <4>1 DEF Indexed
    <3>3. CASE t \in {"h_matching_connection", "h_matching_content_length"}
      <4>1. t \in DOMAIN Word
        BY <3>3 DEF Word
      <4>2. Length(Word[t]) \in 5 .. 17 /\ q.index = 3
        BY <2>2, <2>4, <2>7, <3>3, <4>1, Lengths
      <4>3. q.index + 1 < Length(Word[q.header_state])
        BY <2>7, <4>2
      <4>4. QED
        BY <2>7, <3>3, <4>3 DEF Indexed
    <3>4. QED
      BY <2>2, <3>1, <3>2, <3>3
  <2>9. QED
    BY <2>3, <2>7, <2>8 DEF q
<1>3. CASE h \in FieldMatching
  <2>1. q = Match(p, c, "h_general")
    BY <1>3 DEF FieldByte, FieldMatching, FieldPrefix
  <2>2. h \in DOMAIN Word /\ Whole[h] \in FieldWhole
    BY <1>3 DEF FieldMatching, Word, Whole, FieldWhole
  <2>3. Whole[h] \in Headers \ DOMAIN Word /\ Whole[h] \in FieldHeaders
    BY <2>2 DEF FieldHeaders, Headers, FieldWhole, Word
  <2> HIDE DEF q
  <2>4. Like(p, q, {"header_state", "index"}) /\ Indexed(q) /\ q.header_state \in {"h_general", Whole[h], h}
    BY <1>1, <2>1, <2>2, <2>3, Matches
  <2>5. QED
    BY <1>1, <2>3, <2>4 DEF q
<1>4. CASE h \notin FieldPrefix \cup FieldMatching
  <2>1. q = [p EXCEPT !.header_state = "h_general"]
    BY <1>4 DEF FieldByte
  <2> HIDE DEF q
  <2>2. q \in Parser
    BY <1>1, <2>1, Put
  <2>3. Like(p, q, {"header_state", "index"}) /\ q.header_state = "h_general"
    BY <2>1, <2>2 DEF Like, Parser
  <2>4. QED
    BY <1>1, <2>3 DEF Indexed, q
<1>5. QED
  BY <1>2, <1>3, <1>4

(* A name goes on or ends, whatever its bytes count. *)
LEMMA HeaderFieldStep ==
    ASSUME NEW p, Sound(p), ~Failed(p), p.state = "s_header_field", Silent(p), NEW ch
    PROVE  Step(p, HeaderField(p, ch))
<1> DEFINE f == FieldByte(p, Lowered(ch))
           v == [f EXCEPT !.passed = Capped(@ + 1)]
           q == LoopEnd(p)
           g == Go(q, "s_header_value_discard_ws")
           e == CALLBACK_DATA(g, "header_field")
           x == Fail(q, "INVALID_HEADER_TOKEN")
<1>1. /\ p \in Parser /\ p.state \in Heads /\ p.header_state \in FieldHeaders /\ Indexed(p)
      /\ p.http_errno = "OK" /\ p.marks \subseteq {"header_field"}
      /\ "CONTENTLENGTH" \in p.flags => p.content_length < ULLONG_MAX
  BY LoopMarks DEF Sound, Heads, Loops, Matching, Sized, Failed
<1>2. {"s_header_field", "s_header_value_discard_ws"} \subseteq Heads \cap States
      /\ Heads \subseteq Lasting \ ChunkStates /\ "header_field" \in Data
  BY Disjoint DEF States, Lasting, Heads, Data
<1>3. Like(p, q, {"nread", "http_errno", "passed", "skipping"}) /\ q.passed = 0 /\ q.skipping = FALSE
  BY <1>1, LoopEnds
<1>4. Step(p, v)
  <2>1. Like(p, f, {"header_state", "index"}) /\ Indexed(f) /\ f.header_state \in FieldHeaders
    BY <1>1, FieldBytes
  <2> HIDE DEF f
  <2>2. Capped(f.passed + 1) \in 0 .. MaxCount
    BY <2>1, ParserAssumption DEF Capped, Like, Parser
  <2>3. v = [f EXCEPT !.passed = Capped(f.passed + 1)]
    OBVIOUS
  <2> HIDE DEF v
  <2>4. v \in Parser
    BY <2>1, <2>2, <2>3, Put, Zenon DEF Like
  <2>5. Like(f, v, {"passed"})
    BY <2>1, <2>3, <2>4 DEF Like, Parser
  <2>6. /\ v.state = "s_header_field" /\ v.marks = p.marks /\ v.flags = p.flags
        /\ v.content_length = p.content_length /\ v.calls = p.calls
        /\ v.header_state = f.header_state /\ v.index = f.index
    BY <2>1, <2>5 DEF Like
  <2>7. v.marks \subseteq MarkOf(v.state) /\ Looped(v)
    BY <1>1, <2>6, LoopMarks DEF Looped, Loops
  <2>8. Matching(v) /\ Silent(v)
    BY <2>1, <2>6 DEF Matching, Indexed, Silent
  <2>9. QED
    BY <1>1, <1>2, <2>4, <2>6, <2>7, <2>8, InHead DEF v
<1>5. ASSUME Failed(q)
      PROVE  Step(p, q)
  BY <1>1, <1>2, <1>3, <1>5, FailedStep DEF Like
<1>6. Step(p, x)
  <2> HIDE DEF q
  <2>1. Like(q, x, {"http_errno"}) /\ x.http_errno # "OK"
    BY <1>3, Fails DEF Errnos, Like
  <2> HIDE DEF x
  <2>2. QED
    BY <1>1, <1>2, <1>3, <2>1, FailedStep DEF Like, Failed, x, q
<1>7. ASSUME ~Failed(q)
      PROVE  Step(p, e)
  <2> HIDE DEF q
  <2>1. Like(q, g, {"state"}) /\ g.state = "s_header_value_discard_ws"
    BY <1>2, <1>3, Goes DEF Like
  <2> HIDE DEF g
  <2>2. Like(g, e, {"marks"}) /\ e.marks = g.marks \ {"header_field"}
    BY <1>2, <2>1, DataGiven DEF Like
  <2> HIDE DEF e
  <2>3. /\ e \in Parser /\ e.state = "s_header_value_discard_ws" /\ e.marks = {} /\ e.flags = p.flags
        /\ e.content_length = p.content_length /\ e.calls = p.calls /\ e.passed = 0
        /\ e.skipping = FALSE
    BY <1>1, <1>3, <2>1, <2>2 DEF Like
  <2>4. e.marks \subseteq MarkOf(e.state) /\ Looped(e) /\ Matching(e) /\ Silent(e)
    BY <2>3 DEF Looped, Matching, Loops, Silent
  <2>5. Step(p, e)
    BY <1>1, <1>2, <2>3, <2>4, InHead
  <2>6. QED
    BY <2>5 DEF e, g, q
<1>8. \/ HeaderField(p, ch) = v
      \/ HeaderField(p, ch) = q /\ Failed(q)
      \/ HeaderField(p, ch) = e /\ ~Failed(q)
      \/ HeaderField(p, ch) = x
  BY DEF HeaderField
<1> HIDE DEF v, q, e, x
<1>9. QED
  BY <1>4, <1>5, <1>6, <1>7, <1>8

-----------------------------------------------------------------------------
(* Header values. *)

(* Another header_state. *)
LEMMA HeaderSets ==
    ASSUME NEW p \in Parser, NEW h \in Headers
    PROVE  LET q == [p EXCEPT !.header_state = h]
           IN  Like(p, q, {"header_state"}) /\ q.header_state = h
<1>1. [p EXCEPT !.header_state = h] \in Parser
  BY Put
<1>2. QED
  BY <1>1 DEF Like, Parser

(* A word of a value is matched from its first byte. *)
LEMMA ValueIndex ==
    ASSUME NEW p, p.index = 0, p.header_state \in ValueHeaders
    PROVE  Indexed(p)
<1>1. p.header_state \notin {"h_CO", "h_CON"}
  BY DEF ValueHeaders, ListMatching, ListWhole, ListToken
<1>2. p.header_state \in DOMAIN Word => p.index + 1 < Length(Word[p.header_state])
  BY Lengths
<1>3. QED
  BY <1>1, <1>2 DEF Indexed

LEMMA ValuesAreHeaders == ValueHeaders \subseteq Headers
BY DEF Headers

(* The flag of a word is neither that of a length nor that of a trailer. *)
LEMMA FlaggedSets ==
    ASSUME NEW p \in Parser
    PROVE  /\ Like(p, Flagged(p), {"flags"})
           /\ "TRAILING" \in Flagged(p).flags <=> "TRAILING" \in p.flags
           /\ "CONTENTLENGTH" \in Flagged(p).flags <=> "CONTENTLENGTH" \in p.flags
<1>1. CASE p.header_state \in DOMAIN FlagOf
  <2> DEFINE f == FlagOf[p.header_state]
             q == Flag(p, f)
  <2>1. f \in {"CONNECTION_KEEP_ALIVE", "CONNECTION_CLOSE", "CONNECTION_UPGRADE", "CHUNKED"}
    BY <1>1 DEF FlagOf
  <2>2. Flagged(p) = q
    BY <1>1 DEF Flagged
  <2>3. f \in Flags /\ f # "TRAILING" /\ f # "CONTENTLENGTH"
    BY <2>1 DEF Flags
  <2> HIDE DEF f
  <2>4. Like(p, q, {"flags"}) /\ q.flags = p.flags \cup {f}
    BY <2>3, FlagSets
  <2> HIDE DEF q
  <2>5. QED
    BY <2>2, <2>3, <2>4
<1>2. CASE p.header_state \notin DOMAIN FlagOf
  BY <1>2 DEF Flagged, Like
<1>3. QED
  BY <1>1, <1>2

(* A length that has grown is still below the one that is not known. *)
LEMMA Grows ==
    ASSUME NEW p \in Parser, NEW base \in {10, 16}, NEW d \in 0 .. base - 1
    PROVE  LET q == Grown(p, base, d)
           IN  /\ Like(p, q, {"content_length", "http_errno"})
               /\ ~Failed(q) => q.content_length < ULLONG_MAX
<1> DEFINE n == p.content_length
           q == Grown(p, base, d)
<1>1. n \in Nat
  BY ParserAssumption DEF Parser
<1>2. CASE TooLong(n, base)
  <2>1. q = Fail(p, "INVALID_CONTENT_LENGTH")
    BY <1>2 DEF Grown
  <2> HIDE DEF q
  <2>2. Like(p, q, {"http_errno"}) /\ q.http_errno = "INVALID_CONTENT_LENGTH"
    BY <2>1, Fails DEF Errnos
  <2>3. QED
    BY <2>2 DEF Like, Failed, q
<1>3. CASE ~TooLong(n, base)
  <2> DEFINE m == Longer(n, base, d)
  <2>1. m = n * base + d /\ m < ULLONG_MAX
    BY <1>1, <1>3, LongerFits
  <2>2. n * base + d \in Nat
    <3>1. CASE base = 10
      BY <1>1, <3>1
    <3>2. CASE base = 16
      BY <1>1, <3>2
    <3>3. QED
      BY <3>1, <3>2
  <2>3. m \in 0 .. ULLONG_MAX
    BY <2>1, <2>2, ParserAssumption
  <2>4. q = [p EXCEPT !.content_length = m]
    BY <1>3 DEF Grown
  <2> HIDE DEF m, q
  <2>5. q \in Parser
    BY <2>3, <2>4, Put
  <2>6. Like(p, q, {"content_length", "http_errno"}) /\ q.content_length = m
    BY <2>4, <2>5 DEF Like, Parser
  <2>7. QED
    BY <2>1, <2>6 DEF q
<1>4. QED
  BY <1>2, <1>3

(* A value begins, or a line that continues it. *)
LEMMA HeaderValueStartStep ==
    ASSUME NEW p, Sound(p), ~Failed(p), Silent(p), NEW ch,
           p.state \in {"s_header_value_discard_ws", "s_header_value_lws"}
    PROVE  Step(p, HeaderValueStart(p, ch))
<1> DEFINE g == Go(p, "s_header_value")
           m == MARK(g, "header_value")
           q == [m EXCEPT !.index = 0]
           In(h) == [q EXCEPT !.header_state = h]
           l == FirstOfLength(q, ch)
           u == Flag(In("h_general"), "UPGRADE")
<1>1. /\ p \in Parser /\ p.state \in Heads /\ p.passed = 0 /\ p.skipping = FALSE
      /\ "CONTENTLENGTH" \in p.flags => p.content_length < ULLONG_MAX
  BY DEF Sound, Heads, Loops, Looped, Sized
<1>2. p.marks = {} /\ p.http_errno = "OK"
  BY DEF Sound, MarkOf, Remarked, Bodies, UrlStates, UrlEnds, Failed
<1>3. "s_header_value" \in States /\ "s_header_value" \in Heads /\ "header_value" \in Data
  BY DEF States, Lasting, Heads, Data
<1>4. Like(p, g, {"state"}) /\ g.state = "s_header_value"
  BY <1>1, <1>3, Goes
<1> HIDE DEF g
<1>5. Like(g, m, {"marks"}) /\ m.marks = {"header_value"}
  BY <1>2, <1>3, <1>4, MarkSets DEF Like
<1> HIDE DEF m
<1>6. q \in Parser
  BY <1>5, Values, Put, Zenon DEF Like
<1>7. /\ q.state = "s_header_value" /\ q.marks = {"header_value"} /\ q.index = 0
      /\ q.header_state = p.header_state /\ q.flags = p.flags /\ q.calls = p.calls
      /\ q.content_length = p.content_length
  BY <1>4, <1>5, <1>6 DEF Like, Parser
<1> HIDE DEF q
<1>8. ASSUME NEW v, Like(q, v, {"header_state", "flags", "content_length", "http_errno"}),
             ~Failed(v) => /\ v.header_state \in ValueHeaders
                           /\ "TRAILING" \in v.flags <=> "TRAILING" \in p.flags
                           /\ "CONTENTLENGTH" \in v.flags => v.content_length < ULLONG_MAX
      PROVE  Step(p, v)
  <2>1. /\ v \in Parser /\ v.state = "s_header_value" /\ v.marks = {"header_value"}
        /\ v.index = 0 /\ v.calls = p.calls
    BY <1>7, <1>8 DEF Like
  <2>2. v.marks \subseteq MarkOf(v.state) /\ Looped(v) /\ Silent(v)
    BY <2>1, LoopMarks DEF Looped, Loops, Silent
  <2>3. ~Failed(v) => Matching(v)
    BY <1>8, <2>1, ValueIndex DEF Matching
  <2>4. QED
    BY <1>1, <1>3, <1>8, <2>1, <2>2, <2>3, InHead
<1>9. ASSUME NEW h \in ValueHeaders
      PROVE  Step(p, In(h))
  <2> DEFINE v == In(h)
  <2>1. Like(q, v, {"header_state"}) /\ v.header_state = h
    BY <1>6, HeaderSets, ValuesAreHeaders
  <2> HIDE DEF v
  <2>2. Like(q, v, {"header_state", "flags", "content_length", "http_errno"})
        /\ v.flags = p.flags /\ v.content_length = p.content_length
    BY <1>7, <2>1 DEF Like
  <2>3. QED
    BY <1>1, <1>8, <2>1, <2>2 DEF v
<1>10. "h_general" \in ValueHeaders
  BY DEF ValueHeaders
<1>11. Step(p, u)
  <2> DEFINE v == In("h_general")
  <2>1. Like(q, v, {"header_state"}) /\ v.header_state = "h_general"
    BY <1>6, <1>10, HeaderSets, ValuesAreHeaders
  <2> HIDE DEF v
  <2>2. u = Flag(v, "UPGRADE")
    BY DEF v
  <2> HIDE DEF u
  <2>3. Like(v, u, {"flags"}) /\ u.flags = v.flags \cup {"UPGRADE"}
    BY <2>1, <2>2, FlagSets DEF Like, Flags
  <2>4. Like(q, u, {"header_state", "flags", "content_length", "http_errno"})
        /\ u.header_state = "h_general" /\ u.flags = p.flags \cup {"UPGRADE"}
        /\ u.content_length = p.content_length
    BY <1>7, <2>1, <2>3 DEF Like
  <2>5. QED
    BY <1>1, <1>8, <1>10, <2>4
<1>12. ASSUME q.header_state = "h_content_length"
       PROVE  Step(p, l)
  <2> DEFINE f == Flag(q, "CONTENTLENGTH")
             v == [f EXCEPT !.content_length = Digit[ch]]
  <2>1. l \in {Fail(q, "INVALID_CONTENT_LENGTH"), Fail(q, "UNEXPECTED_CONTENT_LENGTH")}
        \/ (l = v /\ ch \in NUM)
    BY DEF FirstOfLength
  <2>2. ASSUME NEW e \in Errnos \ {"OK"}
        PROVE  Step(p, Fail(q, e))
    <3> DEFINE x == Fail(q, e)
    <3>1. Like(q, x, {"http_errno"}) /\ x.http_errno = e
      BY <1>6, Fails
    <3> HIDE DEF x
    <3>2. Like(q, x, {"header_state", "flags", "content_length", "http_errno"}) /\ Failed(x)
      BY <3>1 DEF Like, Failed
    <3>3. QED
      BY <1>8, <3>2 DEF x
  <2>3. ASSUME ch \in NUM
        PROVE  Step(p, v)
    <3>1. Like(q, f, {"flags"}) /\ f.flags = q.flags \cup {"CONTENTLENGTH"}
      BY <1>6, FlagSets DEF Flags
    <3> HIDE DEF f
    <3>2. Digit[ch] \in 0 .. 9
      BY <2>3, Digits
    <3>3. Digit[ch] \in 0 .. ULLONG_MAX /\ Digit[ch] < ULLONG_MAX
      BY <3>2, ParserAssumption
    <3>4. v \in Parser
      BY <3>1, <3>3, Put, Zenon DEF Like
    <3>5. Like(f, v, {"content_length"}) /\ v.content_length = Digit[ch]
      BY <3>1, <3>4 DEF Like, Parser
    <3> HIDE DEF v
    <3>6. Like(q, v, {"header_state", "flags", "content_length", "http_errno"})
          /\ v.header_state = "h_content_length" /\ v.flags = p.flags \cup {"CONTENTLENGTH"}
      BY <1>7, <1>12, <3>1, <3>5 DEF Like
    <3>7. v.header_state \in ValueHeaders
      BY <3>6 DEF ValueHeaders
    <3>8. QED
      BY <1>8, <3>3, <3>5, <3>6, <3>7
  <2> HIDE DEF v
  <2>4. QED
    BY <2>1, <2>2, <2>3 DEF Errnos
<1>13. \/ HeaderValueStart(p, ch) = u
       \/ HeaderValueStart(p, ch) = l /\ q.header_state = "h_content_length"
       \/ \E h \in {"h_matching_transfer_encoding_chunked", "h_general",
                    "h_matching_connection_keep_alive", "h_matching_connection_close",
                    "h_matching_connection_upgrade", "h_matching_connection_token"} :
             HeaderValueStart(p, ch) = In(h)
       \/ HeaderValueStart(p, ch) = q /\ q.header_state = "h_matching_connection_token_start"
  BY DEF HeaderValueStart, q, m, g
<1>14. ASSUME q.header_state = "h_matching_connection_token_start"
       PROVE  Step(p, q)
  <2>1. Like(q, q, {"header_state", "flags", "content_length", "http_errno"})
    BY <1>6 DEF Like
  <2>2. q.header_state \in ValueHeaders
    BY <1>14 DEF ValueHeaders, ListToken
  <2>3. QED
    BY <1>1, <1>7, <1>8, <2>1, <2>2
<1>15. {"h_matching_transfer_encoding_chunked", "h_general",
        "h_matching_connection_keep_alive", "h_matching_connection_close",
        "h_matching_connection_upgrade", "h_matching_connection_token"} \subseteq ValueHeaders
  BY DEF ValueHeaders, ListMatching, ListToken
<1> HIDE DEF u, l
<1>16. QED
  BY <1>9, <1>11, <1>12, <1>13, <1>14, <1>15

(* What a byte of a value may do. *)
Valued(p, v) ==
    /\ Like(p, v, {"header_state", "index", "flags", "content_length", "http_errno", "skipping"})
    /\ ~Failed(v) => /\ v.header_state \in ValueHeaders /\ Indexed(v)
                     /\ "TRAILING" \in v.flags <=> "TRAILING" \in p.flags
                     /\ "CONTENTLENGTH" \in v.flags => v.content_length < ULLONG_MAX

(* All that a value's byte needs of the parser. *)
Valuing(p) ==
    /\ p \in Parser /\ p.header_state \in ValueHeaders /\ Indexed(p)
    /\ "CONTENTLENGTH" \in p.flags => p.content_length < ULLONG_MAX

(* The cases of a byte of a value. *)
LEMMA ValuedSame ==
    ASSUME NEW p, Valuing(p)
    PROVE  Valued(p, p)
BY DEF Valued, Valuing, Like

LEMMA ValuedState ==
    ASSUME NEW p, Valuing(p),
           NEW h \in {"h_general", "h_matching_connection_token"}
    PROVE  Valued(p, [p EXCEPT !.header_state = h])
<1> DEFINE q == [p EXCEPT !.header_state = h]
<1>1. h \in ValueHeaders /\ h \in Headers /\ h \notin DOMAIN Word
  BY DEF ValueHeaders, Headers, ListToken, Word
<1>2. Like(p, q, {"header_state"}) /\ q.header_state = h
  BY <1>1, HeaderSets DEF Valuing
<1> HIDE DEF q
<1>3. Indexed(q)
  BY <1>1, <1>2 DEF Indexed
<1>4. Valued(p, q)
  BY <1>1, <1>2, <1>3 DEF Valued, Valuing, Like
<1>5. QED
  BY <1>4 DEF q

LEMMA ValuedMatch ==
    ASSUME NEW p, Valuing(p), NEW c,
           NEW o \in {"h_general", "h_matching_connection_token"},
           p.header_state \in ListMatching \cup {"h_matching_transfer_encoding_chunked"}
    PROVE  Valued(p, Match(p, c, o))
<1> DEFINE q == Match(p, c, o)
           h == p.header_state
<1>1. o \in ValueHeaders /\ o \in Headers \ DOMAIN Word
  BY DEF ValueHeaders, Headers, ListToken, Word
<1>2. h \in DOMAIN Word /\ Whole[h] \in ListWhole \cup {"h_transfer_encoding_chunked"}
  BY DEF ListMatching, Word, Whole, ListWhole
<1>3. Whole[h] \in ValueHeaders /\ Whole[h] \in Headers \ DOMAIN Word
  BY <1>2 DEF ValueHeaders, Headers, ListWhole, Word
<1> HIDE DEF q
<1>4. /\ Like(p, q, {"header_state", "index"}) /\ Indexed(q)
      /\ q.header_state \in {o, Whole[h], h}
  BY <1>1, <1>2, <1>3, Matches DEF Valuing, q
<1>5. Valued(p, q)
  BY <1>1, <1>3, <1>4 DEF Valued, Valuing, Like
<1>6. QED
  BY <1>5 DEF q

LEMMA ValuedLength ==
    ASSUME NEW p, Valuing(p), p.header_state = "h_content_length", NEW ch
    PROVE  /\ ch \in NUM => Valued(p, Grown(p, 10, Digit[ch]))
           /\ Valued(p, Fail(p, "INVALID_CONTENT_LENGTH"))
<1>1. ASSUME ch \in NUM
      PROVE  Valued(p, Grown(p, 10, Digit[ch]))
  <2> DEFINE q == Grown(p, 10, Digit[ch])
  <2>1. Digit[ch] \in 0 .. 10 - 1
    BY <1>1, Digits
  <2>2. Like(p, q, {"content_length", "http_errno"}) /\ (~Failed(q) => q.content_length < ULLONG_MAX)
    BY <2>1, Grows DEF Valuing
  <2> HIDE DEF q
  <2>3. Indexed(q) /\ q.header_state = p.header_state
    BY <2>2 DEF Indexed, Valuing, Like
  <2>4. Valued(p, q)
    BY <2>2, <2>3 DEF Valued, Valuing, Like
  <2>5. QED
    BY <2>4 DEF q
<1>2. Like(p, Fail(p, "INVALID_CONTENT_LENGTH"), {"http_errno"})
      /\ Failed(Fail(p, "INVALID_CONTENT_LENGTH"))
  BY Fails DEF Valuing, Errnos, Failed
<1>3. Valued(p, Fail(p, "INVALID_CONTENT_LENGTH"))
  BY <1>2 DEF Valued, Like
<1>4. QED
  BY <1>1, <1>3

LEMMA ValuedList ==
    ASSUME NEW p, Valuing(p), NEW c
    PROVE  /\ p.header_state = "h_matching_connection_token_start" => Valued(p, ListStart(p, c))
           /\ Valued(p, ListRest(p, c))
<1>1. ASSUME p.header_state = "h_matching_connection_token_start"
      PROVE  Valued(p, ListStart(p, c))
  <2> DEFINE q == ListStart(p, c)
  <2>1. PICK h \in ListMatching \cup ListToken \cup {"h_general"} : q = [p EXCEPT !.header_state = h]
    BY <1>1 DEF ListStart, ListMatching, ListToken
  <2>2. h \in ValueHeaders /\ h \in Headers
    BY DEF ValueHeaders, Headers
  <2>3. Like(p, q, {"header_state"}) /\ q.header_state = h
    BY <2>1, <2>2, HeaderSets DEF Valuing
  <2> HIDE DEF q
  <2>4. Indexed(q)
    BY <1>1, <2>2, <2>3, ValueIndex DEF Valuing, Indexed, Like
  <2>5. Valued(p, q)
    BY <2>2, <2>3, <2>4 DEF Valued, Valuing, Like
  <2>6. QED
    BY <2>5 DEF q
<1>2. Valued(p, ListRest(p, c))
  <2> DEFINE f == Flagged(p)
             q == [f EXCEPT !.header_state = "h_matching_connection_token_start", !.index = 0]
  <2>1. ListRest(p, c) \in {q, [p EXCEPT !.header_state = "h_matching_connection_token"], p}
    BY DEF ListRest
  <2>2. /\ Like(p, f, {"flags"})
        /\ "TRAILING" \in f.flags <=> "TRAILING" \in p.flags
        /\ "CONTENTLENGTH" \in f.flags <=> "CONTENTLENGTH" \in p.flags
    BY FlaggedSets DEF Valuing
  <2> HIDE DEF f
  <2>3. "h_matching_connection_token_start" \in ValueHeaders
        /\ "h_matching_connection_token_start" \in Headers
    BY DEF ValueHeaders, Headers, ListToken
  <2>4. q \in Parser
    BY <2>2, <2>3, Values, Put, Zenon DEF Like
  <2>5. Like(f, q, {"header_state", "index"}) /\ q.index = 0
        /\ q.header_state = "h_matching_connection_token_start"
    BY <2>2, <2>4 DEF Like, Parser
  <2> HIDE DEF q
  <2>6. Indexed(q)
    BY <2>3, <2>5, ValueIndex
  <2>7. Valued(p, q)
    BY <2>2, <2>3, <2>5, <2>6 DEF Valued, Valuing, Like
  <2>8. QED
    BY <2>1, <2>7, ValuedState, ValuedSame
<1>3. QED
  BY <1>1, <1>2

LEMMA ValuedByte ==
    ASSUME NEW p, Valuing(p), NEW ch
    PROVE  Valued(p, ValueByte(p, ch))
<1> DEFINE c == LOWER(ch)
           skip == [p EXCEPT !.header_state = "h_general", !.skipping = TRUE]
<1>1. Valued(p, skip)
  <2>1. "h_general" \in Headers /\ "h_general" \in ValueHeaders /\ "h_general" \notin DOMAIN Word
    BY DEF ValueHeaders, Headers, Word
  <2>2. skip \in Parser
    BY <2>1, Values, Put, Zenon DEF Valuing
  <2>3. Like(p, skip, {"header_state", "skipping"}) /\ skip.header_state = "h_general"
    BY <2>2 DEF Like, Parser, Valuing
  <2> HIDE DEF skip
  <2>4. Indexed(skip)
    BY <2>1, <2>3 DEF Indexed
  <2>5. QED
    BY <2>1, <2>3, <2>4 DEF Valued, Valuing, Like
<1>2. \/ ValueByte(p, ch) = p
      \/ ValueByte(p, ch) = [p EXCEPT !.header_state = "h_general"]
      \/ ValueByte(p, ch) = skip
      \/ ValueByte(p, ch) = ListRest(p, ch)
      \/ /\ p.header_state = "h_content_length"
         /\ \/ ValueByte(p, ch) = Grown(p, 10, Digit[ch]) /\ ch \in NUM
            \/ ValueByte(p, ch) = Fail(p, "INVALID_CONTENT_LENGTH")
      \/ /\ p.header_state \in ListMatching \cup {"h_matching_transfer_encoding_chunked"}
         /\ \/ ValueByte(p, ch) = Match(p, c, "h_general")
            \/ ValueByte(p, ch) = Match(p, c, "h_matching_connection_token")
      \/ /\ p.header_state = "h_matching_connection_token_start"
         /\ ValueByte(p, ch) = ListStart(p, c)
  BY DEF ValueByte
<1> HIDE DEF skip, c
<1>3. QED
  BY <1>1, <1>2, ValuedSame, ValuedState, ValuedMatch, ValuedLength, ValuedList

(* A value goes on or ends. *)
LEMMA HeaderValueStep ==
    ASSUME NEW p, Sound(p), ~Failed(p), p.state = "s_header_value", Silent(p), NEW ch
    PROVE  Step(p, HeaderValue(p, ch))
<1> DEFINE b == IF p.skipping THEN p ELSE ValueByte(p, ch)
           v == [b EXCEPT !.passed = Capped(@ + 1)]
           g == CALLBACK_DATA(Go(p, "s_header_almost_done"), "header_value")
           e == LoopEnd(g)
           q == LoopEnd(p)
           w == CALLBACK_DATA(Go(q, "s_header_value_lws"), "header_value")
<1>1. /\ p \in Parser /\ p.state \in Heads /\ Valuing(p)
      /\ p.http_errno = "OK" /\ p.marks \subseteq {"header_value"}
      /\ "CONTENTLENGTH" \in p.flags => p.content_length < ULLONG_MAX
  BY LoopMarks DEF Sound, Heads, Loops, Matching, Sized, Failed, Valuing
<1>2. {"s_header_value", "s_header_almost_done", "s_header_value_lws"} \subseteq Heads \cap States
      /\ Heads \subseteq Lasting \ ChunkStates /\ "header_value" \in Data
  BY Disjoint DEF States, Lasting, Heads, Data
<1>3. ASSUME NEW r, Like(p, r, {"state", "marks", "nread", "http_errno", "passed", "skipping"}),
             r.marks = {}, r.passed = 0, r.skipping = FALSE,
             r.state \in {"s_header_almost_done", "s_header_value_lws"}
      PROVE  Step(p, r)
  <2>1. Looped(r) /\ Matching(r) /\ Silent(r) /\ r.marks \subseteq MarkOf(r.state)
    BY <1>3 DEF Like, Looped, Matching, Loops, Silent
  <2>2. QED
    BY <1>1, <1>2, <1>3, <2>1, InHead DEF Like
<1>4. Step(p, v)
  <2>1. Valued(p, b)
    BY <1>1, ValuedSame, ValuedByte
  <2> HIDE DEF b
  <2>2. Capped(b.passed + 1) \in 0 .. MaxCount /\ b \in Parser
    BY <2>1, ParserAssumption DEF Capped, Valued, Like, Parser
  <2>3. v = [b EXCEPT !.passed = Capped(b.passed + 1)]
    OBVIOUS
  <2> HIDE DEF v
  <2>4. v \in Parser
    BY <2>2, <2>3, Put, Zenon
  <2>5. Like(b, v, {"passed"})
    BY <2>2, <2>3, <2>4 DEF Like, Parser
  <2>6. v.state = "s_header_value" /\ v.marks = p.marks /\ v.calls = p.calls /\ (Failed(v) <=> Failed(b))
    BY <2>1, <2>5 DEF Like, Valued, Failed
  <2>7. v.marks \subseteq MarkOf(v.state) /\ Looped(v) /\ Silent(v)
    BY <1>1, <2>6, LoopMarks DEF Looped, Loops, Silent
  <2>8. ~Failed(v) => /\ v.header_state \in ValueHeaders /\ Indexed(v)
                      /\ "TRAILING" \in v.flags <=> "TRAILING" \in p.flags
                      /\ "CONTENTLENGTH" \in v.flags => v.content_length < ULLONG_MAX
    BY <2>1, <2>5, <2>6 DEF Valued, Like, Indexed
  <2>9. ~Failed(v) => Matching(v)
    BY <2>6, <2>8 DEF Matching
  <2>10. QED
    BY <1>1, <1>2, <2>4, <2>6, <2>7, <2>8, <2>9, InHead DEF v
<1>5. Step(p, e)
  <2> DEFINE a == Go(p, "s_header_almost_done")
  <2>1. Like(p, a, {"state"}) /\ a.state = "s_header_almost_done"
    BY <1>1, <1>2, Goes
  <2> HIDE DEF a
  <2>2. g = CALLBACK_DATA(a, "header_value")
    BY DEF a
  <2> HIDE DEF g
  <2>3. Like(a, g, {"marks"}) /\ g.marks = a.marks \ {"header_value"}
    BY <1>2, <2>1, <2>2, DataGiven DEF Like
  <2>4. Like(g, e, {"nread", "http_errno", "passed", "skipping"}) /\ e.passed = 0 /\ e.skipping = FALSE
    BY <2>3, LoopEnds DEF Like
  <2> HIDE DEF e
  <2>5. Like(p, e, {"state", "marks", "nread", "http_errno", "passed", "skipping"})
        /\ e.marks = {} /\ e.state = "s_header_almost_done"
    BY <1>1, <2>1, <2>3, <2>4 DEF Like
  <2>6. QED
    BY <1>3, <2>4, <2>5
<1>6. Like(p, q, {"nread", "http_errno", "passed", "skipping"}) /\ q.passed = 0 /\ q.skipping = FALSE
  BY <1>1, LoopEnds
<1>7. ASSUME Failed(q)
      PROVE  Step(p, q)
  BY <1>1, <1>2, <1>6, <1>7, FailedStep DEF Like
<1>8. Step(p, w)
  <2> DEFINE a == Go(q, "s_header_value_lws")
  <2> HIDE DEF q
  <2>1. Like(q, a, {"state"}) /\ a.state = "s_header_value_lws"
    BY <1>2, <1>6, Goes DEF Like
  <2> HIDE DEF a
  <2>2. w = CALLBACK_DATA(a, "header_value")
    BY DEF a
  <2> HIDE DEF w
  <2>3. Like(a, w, {"marks"}) /\ w.marks = a.marks \ {"header_value"}
    BY <1>2, <2>1, <2>2, DataGiven DEF Like
  <2>4. Like(p, w, {"state", "marks", "nread", "http_errno", "passed", "skipping"})
        /\ w.marks = {} /\ w.state = "s_header_value_lws" /\ w.passed = 0 /\ w.skipping = FALSE
    BY <1>1, <1>6, <2>1, <2>3 DEF Like
  <2>5. QED
    BY <1>3, <2>4
<1>9. Step(p, Fail(p, "INVALID_HEADER_TOKEN"))
  BY FailStep DEF Errnos
<1>10. \/ HeaderValue(p, ch) \in {e, w, v, Fail(p, "INVALID_HEADER_TOKEN")}
       \/ (HeaderValue(p, ch) = q /\ Failed(q))
  BY DEF HeaderValue
<1> HIDE DEF e, w, v, q
<1>11. QED
  BY <1>4, <1>5, <1>7, <1>8, <1>9, <1>10

(* Another line: a value that goes on, or another field. *)
LEMMA FieldAfterStep ==
    ASSUME NEW p, Sound(p), ~Failed(p), p.state \in Heads \ Loops, Silent(p), p.marks = {}, NEW ch
    PROVE  /\ Step(p, HeaderFieldStart(Go(Flagged(p), "s_header_field_start"), ch))
           /\ Step(p, HeaderFieldStart(Call(Go(Flagged(p), "s_header_field_start"), "header_value"), ch))
<1> DEFINE f == Flagged(p)
           g == Go(f, "s_header_field_start")
           k == Call(g, "header_value")
<1>1. /\ p \in Parser /\ p.passed = 0 /\ p.skipping = FALSE
      /\ "CONTENTLENGTH" \in p.flags => p.content_length < ULLONG_MAX
  BY DEF Sound, Looped, Sized
<1>2. /\ Like(p, f, {"flags"})
      /\ "TRAILING" \in f.flags <=> "TRAILING" \in p.flags
      /\ "CONTENTLENGTH" \in f.flags <=> "CONTENTLENGTH" \in p.flags
  BY <1>1, FlaggedSets
<1> HIDE DEF f
<1>3. Like(f, g, {"state"}) /\ g.state = "s_header_field_start"
  BY <1>2, Goes DEF Like, States, Lasting, Heads
<1> HIDE DEF g
<1>4. Like(g, k, {"calls"}) /\ k.calls = g.calls \cup {"header_value"}
  BY <1>3, CallNotes DEF Like, Calls
<1> HIDE DEF k
<1>5. ASSUME NEW r, Like(p, r, {"state", "flags", "calls"}), r.state = "s_header_field_start",
             r.flags = f.flags, Silent(r)
      PROVE  Step(p, HeaderFieldStart(r, ch))
  <2>1. ~Failed(r) /\ r \in Parser /\ r.state \in Heads /\ r.marks \subseteq MarkOf(r.state)
    BY <1>5 DEF Failed, Like, Heads
  <2>2. Looped(r) /\ Matching(r)
    BY <1>1, <1>5 DEF Like, Looped, Matching, Loops
  <2>3. r.content_length = p.content_length
    BY <1>5 DEF Like
  <2>4. Step(p, r)
    BY <1>1, <1>2, <1>5, <2>1, <2>2, <2>3, InHead
  <2>5. Step(r, HeaderFieldStart(r, ch))
    BY <1>5, <2>1, <2>4, HeaderFieldStartStep DEF Step
  <2>6. QED
    BY <1>5, <2>1, <2>4, <2>5, StepTrans
<1>6. Like(p, g, {"state", "flags", "calls"}) /\ g.flags = f.flags /\ Silent(g)
  BY <1>2, <1>3 DEF Like, Silent
<1>7. Like(p, k, {"state", "flags", "calls"}) /\ k.flags = f.flags /\ Silent(k)
      /\ k.state = "s_header_field_start"
  BY <1>3, <1>4, <1>6 DEF Like, Silent
<1>8. QED
  BY <1>3, <1>5, <1>6, <1>7 DEF f, g, k

-----------------------------------------------------------------------------
(* Bodies. *)

(* A byte of a body of known length. *)
LEMMA BodyBytes ==
    ASSUME NEW p \in Parser, p.content_length > 0
    PROVE  LET q == BodyByte(p)
           IN  /\ Like(p, q, {"marks", "content_length"})
               /\ q.marks = p.marks \cup {"body"} /\ q.content_length = p.content_length - 1
<1> DEFINE m == MARK(p, "body")
           q == BodyByte(p)
<1>1. Like(p, m, {"marks"}) /\ m.marks = p.marks \cup {"body"}
  BY MarkSets DEF Data
<1>2. q = [m EXCEPT !.content_length = m.content_length - 1]
  BY DEF BodyByte
<1> HIDE DEF m, q
<1>3. m.content_length = p.content_length /\ m.content_length - 1 \in 0 .. ULLONG_MAX
  BY <1>1, ParserAssumption DEF Like, Parser
<1>4. q \in Parser
  BY <1>1, <1>2, <1>3, Put, Zenon DEF Like
<1>5. Like(m, q, {"content_length"}) /\ q.content_length = m.content_length - 1
  BY <1>1, <1>2, <1>4 DEF Like, Parser
<1>6. QED
  BY <1>1, <1>3, <1>5 DEF Like, q

(* A body: the byte that makes its length zero ends the message. *)
LEMMA BodyStep ==
    ASSUME NEW p, Sound(p), ~Failed(p), p.calls = {}
    PROVE  /\ p.state = "s_body_identity" => Step(p, BodyIdentity(p))
           /\ p.state = "s_body_identity_eof" => Step(p, MARK(p, "body"))
<1>1. ASSUME p.state = "s_body_identity"
      PROVE  Step(p, BodyIdentity(p))
  <2> DEFINE q == BodyByte(p)
             g == Go(q, "s_message_done")
             e == CALLBACK_DATA(g, "body")
  <2>1. /\ p \in Parser /\ p.state \in Bodies /\ p.marks \subseteq {"body"}
        /\ p.content_length \in Nat /\ p.content_length > 0 /\ p.content_length < ULLONG_MAX
        /\ p.passed = 0 /\ p.skipping = FALSE
    BY <1>1, ParserAssumption DEF Sound, Bodies, MarkOf, Sized, Parser, Looped, Loops, Known
  <2>2. /\ Like(p, q, {"marks", "content_length"})
        /\ q.marks = p.marks \cup {"body"} /\ q.content_length = p.content_length - 1
    BY <2>1, BodyBytes
  <2>3. BodyIdentity(p) = IF q.content_length > 0 THEN q ELSE MessageDone(e)
    BY DEF BodyIdentity
  <2> HIDE DEF q
  <2>4. ASSUME q.content_length > 0
        PROVE  Step(p, q)
    <3>1. q \in Parser /\ q.state = p.state /\ q.flags = p.flags /\ q.passed = p.passed
          /\ q.skipping = p.skipping /\ q.calls = p.calls /\ q.http_errno = p.http_errno
          /\ q.marks \subseteq {"body"}
      BY <2>1, <2>2 DEF Like
    <3>2. q.content_length < ULLONG_MAX
      BY <2>1, <2>2, ParserAssumption
    <3>3. Sized(q)
      BY <1>1, <2>4, <3>1, <3>2 DEF Sized
    <3>4. QED
      BY <2>1, <3>1, <3>3, InBody
  <2>5. Step(p, MessageDone(e))
    <3>1. Like(q, g, {"state"})
      BY <2>2, Goes DEF Like, States
    <3> HIDE DEF g
    <3>2. Like(g, e, {"marks"}) /\ e.marks = g.marks \ {"body"}
      BY <3>1, DataGiven DEF Like, Data
    <3> HIDE DEF e
    <3>3. e \in Parser /\ e.marks = {} /\ e.passed = 0 /\ e.skipping = FALSE
          /\ e.content_length = p.content_length - 1 /\ e.calls = {}
      BY <2>1, <2>2, <3>1, <3>2 DEF Like
    <3>4. e.content_length < ULLONG_MAX
      BY <2>1, <3>3, ParserAssumption
    <3>5. Waits(p) + One("headers_complete", e) = 1
      BY <2>1, <3>3 DEF Waits, One
    <3>6. QED
      BY <3>3, <3>4, <3>5, EndStep
  <2> HIDE DEF e
  <2>6. QED
    BY <2>3, <2>4, <2>5
<1>2. ASSUME p.state = "s_body_identity_eof"
      PROVE  Step(p, MARK(p, "body"))
  <2> DEFINE q == MARK(p, "body")
  <2>1. p \in Parser /\ p.state \in Bodies /\ p.marks \subseteq {"body"}
    BY <1>2 DEF Sound, Bodies, MarkOf
  <2>2. Like(p, q, {"marks"}) /\ q.marks = p.marks \cup {"body"}
    BY <2>1, MarkSets DEF Data
  <2> HIDE DEF q
  <2>3. q \in Parser /\ q.state = p.state /\ q.flags = p.flags /\ q.passed = p.passed
        /\ q.skipping = p.skipping /\ q.calls = p.calls /\ q.http_errno = p.http_errno
        /\ q.marks \subseteq {"body"} /\ q.content_length = p.content_length
    BY <2>1, <2>2 DEF Like
  <2>4. Sized(q)
    BY <1>2, <2>3 DEF Sound, Sized
  <2>5. Step(p, q)
    BY <2>1, <2>3, <2>4, InBody
  <2>6. QED
    BY <2>5 DEF q
<1>3. QED
  BY <1>1, <1>2

(* A hexadecimal digit is a length below the one that is not known. *)
LEMMA HexFits ==
    ASSUME NEW ch \in DOMAIN unhex
    PROVE  unhex[ch] \in 0 .. 16 - 1 /\ unhex[ch] \in 0 .. ULLONG_MAX /\ unhex[ch] < ULLONG_MAX
<1>1. unhex[ch] \in 0 .. 15
  BY Digits
<1>2. QED
  BY <1>1, ParserAssumption

(* Only data of a chunk is given to a callback. *)
LEMMA ChunkMarks ==
    /\ \A s \in ChunkStates \ {"s_chunk_data", "s_chunk_data_almost_done"} : MarkOf(s) = {}
    /\ \A s \in {"s_chunk_data", "s_chunk_data_almost_done"} : MarkOf(s) = {"body"}
BY DEF ChunkStates, MarkOf, Remarked, Bodies, UrlStates, UrlEnds

(* At the start of a size its first byte has been counted: r is p with that. *)
LEMMA ChunkSizeSteps ==
    ASSUME NEW p, Sound(p), ~Failed(p), p.calls = {}, NEW r, Like(p, r, {"nread"}), NEW ch
    PROVE  /\ p.state = "s_chunk_size_start" => Step(p, ChunkSizeStart(r, ch))
           /\ p.state = "s_chunk_size" => Step(p, ChunkSize(p, ch))
<1>1. {"s_chunk_size", "s_chunk_size_start"} \subseteq ChunkStates /\ ChunkStates \subseteq States
  BY DEF ChunkStates, States, Lasting
<1>2. p \in Parser /\ Step(p, Fail(p, "INVALID_CHUNK_SIZE"))
  BY FailStep DEF Errnos, Sound
<1>3. ASSUME p.state \in {"s_chunk_size", "s_chunk_size_start"}, NEW q,
             Like(p, q, {"state", "nread", "content_length", "http_errno"}), q.state = "s_chunk_size",
             ~Failed(q) => q.content_length < ULLONG_MAX
      PROVE  Step(p, q)
  <2>1. p.marks = {}
    BY <1>1, <1>3, ChunkMarks DEF Sound
  <2>2. q \in Parser /\ q.marks = {} /\ q.flags = p.flags /\ q.passed = p.passed
        /\ q.skipping = p.skipping /\ q.calls = p.calls
    BY <1>3, <2>1 DEF Like
  <2>3. ~Failed(q) => Sized(q)
    BY <1>3 DEF Sized
  <2>4. QED
    BY <1>1, <1>3, <2>2, <2>3, InChunks
<1>4. ASSUME p.state = "s_chunk_size_start"
      PROVE  Step(p, ChunkSizeStart(r, ch))
  <2> DEFINE g == Go(r, "s_chunk_size")
             q == [g EXCEPT !.content_length = unhex[ch]]
             x == Fail(r, "INVALID_CHUNK_SIZE")
  <2>1. ASSUME ch \in DOMAIN unhex
        PROVE  Step(p, q)
    <3>1. Like(r, g, {"state"}) /\ g.state = "s_chunk_size"
      BY <1>1, <1>2, Goes DEF Like
    <3> HIDE DEF g
    <3>2. unhex[ch] \in 0 .. ULLONG_MAX /\ unhex[ch] < ULLONG_MAX
      BY <2>1, HexFits
    <3>3. q \in Parser
      BY <3>1, <3>2, Put, Zenon DEF Like
    <3>4. Like(g, q, {"content_length"}) /\ q.content_length = unhex[ch]
      BY <3>1, <3>3 DEF Like, Parser
    <3> HIDE DEF q
    <3>5. Like(p, q, {"state", "nread", "content_length", "http_errno"}) /\ q.state = "s_chunk_size"
      BY <3>1, <3>4 DEF Like
    <3>6. QED
      BY <1>3, <1>4, <3>2, <3>4, <3>5
  <2>2. Step(p, x)
    <3>1. Like(r, x, {"http_errno"}) /\ x.http_errno # "OK"
      BY Fails DEF Errnos, Like
    <3> HIDE DEF x
    <3>2. x \in Parser /\ x.state = p.state /\ x.flags = p.flags /\ Failed(x)
      BY <3>1 DEF Like, Failed
    <3>3. QED
      BY <3>2 DEF Step, Sound, Framed
  <2>3. (ChunkSizeStart(r, ch) = q /\ ch \in DOMAIN unhex) \/ ChunkSizeStart(r, ch) = x
    BY DEF ChunkSizeStart
  <2> HIDE DEF q, x
  <2>4. QED
    BY <2>1, <2>2, <2>3
<1>5. ASSUME p.state = "s_chunk_size"
      PROVE  Step(p, ChunkSize(p, ch))
  <2> DEFINE q == Grown(p, 16, unhex[ch])
  <2>1. ASSUME ch \in DOMAIN unhex
        PROVE  Step(p, q)
    <3>1. unhex[ch] \in 0 .. 16 - 1
      BY <2>1, HexFits
    <3>2. Like(p, q, {"content_length", "http_errno"}) /\ (~Failed(q) => q.content_length < ULLONG_MAX)
      BY <1>2, <3>1, Grows
    <3> HIDE DEF q
    <3>3. Like(p, q, {"state", "nread", "content_length", "http_errno"}) /\ q.state = "s_chunk_size"
      BY <1>5, <3>2 DEF Like
    <3>4. QED
      BY <1>3, <1>5, <3>2, <3>3
  <2>2. (ChunkSize(p, ch) = q /\ ch \in DOMAIN unhex)
        \/ ChunkSize(p, ch) = Fail(p, "INVALID_CHUNK_SIZE")
    BY DEF ChunkSize
  <2> HIDE DEF q
  <2>3. QED
    BY <1>2, <2>1, <2>2
<1>6. QED
  BY <1>4, <1>5

(* A chunk of no bytes begins the trailer. *)
LEMMA ChunkSizeDoneStep ==
    ASSUME NEW p, Sound(p), ~Failed(p), p.calls = {}, NEW ch, p.state = "s_chunk_size_almost_done"
    PROVE  Step(p, ChunkSizeAlmostDone(p, ch))
<1> DEFINE a == Go(p, "s_header_field_start")
           f == Flag(a, "TRAILING")
           q == [f EXCEPT !.nread = 0]
           d == Go(p, "s_chunk_data")
           r == [d EXCEPT !.nread = 0]
<1>1. /\ p \in Parser /\ p.state \in ChunkStates /\ p.marks = {} /\ p.passed = 0
      /\ p.skipping = FALSE /\ p.content_length \in 0 .. ULLONG_MAX /\ p.content_length < ULLONG_MAX
  <2>1. p.state \in ChunkStates /\ p.state \in Known /\ p.state \notin Loops
    BY DEF ChunkStates, Known, Loops
  <2>2. QED
    BY <2>1, ChunkMarks DEF Sound, Looped, Sized, Parser
<1>2. {"s_header_field_start", "s_chunk_data"} \subseteq States
  BY DEF States, Lasting, Heads, ChunkStates
<1>3. ASSUME p.content_length = 0
      PROVE  Step(p, q)
  <2>1. Like(p, a, {"state"}) /\ a.state = "s_header_field_start"
    BY <1>1, <1>2, Goes
  <2> HIDE DEF a
  <2>2. Like(a, f, {"flags"}) /\ f.flags = a.flags \cup {"TRAILING"}
    BY <2>1, FlagSets DEF Like, Flags
  <2> HIDE DEF f
  <2>3. q \in Parser
    BY <2>2, Values, Put, Zenon DEF Like
  <2>4. Like(f, q, {"nread"})
    BY <2>2, <2>3 DEF Like, Parser
  <2> HIDE DEF q
  <2>5. /\ q.state = "s_header_field_start" /\ q.flags = p.flags \cup {"TRAILING"} /\ q.marks = {}
        /\ q.passed = 0 /\ q.skipping = FALSE /\ q.content_length = 0 /\ q.calls = {}
    BY <1>1, <1>3, <2>1, <2>2, <2>4 DEF Like
  <2>6. q.state \in Heads /\ q.state \in Lasting /\ q.state \notin Loops
    BY <2>5 DEF Heads, Lasting, Loops
  <2>7. Framed(q) /\ Looped(q) /\ Flagging(q)
    BY <2>5, <2>6, Disjoint DEF Framed, Looped, Flagging
  <2>8. Sized(q) /\ Matching(q)
    BY <2>5, <2>6, Kinds, ParserAssumption DEF Sized, Matching, Loops
  <2>9. Waits(q) = 1 /\ Waits(p) = 1 /\ One("headers_complete", q) = 0 /\ One("message_complete", q) = 0
    BY <1>1, <2>5, <2>6, Disjoint DEF Waits, One
  <2>10. QED
    BY <2>3, <2>5, <2>6, <2>7, <2>8, <2>9 DEF Step, Sound
<1>4. ASSUME p.content_length # 0
      PROVE  Step(p, r)
  <2>1. Like(p, d, {"state"}) /\ d.state = "s_chunk_data"
    BY <1>1, <1>2, Goes
  <2> HIDE DEF d
  <2>2. r \in Parser
    BY <2>1, Values, Put, Zenon DEF Like
  <2>3. Like(d, r, {"nread"})
    BY <2>1, <2>2 DEF Like, Parser
  <2> HIDE DEF r
  <2>4. /\ r.state = "s_chunk_data" /\ r.flags = p.flags /\ r.marks = {} /\ r.passed = p.passed
        /\ r.skipping = p.skipping /\ r.content_length = p.content_length /\ r.calls = p.calls
    BY <1>1, <2>1, <2>3 DEF Like
  <2>5. r.content_length > 0 /\ r.content_length < ULLONG_MAX
    BY <1>1, <1>4, <2>4, ParserAssumption
  <2>6. Sized(r) /\ r.state \in ChunkStates
    BY <2>4, <2>5 DEF Sized, ChunkStates
  <2>7. QED
    BY <1>1, <2>2, <2>4, <2>6, InChunks
<1>5. \/ ChunkSizeAlmostDone(p, ch) = Fail(p, "STRICT")
      \/ ChunkSizeAlmostDone(p, ch) = q /\ p.content_length = 0
      \/ ChunkSizeAlmostDone(p, ch) = r /\ p.content_length # 0
  BY DEF ChunkSizeAlmostDone
<1> HIDE DEF q, r
<1>6. QED
  BY <1>3, <1>4, <1>5, FailStep DEF Errnos

(* The data of a chunk, which ends with its length at zero. *)
LEMMA ChunkDataStep ==
    ASSUME NEW p, Sound(p), ~Failed(p), p.calls = {}, p.state = "s_chunk_data"
    PROVE  Step(p, ChunkData(p))
<1> DEFINE q == BodyByte(p)
           g == Go(q, "s_chunk_data_almost_done")
<1>1. /\ p \in Parser /\ p.state \in ChunkStates /\ p.marks \subseteq {"body"}
      /\ p.content_length \in Nat /\ p.content_length > 0 /\ p.content_length < ULLONG_MAX
  <2>1. p.state \in ChunkStates /\ p.state \in Known /\ MarkOf(p.state) = {"body"}
    BY ChunkMarks DEF ChunkStates, Known
  <2>2. QED
    BY <2>1, ParserAssumption DEF Sound, Sized, Parser
<1>2. /\ Like(p, q, {"marks", "content_length"})
      /\ q.marks = p.marks \cup {"body"} /\ q.content_length = p.content_length - 1
  BY <1>1, BodyBytes
<1>3. ChunkData(p) = IF q.content_length > 0 THEN q ELSE g
  BY DEF ChunkData
<1> HIDE DEF q
<1>4. ASSUME NEW r, Like(p, r, {"state", "marks", "content_length"}), r.marks = {"body"},
             r.content_length = p.content_length - 1,
             r.state = IF r.content_length > 0 THEN "s_chunk_data" ELSE "s_chunk_data_almost_done"
      PROVE  Step(p, r)
  <2>1. r \in Parser /\ r.flags = p.flags /\ r.passed = p.passed
        /\ r.skipping = p.skipping /\ r.calls = p.calls
    BY <1>4 DEF Like
  <2>2. r.state \in ChunkStates /\ r.marks \subseteq MarkOf(r.state)
    BY <1>4, ChunkMarks DEF ChunkStates
  <2>3. r.content_length \in Nat /\ r.content_length < ULLONG_MAX
        /\ (r.content_length > 0 \/ r.content_length = 0)
    BY <1>1, <1>4, ParserAssumption
  <2>4. Sized(r)
    BY <1>4, <2>3 DEF Sized
  <2>5. QED
    BY <1>1, <2>1, <2>2, <2>4, InChunks
<1>5. q.marks = {"body"}
  BY <1>1, <1>2
<1>6. ASSUME q.content_length > 0
      PROVE  Step(p, q)
  <2>1. Like(p, q, {"state", "marks", "content_length"}) /\ q.state = "s_chunk_data"
    BY <1>2 DEF Like
  <2>2. QED
    BY <1>2, <1>4, <1>5, <1>6, <2>1
<1>7. ASSUME ~(q.content_length > 0)
      PROVE  Step(p, g)
  <2>1. Like(q, g, {"state"}) /\ g.state = "s_chunk_data_almost_done"
    BY <1>2, Goes DEF Like, States, Lasting, ChunkStates
  <2> HIDE DEF g
  <2>2. Like(p, g, {"state", "marks", "content_length"}) /\ g.marks = {"body"}
        /\ g.content_length = q.content_length
    BY <1>2, <1>5, <2>1 DEF Like
  <2>3. QED
    BY <1>2, <1>4, <1>7, <2>1, <2>2
<1> HIDE DEF g
<1>8. QED
  BY <1>3, <1>6, <1>7

(* After the data of a chunk the count of the next begins at zero. *)
LEMMA ChunkEndSteps ==
    ASSUME NEW p, Sound(p), ~Failed(p), p.calls = {}, NEW ch
    PROVE  /\ p.state = "s_chunk_data_almost_done" => Step(p, ChunkDataAlmostDone(p, ch))
           /\ p.state = "s_chunk_data_done" => Step(p, ChunkDataDone(p, ch))
           /\ p.state = "s_chunk_parameters" => Step(p, p)
<1>1. {"s_chunk_data_almost_done", "s_chunk_data_done", "s_chunk_size_start", "s_chunk_parameters"}
        \subseteq ChunkStates /\ ChunkStates \subseteq States
  BY DEF ChunkStates, States, Lasting
<1>2. p \in Parser /\ Step(p, Fail(p, "STRICT"))
  BY FailStep DEF Errnos, Sound
<1>3. ASSUME p.state = "s_chunk_data_almost_done"
      PROVE  Step(p, CALLBACK_DATA(Go(p, "s_chunk_data_done"), "body"))
  <2> DEFINE g == Go(p, "s_chunk_data_done")
             q == CALLBACK_DATA(g, "body")
  <2>1. p.marks \subseteq {"body"} /\ p.content_length = 0
    BY <1>3, ChunkMarks DEF Sound, Sized
  <2>2. Like(p, g, {"state"}) /\ g.state = "s_chunk_data_done"
    BY <1>1, <1>2, Goes
  <2> HIDE DEF g
  <2>3. Like(g, q, {"marks"}) /\ q.marks = g.marks \ {"body"}
    BY <2>2, DataGiven DEF Like, Data
  <2> HIDE DEF q
  <2>4. q \in Parser /\ q.state = "s_chunk_data_done" /\ q.marks = {} /\ q.flags = p.flags
        /\ q.passed = p.passed /\ q.skipping = p.skipping /\ q.calls = p.calls
        /\ q.content_length = 0
    BY <2>1, <2>2, <2>3 DEF Like
  <2>5. Sized(q)
    BY <2>4, ParserAssumption DEF Sized
  <2>6. Step(p, q)
    BY <1>1, <1>3, <2>4, <2>5, InChunks
  <2>7. QED
    BY <2>6 DEF q, g
<1>4. ASSUME p.state = "s_chunk_data_done"
      PROVE  Step(p, [Go(p, "s_chunk_size_start") EXCEPT !.nread = 0])
  <2> DEFINE g == Go(p, "s_chunk_size_start")
             q == [g EXCEPT !.nread = 0]
  <2>1. p.marks = {} /\ p.content_length < ULLONG_MAX
    BY <1>1, <1>4, ChunkMarks DEF Sound, Sized, Known
  <2>2. Like(p, g, {"state"}) /\ g.state = "s_chunk_size_start"
    BY <1>1, <1>2, Goes
  <2> HIDE DEF g
  <2>3. q \in Parser
    BY <2>2, Values, Put, Zenon DEF Like
  <2>4. Like(g, q, {"nread"}) /\ q.nread = 0
    BY <2>2, <2>3 DEF Like, Parser
  <2> HIDE DEF q
  <2>5. q \in Parser /\ q.state = "s_chunk_size_start" /\ q.marks = {} /\ q.flags = p.flags
        /\ q.passed = p.passed /\ q.skipping = p.skipping /\ q.calls = p.calls
        /\ q.content_length = p.content_length
    BY <2>1, <2>2, <2>4 DEF Like
  <2>6. Sized(q)
    BY <2>1, <2>4, <2>5 DEF Sized
  <2>7. Step(p, q)
    BY <1>1, <1>4, <2>5, <2>6, InChunks
  <2>8. QED
    BY <2>7 DEF q, g
<1>5. ASSUME p.state = "s_chunk_parameters"
      PROVE  Step(p, p)
  BY <1>1, <1>2, <1>5, InChunks DEF Sound
<1>6. ChunkDataAlmostDone(p, ch)
        \in {Fail(p, "STRICT"), CALLBACK_DATA(Go(p, "s_chunk_data_done"), "body")}
  BY DEF ChunkDataAlmostDone
<1>7. ChunkDataDone(p, ch) \in {Fail(p, "STRICT"), [Go(p, "s_chunk_size_start") EXCEPT !.nread = 0]}
  BY DEF ChunkDataDone
<1>8. QED
  BY <1>2, <1>3, <1>4, <1>5, <1>6, <1>7

-----------------------------------------------------------------------------
(* http_parser_execute *)

(* The states of numbers, one by one. *)
LEMMA NumberStatesAre ==
    NumberStates = {"s_res_first_http_major", "s_res_http_major", "s_res_first_http_minor",
                    "s_res_http_minor", "s_req_first_http_major", "s_req_http_major",
                    "s_req_first_http_minor", "s_req_http_minor", "s_res_first_status_code",
                    "s_res_status_code"}
BY DEF NumberStates, Numbers

(* Every handler. The start of a chunk size, whose first byte is counted      *)
(* before, has a lemma of its own.                                            *)
LEMMA HandledStep ==
    ASSUME NEW p, Sound(p), ~Failed(p), p.calls = {}, NEW ch, p.state # "s_chunk_size_start"
    PROVE  Step(p, Handled(p, ch))
<1>1. Silent(p) /\ p \in Parser /\ Like(p, p, {"nread"})
  BY DEF Silent, Sound, Like
<1>2. ASSUME p.state \in {"s_header_value_lws", "s_header_value_discard_lws"}
      PROVE  p.state \in Heads \ Loops /\ p.marks = {}
  BY <1>2 DEF Heads, Loops, Sound, MarkOf, Remarked, Bodies, UrlStates, UrlEnds
<1>3. p.state = "s_header_value_lws" => Step(p, HeaderValueLws(p, ch))
  BY <1>1, <1>2, HeaderValueStartStep, FieldAfterStep DEF HeaderValueLws
<1>4. p.state = "s_header_value_discard_lws" => Step(p, HeaderValueDiscardLws(p, ch))
  BY <1>1, <1>2, FieldAfterStep DEF HeaderValueDiscardLws
<1>5. Step(p, Fail(p, ErrnoOf(p.state)))
  <2>1. ErrnoOf(p.state) \in Errnos \ {"OK"}
    BY DEF ErrnoOf, Errnos
  <2>2. QED
    BY <2>1, FailStep
<1>6. CASE p.state = "s_start_req"
  <2>1. Handled(p, ch) = StartRequest(p, ch)
    BY <1>6, NumberStatesAre DEF Handled, UrlStates, UrlEnds
  <2>2. QED
    BY <1>1, <1>6, <2>1, StartRequestStep
<1>7. CASE p.state = "s_start_res"
  <2>1. Handled(p, ch) = StartResponse(p, ch)
    BY <1>7, NumberStatesAre DEF Handled, UrlStates, UrlEnds
  <2>2. QED
    BY <1>1, <1>7, <2>1, StartResponseStep
<1>8. CASE p.state = "s_req_method"
  <2>1. Handled(p, ch) = Method(p, ch)
    BY <1>8, NumberStatesAre DEF Handled, UrlStates, UrlEnds
  <2>2. QED
    BY <1>1, <1>8, <2>1, MethodStep
<1>9. CASE p.state \in UrlStates \cup {"s_req_spaces_before_url"}
  <2>1. Handled(p, ch) = Url(p, ch)
    BY <1>9, NumberStatesAre DEF Handled, UrlStates, UrlEnds
  <2>2. QED
    BY <1>1, <1>9, <2>1, UrlStep
<1>10. CASE p.state \in NumberStates
  <2>1. Handled(p, ch) = Number(p, ch)
    BY <1>10, NumberStatesAre DEF Handled, UrlStates, UrlEnds
  <2>2. QED
    BY <1>1, <1>10, <2>1, NumberStep
<1>11. CASE p.state = "s_res_status_start"
  <2>1. Handled(p, ch) = MARK([Go(p, "s_res_status") EXCEPT !.index = 0], "status")
    BY <1>11, NumberStatesAre DEF Handled, UrlStates, UrlEnds
  <2>2. QED
    BY <1>1, <1>11, <2>1, ReasonStep
<1>12. CASE p.state = "s_res_status"
  <2>1. Handled(p, ch) = ReasonPhrase(p, ch)
    BY <1>12, NumberStatesAre DEF Handled, UrlStates, UrlEnds
  <2>2. QED
    BY <1>1, <1>12, <2>1, ReasonStep
<1>13. CASE p.state = "s_header_field_start"
  <2>1. Handled(p, ch) = HeaderFieldStart(p, ch)
    BY <1>13, NumberStatesAre DEF Handled, UrlStates, UrlEnds
  <2>2. QED
    BY <1>1, <1>13, <2>1, HeaderFieldStartStep
<1>14. CASE p.state = "s_header_field"
  <2>1. Handled(p, ch) = HeaderField(p, ch)
    BY <1>14, NumberStatesAre DEF Handled, UrlStates, UrlEnds
  <2>2. QED
    BY <1>1, <1>14, <2>1, HeaderFieldStep
<1>15. CASE p.state = "s_header_value_discard_ws"
  <2>1. Handled(p, ch) = HeaderValueStart(p, ch)
    BY <1>15, NumberStatesAre DEF Handled, UrlStates, UrlEnds
  <2>2. QED
    BY <1>1, <1>15, <2>1, HeaderValueStartStep
<1>16. CASE p.state = "s_header_value"
  <2>1. Handled(p, ch) = HeaderValue(p, ch)
    BY <1>16, NumberStatesAre DEF Handled, UrlStates, UrlEnds
  <2>2. QED
    BY <1>1, <1>16, <2>1, HeaderValueStep
<1>17. CASE p.state = "s_header_value_lws"
  <2>1. Handled(p, ch) = HeaderValueLws(p, ch)
    BY <1>17, NumberStatesAre DEF Handled, UrlStates, UrlEnds
  <2>2. QED
    BY <1>1, <1>17, <2>1, <1>3
<1>18. CASE p.state = "s_header_value_discard_lws"
  <2>1. Handled(p, ch) = HeaderValueDiscardLws(p, ch)
    BY <1>18, NumberStatesAre DEF Handled, UrlStates, UrlEnds
  <2>2. QED
    BY <1>1, <1>18, <2>1, <1>4
<1>19. CASE p.state = "s_headers_almost_done"
  <2>1. Handled(p, ch) = HeadersAlmostDone(p, ch)
    BY <1>19, NumberStatesAre DEF Handled, UrlStates, UrlEnds
  <2>2. QED
    BY <1>1, <1>19, <2>1, HeadersAlmostDoneStep
<1>20. CASE p.state = "s_body_identity"
  <2>1. Handled(p, ch) = BodyIdentity(p)
    BY <1>20, NumberStatesAre DEF Handled, UrlStates, UrlEnds
  <2>2. QED
    BY <1>1, <1>20, <2>1, BodyStep
<1>21. CASE p.state = "s_body_identity_eof"
  <2>1. Handled(p, ch) = MARK(p, "body")
    BY <1>21, NumberStatesAre DEF Handled, UrlStates, UrlEnds
  <2>2. QED
    BY <1>1, <1>21, <2>1, BodyStep
<1>22. CASE p.state = "s_chunk_size"
  <2>1. Handled(p, ch) = ChunkSize(p, ch)
    BY <1>22, NumberStatesAre DEF Handled, UrlStates, UrlEnds
  <2>2. QED
    BY <1>1, <1>22, <2>1, ChunkSizeSteps
<1>23. CASE p.state = "s_chunk_size_almost_done"
  <2>1. Handled(p, ch) = ChunkSizeAlmostDone(p, ch)
    BY <1>23, NumberStatesAre DEF Handled, UrlStates, UrlEnds
  <2>2. QED
    BY <1>1, <1>23, <2>1, ChunkSizeDoneStep
<1>24. CASE p.state = "s_chunk_data"
  <2>1. Handled(p, ch) = ChunkData(p)
    BY <1>24, NumberStatesAre DEF Handled, UrlStates, UrlEnds
  <2>2. QED
    BY <1>1, <1>24, <2>1, ChunkDataStep
<1>25. CASE p.state = "s_chunk_data_almost_done"
  <2>1. Handled(p, ch) = ChunkDataAlmostDone(p, ch)
    BY <1>25, NumberStatesAre DEF Handled, UrlStates, UrlEnds
  <2>2. QED
    BY <1>1, <1>25, <2>1, ChunkEndSteps
<1>26. CASE p.state = "s_chunk_data_done"
  <2>1. Handled(p, ch) = ChunkDataDone(p, ch)
    BY <1>26, NumberStatesAre DEF Handled, UrlStates, UrlEnds
  <2>2. QED
    BY <1>1, <1>26, <2>1, ChunkEndSteps
<1>27. CASE p.state = "s_chunk_parameters"
  <2>1. Handled(p, ch) = p
    BY <1>27, NumberStatesAre DEF Handled, UrlStates, UrlEnds
  <2>2. QED
    BY <1>1, <1>27, <2>1, ChunkEndSteps
<1>28. CASE /\ p.state \notin UrlStates \cup {"s_req_spaces_before_url"}
            /\ p.state \notin NumberStates
            /\ p.state \notin {"s_start_req", "s_start_res", "s_req_method",
                               "s_res_status_start", "s_res_status",
                               "s_header_field_start", "s_header_field",
                               "s_header_value_discard_ws", "s_header_value",
                               "s_header_value_lws", "s_header_value_discard_lws",
                               "s_headers_almost_done", "s_body_identity",
                               "s_body_identity_eof", "s_chunk_size",
                               "s_chunk_size_almost_done", "s_chunk_data",
                               "s_chunk_data_almost_done", "s_chunk_data_done",
                               "s_chunk_parameters"}
  <2>1. Handled(p, ch) = Fail(p, ErrnoOf(p.state))
    BY <1>28 DEF Handled
  <2>2. QED
    BY <1>5, <2>1
<1>29. QED
  BY <1>6, <1>7, <1>8, <1>9, <1>10, <1>11, <1>12, <1>13, <1>14, <1>15, <1>16, <1>17, <1>18, <1>19,
     <1>20, <1>21, <1>22, <1>23, <1>24, <1>25, <1>26, <1>27, <1>28

(* A byte, by the table or by its handler. *)
LEMMA TransitionStep ==
    ASSUME NEW p, Sound(p), ~Failed(p), p.calls = {}, NEW ch, p.state # "s_chunk_size_start"
    PROVE  Step(p, Transition(p, ch))
<1>1. CASE Moved(p.state, ch) = {}
  <2>1. Transition(p, ch) = Handled(p, ch)
    BY <1>1 DEF Transition
  <2>2. QED
    BY <2>1, HandledStep
<1>2. CASE Moved(p.state, ch) # {}
  <2> DEFINE m == CHOOSE x \in Moved(p.state, ch) : TRUE
  <2>1. m \in Moves /\ m[1] = p.state
    BY <1>2 DEF Moved
  <2>2. Transition(p, ch) = Go(p, m[3])
    BY <1>2 DEF Transition
  <2> HIDE DEF m
  <2>3. QED
    BY <2>1, <2>2, MoveStep
<1>3. QED
  BY <1>1, <1>2

(* All that is said of a parser is said of its fields. *)
LEMMA LikeSound ==
    ASSUME NEW p, NEW q, Sound(p), Like(p, q, {"calls", "exited"})
    PROVE  Sound(q) /\ Waits(q) = Waits(p) /\ (Failed(q) <=> Failed(p))
<1>1. /\ q \in Parser /\ q.state = p.state /\ q.flags = p.flags /\ q.marks = p.marks
      /\ q.passed = p.passed /\ q.skipping = p.skipping /\ q.nread = p.nread
      /\ q.content_length = p.content_length /\ q.index = p.index /\ q.method = p.method
      /\ q.header_state = p.header_state /\ q.http_errno = p.http_errno
  BY DEF Like
<1>2. Waits(q) = Waits(p) /\ (Failed(q) <=> Failed(p))
  BY <1>1 DEF Waits, Failed
<1>3. Framed(q) /\ (Looped(p) => Looped(q)) /\ (Flagging(p) => Flagging(q)) /\ (Sized(p) => Sized(q))
  BY <1>1 DEF Sound, Framed, Looped, Flagging, Sized
<1>4. Matching(p) => Matching(q)
  BY <1>1 DEF Matching, Indexed
<1>5. QED
  BY <1>1, <1>2, <1>3, <1>4 DEF Sound

(* A byte of the header is counted: the sum matters where it must be zero. *)
LEMMA CountedSound ==
    ASSUME NEW p, Sound(p), ~Failed(p)
    PROVE  LET q == Counted(p)
           IN  /\ Like(p, q, {"nread", "http_errno"})
               /\ p.state # "s_chunk_size_start" => Sound(q)
               /\ Failed(q) => Sound(q)
<1> DEFINE q == Counted(p)
<1>1. p \in Parser /\ 1 \in 0 .. MaxCount
  BY ParserAssumption DEF Sound
<1>2. Like(p, q, {"nread", "http_errno"})
  BY <1>1, Counts DEF Counted, Like
<1> HIDE DEF q
<1>3. /\ q \in Parser /\ q.state = p.state /\ q.flags = p.flags /\ q.marks = p.marks
      /\ q.passed = p.passed /\ q.skipping = p.skipping
      /\ q.content_length = p.content_length /\ q.index = p.index /\ q.method = p.method
      /\ q.header_state = p.header_state
  BY <1>2 DEF Like
<1>4. Framed(q) /\ q.state \in Lasting
  BY <1>3 DEF Sound, Framed
<1>5. ASSUME ~Failed(q), p.state # "s_chunk_size_start"
      PROVE  Sound(q)
  <2>1. Looped(q) /\ Flagging(q) /\ Sized(q)
    BY <1>3, <1>5 DEF Sound, Looped, Flagging, Sized
  <2>2. Matching(q)
    BY <1>3, <1>5 DEF Sound, Matching, Indexed
  <2>3. QED
    BY <1>3, <1>4, <1>5, <2>1, <2>2 DEF Sound
<1>6. QED
  BY <1>2, <1>3, <1>4, <1>5 DEF Sound, q

(* One turn of the loop. *)
LEMMA ReadStep ==
    ASSUME NEW p, Sound(p), ~Stopped(p), NEW ch
    PROVE  Step(p, Read(p, ch))
<1> DEFINE r == [p EXCEPT !.calls = {}]
           q == Counted(r)
           t == Transition(q, ch)
           a == Attributed(p, t)
<1>1. p \in Parser /\ ~Failed(p)
  BY DEF Sound, Stopped
<1>2. r \in Parser
  BY <1>1, Values, Put
<1>3. Like(p, r, {"calls"}) /\ r.calls = {}
  BY <1>1, <1>2 DEF Like, Parser
<1>4. Read(p, ch) = IF Failed(q) THEN q ELSE a
  BY DEF Read
<1> HIDE DEF r
<1>5. Sound(r) /\ Waits(r) = Waits(p) /\ ~Failed(r) /\ r.state = p.state
  <2>1. Like(p, r, {"calls", "exited"}) /\ r.state = p.state
    BY <1>3 DEF Like
  <2>2. QED
    BY <1>1, <2>1, LikeSound
<1>6. /\ Like(r, q, {"nread", "http_errno"})
      /\ p.state # "s_chunk_size_start" => Sound(q)
      /\ Failed(q) => Sound(q)
  BY <1>5, CountedSound
<1> HIDE DEF q
<1>7. Failed(q) => Step(p, q)
  BY <1>6 DEF Step
<1>8. ASSUME ~Failed(q)
      PROVE  Step(p, t)
  <2>1. Like(r, q, {"nread"}) /\ q.calls = {} /\ q.state = p.state /\ q.flags = p.flags
    BY <1>1, <1>3, <1>5, <1>6, <1>8 DEF Like, Failed
  <2>2. CASE p.state = "s_chunk_size_start"
    <3>1. Transition(q, ch) = ChunkSizeStart(q, ch)
      <4>1. Moved(q.state, ch) = {}
        BY <2>1, <2>2 DEF Moved, Moves
      <4>2. Handled(q, ch) = ChunkSizeStart(q, ch)
        BY <2>1, <2>2, NumberStatesAre DEF Handled, UrlStates, UrlEnds
      <4>3. QED
        BY <4>1, <4>2 DEF Transition
    <3>2. Step(r, ChunkSizeStart(q, ch))
      BY <1>3, <1>5, <2>1, <2>2, ChunkSizeSteps
    <3>3. QED
      BY <1>5, <3>1, <3>2 DEF Step
  <2>3. CASE p.state # "s_chunk_size_start"
    <3>1. Step(q, t)
      BY <1>6, <1>8, <2>1, <2>3, TransitionStep
    <3>2. Waits(q) = Waits(p)
      BY <2>1 DEF Waits
    <3>3. QED
      BY <3>1, <3>2 DEF Step
  <2>4. QED
    BY <2>2, <2>3
<1>9. ASSUME ~Failed(q)
      PROVE  Step(p, a)
  <2>1. Step(p, t) /\ t \in Parser
    BY <1>8, <1>9 DEF Step, Sound
  <2> HIDE DEF t
  <2> DEFINE d == t.marks \cup (IF p.state = "s_body_identity" THEN {"body"} ELSE {})
  <2>2. d \in SUBSET Data
    BY <2>1 DEF Data, Parser
  <2>3. a = [t EXCEPT !.data = d]
    BY DEF Attributed
  <2> HIDE DEF d, a
  <2>4. a \in Parser
    BY <2>1, <2>2, <2>3, Put
  <2>5. Like(t, a, {})
    BY <2>1, <2>3, <2>4 DEF Like, Parser
  <2>6. Like(t, a, {"calls", "exited"}) /\ a.calls = t.calls
    BY <2>5 DEF Like
  <2>7. Sound(a) /\ Waits(a) = Waits(t) /\ (Failed(a) <=> Failed(t))
    BY <2>1, <2>6, LikeSound DEF Step
  <2>8. Step(p, a)
    BY <2>1, <2>6, <2>7 DEF Step, One
  <2>9. QED
    BY <2>8 DEF a
<1> HIDE DEF a
<1>10. QED
  BY <1>4, <1>7, <1>9

(* A buffer marks again what the last one left unfinished. *)
LEMMA BufferBeginsSound ==
    ASSUME NEW p, Sound(p), ~Stopped(p)
    PROVE  LET q == BufferBegins(p)
           IN  Sound(q) /\ Waits(q) = Waits(p) /\ ~Stopped(q)
<1> DEFINE q == BufferBegins(p)
<1>1. p \in Parser /\ ~Failed(p)
  BY DEF Sound, Stopped
<1>2. Remarked(p.state) \in SUBSET Data /\ Remarked(p.state) \subseteq MarkOf(p.state)
  <2>1. Remarked(p.state) \in {{"header_field"}, {"header_value"}, {"status"}, {"url"}, {}}
    BY DEF Remarked
  <2>2. Remarked(p.state) \in SUBSET Data
    BY <2>1 DEF Data
  <2>3. p.state \in Bodies \cup {"s_chunk_data", "s_chunk_data_almost_done"} => Remarked(p.state) = {}
    BY DEF Remarked, Bodies, UrlStates, UrlEnds
  <2>4. QED
    BY <2>2, <2>3 DEF MarkOf
<1>3. q = [p EXCEPT !.marks = Remarked(p.state), !.exited = FALSE]
  BY DEF BufferBegins
<1> HIDE DEF q
<1>4. q \in Parser
  BY <1>1, <1>2, <1>3, Values, Put, Zenon
<1>5. Like(p, q, {"marks", "exited"}) /\ q.marks = Remarked(p.state) /\ q.exited = FALSE
  BY <1>1, <1>3, <1>4 DEF Like, Parser
<1>6. /\ q.state = p.state /\ q.flags = p.flags
      /\ q.passed = p.passed /\ q.skipping = p.skipping /\ q.nread = p.nread
      /\ q.content_length = p.content_length /\ q.index = p.index /\ q.method = p.method
      /\ q.header_state = p.header_state /\ q.http_errno = p.http_errno
  BY <1>5 DEF Like
<1>7. Waits(q) = Waits(p) /\ ~Stopped(q)
  BY <1>1, <1>5, <1>6 DEF Waits, Failed, Stopped
<1>8. Framed(q) /\ Looped(q) /\ Flagging(q) /\ Sized(q)
  BY <1>1, <1>6 DEF Sound, Framed, Looped, Flagging, Sized
<1>9. Matching(q)
  BY <1>1, <1>6 DEF Sound, Matching, Indexed
<1>10. Sound(q)
  BY <1>1, <1>2, <1>4, <1>5, <1>6, <1>8, <1>9 DEF Sound
<1>11. QED
  BY <1>7, <1>10 DEF q

(* Outside the inner loops the end of a buffer counts nothing. *)
LEMMA LoopEndsNot ==
    ASSUME NEW p \in Parser, p.passed = 0
    PROVE  LoopEnd(p).nread = p.nread
<1> DEFINE c == COUNT_HEADER_SIZE(p, 0)
<1>1. Capped(p.nread + 0) = p.nread
  BY ParserAssumption DEF Capped, Parser
<1>2. c.nread = p.nread
  BY <1>1 DEF COUNT_HEADER_SIZE, Fail, Parser
<1>3. 0 \in 0 .. MaxCount /\ LoopEnd(p) = [c EXCEPT !.passed = 0, !.skipping = FALSE]
  BY ParserAssumption DEF LoopEnd
<1>4. c \in Parser
  BY <1>3, Counts DEF Like
<1> HIDE DEF c
<1>5. QED
  BY <1>2, <1>3, <1>4 DEF Parser

(* The end of a buffer, after its last byte or after the parser has stopped. *)
LEMMA BufferEndsSound ==
    ASSUME NEW p, Sound(p)
    PROVE  LET q == BufferEnds(p)
           IN  Sound(q) /\ (~Failed(q) => ~Failed(p) /\ Waits(q) = Waits(p))
<1> DEFINE e == LoopEnd(p)
           m == [e EXCEPT !.marks = {}]
           q == BufferEnds(p)
<1>1. \/ q = p
      \/ q = e /\ ~Failed(p) /\ Failed(e)
      \/ q = m /\ ~Failed(p) /\ ~Failed(e)
  BY DEF BufferEnds, Stopped
<1>2. p \in Parser
  BY DEF Sound
<1>3. Like(p, e, {"nread", "http_errno", "passed", "skipping"}) /\ e.passed = 0 /\ e.skipping = FALSE
      /\ (p.passed = 0 => e.nread = p.nread)
  BY <1>2, LoopEnds, LoopEndsNot
<1> HIDE DEF e, q
<1>4. ASSUME ~Failed(p), Failed(e)
      PROVE  Sound(e)
  BY <1>3, <1>4 DEF Sound, Framed, Like
<1>5. ASSUME ~Failed(p), ~Failed(e)
      PROVE  Sound(m) /\ Waits(m) = Waits(p)
  <2>1. m \in Parser
    BY <1>3, Values, Put DEF Like
  <2>2. Like(e, m, {"marks"}) /\ m.marks = {}
    BY <1>3, <2>1 DEF Like, Parser
  <2> HIDE DEF m
  <2>3. /\ m.state = p.state /\ m.flags = p.flags /\ m.passed = 0 /\ m.skipping = FALSE
        /\ m.content_length = p.content_length /\ m.index = p.index /\ m.method = p.method
        /\ m.header_state = p.header_state /\ (p.passed = 0 => m.nread = p.nread)
    BY <1>3, <2>2 DEF Like
  <2>4. p.state = "s_chunk_size_start" => p.passed = 0
    BY <1>5 DEF Sound, Looped, Loops
  <2>5. Framed(m) /\ Looped(m) /\ Flagging(m) /\ Sized(m)
    BY <1>5, <2>3, <2>4 DEF Sound, Framed, Looped, Flagging, Sized
  <2>6. Matching(m)
    BY <1>5, <2>3 DEF Sound, Matching, Indexed
  <2>7. QED
    BY <2>1, <2>2, <2>3, <2>5, <2>6 DEF Sound, Waits
<1> HIDE DEF m
<1>6. QED
  BY <1>1, <1>4, <1>5 DEF q

(* The end of the connection. *)
LEMMA EndOfInputSound ==
    ASSUME NEW p, Sound(p)
    PROVE  Sound(EndOfInput(p))
<1> DEFINE q == [p EXCEPT !.calls = {}, !.data = {}]
           c == Call(q, "message_complete")
           x == Fail(q, "INVALID_EOF_STATE")
<1>1. p \in Parser
  BY DEF Sound
<1>2. q \in Parser
  BY <1>1, Values, Put, Zenon
<1>3. Like(p, q, {"calls", "exited"})
  BY <1>1, <1>2 DEF Like, Parser
<1>4. EndOfInput(p) \in {c, q, x}
  BY DEF EndOfInput
<1> HIDE DEF q
<1>5. Sound(q)
  BY <1>3, LikeSound
<1>6. Sound(c)
  <2>1. Like(q, c, {"calls"})
    BY <1>2, CallNotes DEF Calls
  <2>2. Like(q, c, {"calls", "exited"})
    BY <2>1 DEF Like
  <2>3. QED
    BY <1>5, <2>2, LikeSound
<1>7. Sound(x)
  BY <1>5, FailStep DEF Step, Errnos
<1> HIDE DEF c, x
<1>8. QED
  BY <1>4, <1>5, <1>6, <1>7

-----------------------------------------------------------------------------
(* The specification. *)

(* A new parser waits for nothing. *)
LEMMA InitSound ==
    ASSUME NEW type \in {"HTTP_REQUEST", "HTTP_RESPONSE"}
    PROVE  LET p == NewParser(type)
           IN  Sound(p) /\ Waits(p) = 0 /\ ~Stopped(p)
<1> DEFINE p == NewParser(type)
<1>1. p.state \in {"s_start_req", "s_start_res"} /\ p.state \in Idle
  BY DEF NewParser, Idle
<1>2. p.state \in States /\ "h_general" \in Headers /\ "DELETE" \in MethodNames /\ "OK" \in Errnos
  BY <1>1 DEF States, Lasting, Headers, FieldHeaders, MethodNames, FirstMethods, Errnos
<1>3. p \in Parser
  BY <1>2, ParserAssumption DEF NewParser, Parser
<1>4. /\ p.marks = {} /\ p.passed = 0 /\ p.skipping = FALSE /\ p.flags = {}
      /\ p.http_errno = "OK" /\ p.exited = FALSE
  BY DEF NewParser
<1> HIDE DEF p
<1>5. Sound(p) /\ Waits(p) = 0
  BY <1>1, <1>3, <1>4, InIdle
<1>6. QED
  BY <1>4, <1>5 DEF Stopped, Failed, p

(* A new parser promises what it has to. *)
LEMMA InitKeeps == Init => ParserInv
<1>1. ASSUME Init
      PROVE  ParserInv
  <2>1. PICK type \in {"HTTP_REQUEST", "HTTP_RESPONSE"} : parser = NewParser(type)
    BY <1>1 DEF Init
  <2>2. Sound(parser) /\ Waits(parser) = 0 /\ ~Stopped(parser)
    BY <2>1, InitSound
  <2>3. QED
    BY <1>1, <2>2 DEF Init, ParserInv
<1>2. QED
  BY <1>1

(* Each step keeps what each state promises to the next byte. *)
LEMMA NextKeeps == ParserInv /\ [Next]_vars => ParserInv'
<1> SUFFICES ASSUME ParserInv, [Next]_vars
             PROVE  ParserInv'
  OBVIOUS
<1> USE DEF ParserInv
<1>1. CASE Execute
  <2>1. parser' = BufferBegins(parser) /\ ~Stopped(parser) /\ pending' = pending /\ open' = open
    BY <1>1 DEF Execute
  <2>2. Sound(parser') /\ Waits(parser') = Waits(parser) /\ ~Stopped(parser')
    BY <2>1, BufferBeginsSound
  <2>3. ~Failed(parser)
    BY <2>1 DEF Stopped
  <2>4. QED
    BY <2>1, <2>2, <2>3
<1>2. CASE Byte
  <2> DEFINE q == Read(parser, Head(text))
             last == Stopped(q) \/ Len(text) = 1
  <2>1. /\ parser' = IF last THEN BufferEnds(q) ELSE q
        /\ text' = IF last THEN <<>> ELSE Tail(text)
        /\ pending' = Noted(q) /\ open' = open /\ ~Stopped(parser)
    BY <1>2 DEF Byte
  <2> HIDE DEF q
  <2>2. Step(parser, q)
    BY <2>1, ReadStep DEF q
  <2>3. Sound(parser') /\ (~Failed(parser') => ~Failed(q) /\ Waits(parser') = Waits(q))
    <3>1. CASE last
      <4>1. parser' = BufferEnds(q)
        BY <2>1, <3>1
      <4>2. QED
        BY <2>2, <4>1, BufferEndsSound DEF Step
    <3>2. CASE ~last
      <4>1. parser' = q
        BY <2>1, <3>2
      <4>2. QED
        BY <2>2, <4>1 DEF Step
    <3>3. QED
      BY <3>1, <3>2
  <2>4. Stopped(parser') => text' = <<>>
    <3>1. CASE last
      BY <2>1, <3>1
    <3>2. CASE ~last
      BY <2>1, <3>2
    <3>3. QED
      BY <3>1, <3>2
  <2>5. pending' \in Int
    BY <2>1 DEF Noted, One
  <2>6. ~Failed(parser') /\ open' => pending' = Waits(parser')
    <3>1. SUFFICES ASSUME ~Failed(parser'), open'
                   PROVE  pending' = Waits(parser')
      OBVIOUS
    <3>2. ~Failed(parser) /\ open /\ pending = Waits(parser)
      BY <2>1, <3>1 DEF Stopped
    <3>3. Waits(q) = Waits(parser) + One("headers_complete", q) - One("message_complete", q)
      BY <2>2, <2>3, <3>1 DEF Step
    <3>4. pending' = Waits(parser) + One("headers_complete", q) - One("message_complete", q)
      BY <2>1, <3>2 DEF Noted
    <3>5. QED
      BY <2>3, <3>1, <3>3, <3>4
  <2>7. QED
    BY <2>1, <2>3, <2>4, <2>5, <2>6
<1>3. CASE Eof
  <2>1. /\ parser' = EndOfInput(parser) /\ text' = <<>> /\ open' = FALSE
        /\ pending' = Noted(parser')
    BY <1>3 DEF Eof
  <2>2. Sound(parser')
    BY <2>1, EndOfInputSound
  <2>3. pending' \in Int
    BY <2>1 DEF Noted, One
  <2>4. QED
    BY <2>1, <2>2, <2>3
<1>4. CASE UNCHANGED vars
  BY <1>4 DEF vars, Sound, Framed, Failed, Stopped, Waits, Looped, Flagging, Sized, Matching, Indexed
<1>5. QED
  BY <1>1, <1>2, <1>3, <1>4 DEF Next

(* http_parser_execute keeps what each state promises to the next byte, over  *)
(* any sequence of buffers and to the end of the connection.                  *)
THEOREM Invariant == Spec => []ParserInv
BY InitKeeps, NextKeeps, PTL DEF Spec

(* The inductive invariant has the fields' ranges, *)
LEMMA TypeOKKept == ParserInv => TypeOK
BY DEF ParserInv, Sound, Parser, Flags, TypeOK

(* Every field of the parser keeps its range: lengths do not pass             *)
(* ULLONG_MAX, and index never passes the longest of the words it is          *)
(* compared with.                                                             *)
THEOREM Typed == Spec => []TypeOK
BY Invariant, TypeOKKept, PTL

(* No two callbacks have data to get at once. *)
LEMMA OneMark ==
    ASSUME NEW p, Sound(p), ~Failed(p)
    PROVE  Cardinality(p.marks) <= 1
<1>1. PICK k \in Data : MarkOf(p.state) \in {{}, {k}}
  BY DEF MarkOf, Remarked, Data
<1>2. p.marks = {} \/ p.marks = {k}
  BY <1>1 DEF Sound
<1>3. Cardinality({}) = 0 /\ Cardinality({k}) = 1
  BY FS_EmptySet, FS_Singleton
<1>4. QED
  BY <1>2, <1>3

(* and the assertions, which are about what a state promises, *)
LEMMA AssertionsHoldKept == ParserInv => AssertionsHold
<1> SUFFICES ASSUME ParserInv
             PROVE  AssertionsHold
  OBVIOUS
<1>1. SUFFICES ASSUME ~Failed(parser)
               PROVE  /\ parser.state = "s_chunk_size_start" => parser.nread = 0
                      /\ parser.state \in ChunkStates => "CHUNKED" \in parser.flags
                      /\ parser.state \in {"s_body_identity", "s_chunk_data"} =>
                            parser.content_length \notin {0, ULLONG_MAX}
                      /\ parser.state = "s_chunk_data_almost_done" => parser.content_length = 0
                      /\ parser.state = "s_header_value" =>
                            parser.header_state \notin {"h_connection", "h_transfer_encoding"}
                      /\ parser.state = "s_header_field" => parser.header_state \in FieldHeaders
                      /\ Cardinality(parser.marks) <= 1
  BY DEF AssertionsHold, FieldHeaders
<1>2. Sound(parser) /\ Flagging(parser) /\ Sized(parser) /\ Matching(parser)
      /\ parser.content_length \in 0 .. ULLONG_MAX
  BY <1>1 DEF ParserInv, Sound, Parser
<1>3. parser.state \in {"s_body_identity", "s_chunk_data"} =>
          parser.content_length \notin {0, ULLONG_MAX}
  BY <1>2, ParserAssumption DEF Sized, Known, ChunkStates
<1>4. parser.state = "s_header_value" =>
          parser.header_state \notin {"h_connection", "h_transfer_encoding"}
  BY <1>2 DEF Matching, ValueHeaders, ListMatching, ListWhole, ListToken
<1>5. QED
  BY <1>1, <1>2, <1>3, <1>4, OneMark DEF Flagging, Sized, Matching

(* The assertions inside http_parser_execute hold whenever they are reached. *)
THEOREM Asserted == Spec => []AssertionsHold
BY Invariant, AssertionsHoldKept, PTL

(* and the lengths that are known, *)
LEMMA LengthKnownKept == ParserInv => LengthKnown
BY DEF ParserInv, Sound, Sized, Known, LengthKnown

(* A length that was declared, or that a chunk has, is never the one that     *)
(* stands for "not known".                                                    *)
THEOREM KnownLength == Spec => []LengthKnown
BY Invariant, LengthKnownKept, PTL

(* and the framing of chunks, *)
LEMMA FramedOnceKept == ParserInv => FramedOnce
BY DEF ParserInv, Sound, Framed, FramedOnce

(* No chunk is read of a message that declared a length or whose trailer has  *)
(* begun.                                                                     *)
THEOREM FramedOneWay == Spec => []FramedOnce
BY Invariant, FramedOnceKept, PTL

(* and the messages that wait to be completed. *)
LEMMA CallbacksAlternateKept == ParserInv => CallbacksAlternate
<1> SUFFICES ASSUME ParserInv
             PROVE  CallbacksAlternate
  OBVIOUS
<1>1. parser.state \in Lasting
  BY DEF ParserInv, Sound
<1>2. "s_message_done" \notin Lasting
  BY DEF Lasting, Idle, Lines, Heads, Bodies, ChunkStates, UrlStates, UrlEnds
<1>3. parser.state \in BodyStates \cup ChunkStates <=> parser.state \in Bodies \cup ChunkStates
  BY <1>1, <1>2 DEF BodyStates, Bodies, ChunkStates
<1>4. ~Failed(parser) /\ open => pending = Waits(parser)
  BY DEF ParserInv
<1>5. QED
  BY <1>3, <1>4 DEF CallbacksAlternate, Waits, Idle

(* on_headers_complete and on_message_complete alternate, and a message       *)
(* waits for its end exactly in its body or its trailer.                      *)
THEOREM Alternate == Spec => []CallbacksAlternate
BY Invariant, CallbacksAlternateKept, PTL
-----------------------------------------------------------------------------
(* One byte. *)


(* There is no room for another. *)
Crowded(p) == Load(p) + 1 > HTTP_MAX_HEADER_SIZE

(* The parser that a handler gets, its byte counted. *)
Turned(p, c) ==
    /\ Like(p, c, {"calls", "nread"}) /\ c.calls = {} /\ Sound(c) /\ ~Failed(c)
    /\ c.nread <= p.nread + (IF p.passed = 0 THEN 1 ELSE 0)

(* Counting bytes fails at the limit, and changes nothing else. *)
LEMMA CountsOne ==
    ASSUME NEW p \in Parser, ~Failed(p), NEW n \in 0 .. MaxCount
    PROVE  LET c == COUNT_HEADER_SIZE(p, n)
           IN  /\ c.nread <= p.nread + n
               /\ Failed(c) => p.nread + n > HTTP_MAX_HEADER_SIZE
<1> DEFINE q == [p EXCEPT !.nread = Capped(p.nread + n)]
           c == COUNT_HEADER_SIZE(p, n)
<1>1. Capped(p.nread + n) \in 0 .. MaxCount /\ Capped(p.nread + n) <= p.nread + n
  BY ParserAssumption DEF Capped, Parser
<1>2. q.nread = Capped(p.nread + n) /\ (Failed(q) <=> Failed(p))
  BY DEF Parser, Failed
<1>3. c = IF q.nread > HTTP_MAX_HEADER_SIZE THEN Fail(q, "HEADER_OVERFLOW") ELSE q
  BY DEF COUNT_HEADER_SIZE
<1>4. q \in Parser
  BY <1>1, Put, Zenon
<1> HIDE DEF q
<1>5. Fail(q, "HEADER_OVERFLOW").nread = q.nread
  BY <1>4 DEF Fail, Parser
<1>6. q.nread \in Int /\ p.nread \in Int /\ HTTP_MAX_HEADER_SIZE \in Int
  BY <1>1, <1>2, ParserAssumption DEF Parser
<1> HIDE DEF c
<1>7. c.nread <= p.nread + n
  BY <1>1, <1>2, <1>3, <1>5, <1>6
<1>8. Failed(c) => p.nread + n > HTTP_MAX_HEADER_SIZE
  BY <1>1, <1>2, <1>3, <1>5, <1>6
<1>9. QED
  BY <1>7, <1>8 DEF c

(* One turn of the loop is that of the handler, or the count is at its limit. *)
LEMMA ReadIs ==
    ASSUME NEW p, Sound(p), ~Stopped(p), p.state \notin ChunkStates, NEW ch
    PROVE  \/ Failed(Read(p, ch)) /\ Crowded(p)
           \/ \E c : /\ Turned(p, c) /\ Transition(c, ch) \in Parser
                     /\ Like(Transition(c, ch), Read(p, ch), {})
                     /\ Read(p, ch).data = Transition(c, ch).marks
                            \cup (IF p.state = "s_body_identity" THEN {"body"} ELSE {})
<1> DEFINE r == [p EXCEPT !.calls = {}]
           q == Counted(r)
           t == Transition(q, ch)
           a == Attributed(p, t)
<1>1. p \in Parser /\ ~Failed(p)
  BY DEF Sound, Stopped
<1>2. r \in Parser
  BY <1>1, Values, Put
<1>3. Like(p, r, {"calls"}) /\ r.calls = {}
  BY <1>1, <1>2 DEF Like, Parser
<1>4. Read(p, ch) = IF Failed(q) THEN q ELSE a
  BY DEF Read
<1> HIDE DEF r
<1>5. Sound(r) /\ ~Failed(r) /\ r.state = p.state
  <2>1. Like(p, r, {"calls", "exited"}) /\ r.state = p.state
    BY <1>3 DEF Like
  <2>2. QED
    BY <1>1, <2>1, LikeSound
<1>6. p.state # "s_chunk_size_start"
  BY DEF ChunkStates
<1>7. Like(r, q, {"nread", "http_errno"}) /\ Sound(q)
  BY <1>5, <1>6, CountedSound
<1>8. /\ q.nread <= p.nread + (IF p.passed = 0 THEN 1 ELSE 0)
      /\ Failed(q) => Crowded(p)
  <2>1. r \in Parser /\ r.nread = p.nread /\ r.passed = p.passed /\ 1 \in 0 .. MaxCount
    BY <1>2, <1>3, ParserAssumption DEF Like
  <2>2. (q = COUNT_HEADER_SIZE(r, 1) /\ p.passed = 0) \/ q = r
    BY <2>1 DEF Counted
  <2>3. p.nread \in Int /\ p.passed \in Int /\ p.passed >= 0
    BY <1>1 DEF Parser
  <2> HIDE DEF q
  <2>4. CASE q = r
    BY <1>5, <2>1, <2>3, <2>4
  <2>5. CASE q = COUNT_HEADER_SIZE(r, 1) /\ p.passed = 0
    BY <1>5, <2>1, <2>3, <2>5, CountsOne, ParserAssumption DEF Crowded, Load
  <2>6. QED
    BY <2>2, <2>4, <2>5
<1> HIDE DEF q
<1>9. CASE Failed(q)
  BY <1>4, <1>8, <1>9
<1>10. CASE ~Failed(q)
  <2>1. Turned(p, q)
    <3>1. q.http_errno = r.http_errno
      BY <1>5, <1>10 DEF Failed
    <3>2. Like(p, q, {"calls", "nread"}) /\ q.calls = {}
      BY <1>3, <1>7, <3>1 DEF Like
    <3>3. QED
      BY <1>7, <1>8, <1>10, <3>2 DEF Turned
  <2>2. t \in Parser /\ q.state = p.state
    <3>1. q.calls = {} /\ q.state = p.state
      BY <2>1 DEF Turned, Like
    <3>2. Step(q, t)
      BY <1>6, <1>7, <1>10, <3>1, TransitionStep
    <3>3. QED
      BY <3>1, <3>2 DEF Step, Sound
  <2> HIDE DEF t
  <2> DEFINE d == t.marks \cup (IF p.state = "s_body_identity" THEN {"body"} ELSE {})
  <2>3. d \in SUBSET Data
    BY <2>2 DEF Data, Parser
  <2>4. a = [t EXCEPT !.data = d]
    BY DEF Attributed
  <2> HIDE DEF d, a
  <2>5. a \in Parser
    BY <2>2, <2>3, <2>4, Put
  <2>6. Like(t, a, {}) /\ a.data = d
    BY <2>2, <2>4, <2>5 DEF Like, Parser
  <2>7. Read(p, ch) = a
    BY <1>4, <1>10
  <2>8. QED
    BY <2>1, <2>2, <2>6, <2>7 DEF d, t
<1>11. QED
  BY <1>9, <1>10

(* What a byte has made of a parser: where it is, what is marked, which       *)
(* callbacks the byte is part of and which were called with none; D is what   *)
(* else has changed.                                                          *)
Got(p, q, D, state, marks, data, calls) ==
    /\ Like(p, q, D \cup {"state", "marks", "nread", "calls"})
    /\ q.state = state /\ q.marks = marks /\ q.data = data /\ q.calls = calls
    /\ Load(q) <= Load(p) + 1

(* What the handler made of the parser, outside the inner loops. *)
LEMMA GotBy ==
    ASSUME NEW p, Sound(p), p.passed = 0, NEW c, Turned(p, c), NEW t, NEW q, Like(t, q, {}),
           NEW D, "passed" \notin D, Like(c, t, D \cup {"state", "marks", "calls"}),
           "nread" \notin D
    PROVE  Got(p, q, D, t.state, t.marks, q.data, t.calls)
<1>1. /\ p \in Parser /\ c \in Parser /\ q \in Parser /\ c.passed = 0
  BY DEF Sound, Turned, Like
<1>2. Like(p, q, D \cup {"state", "marks", "nread", "calls"})
      /\ q.state = t.state /\ q.marks = t.marks /\ q.calls = t.calls
  BY DEF Turned, Like
<1>3. q.passed = 0 /\ q.nread = c.nread /\ c.nread <= p.nread + 1
  <2>1. q.passed = t.passed /\ t.passed = c.passed /\ q.nread = t.nread /\ t.nread = c.nread
    BY DEF Like
  <2>2. QED
    BY <1>1, <2>1 DEF Turned
<1>4. p.nread \in Int /\ c.nread \in Int
  BY <1>1 DEF Parser
<1>5. Load(q) <= Load(p) + 1
  BY <1>3, <1>4 DEF Load
<1>6. QED
  BY <1>2, <1>5 DEF Got

(* A transition of the table. *)
LEMMA MoveRead ==
    ASSUME NEW p, Sound(p), ~Stopped(p), NEW ch, NEW s,
           p.state \notin ChunkStates, p.passed = 0, p.state # "s_body_identity", s \in States,
           Moved(p.state, ch) = {<<p.state, ch, s>>}
    PROVE  LET q == Read(p, ch)
           IN  (Failed(q) /\ Crowded(p)) \/ Got(p, q, {}, s, p.marks, p.marks, {})
<1> DEFINE q == Read(p, ch)
<1>1. CASE Failed(q) /\ Crowded(p)
  BY <1>1
<1>2. CASE ~(Failed(q) /\ Crowded(p))
  <2>1. PICK c : /\ Turned(p, c) /\ Like(Transition(c, ch), q, {})
                 /\ q.data = Transition(c, ch).marks
                            \cup (IF p.state = "s_body_identity" THEN {"body"} ELSE {})
    BY <1>2, ReadIs
  <2>2. c.state = p.state /\ c \in Parser /\ c.marks = p.marks /\ c.calls = {}
    BY <2>1 DEF Turned, Like
  <2>3. Transition(c, ch) = Go(c, s)
    <3> DEFINE e == <<p.state, ch, s>>
    <3>1. Moved(c.state, ch) = {e} /\ e[3] = s
      BY <2>2
    <3>2. (CHOOSE m \in {e} : TRUE) = e
      OBVIOUS
    <3> HIDE DEF e
    <3>3. QED
      BY <3>1, <3>2 DEF Transition
  <2>4. Like(c, Go(c, s), {"state"}) /\ Go(c, s).state = s
    BY <2>2, Goes
  <2> DEFINE t == Go(c, s)
  <2> HIDE DEF q, t
  <2>5. Like(c, t, {} \cup {"state", "marks", "calls"}) /\ t.state = s /\ t.marks = p.marks /\ t.calls = {}
    BY <2>2, <2>4 DEF Like, t
  <2>6. Got(p, q, {}, t.state, t.marks, q.data, t.calls)
    BY <2>1, <2>3, <2>5, GotBy DEF t
  <2>7. q.data = p.marks
    BY <2>1, <2>3, <2>5 DEF t
  <2>8. QED
    BY <2>5, <2>6, <2>7 DEF q
<1>3. QED
  BY <1>1, <1>2
(* A handler, from what it makes of any parser whose byte has been counted. *)
LEMMA ReadBy ==
    ASSUME NEW p, Sound(p), ~Stopped(p), p.passed = 0,
           p.state \notin ChunkStates \cup {"s_body_identity"}, NEW ch,
           NEW D, "passed" \notin D, "nread" \notin D, NEW s, NEW marks, NEW calls, NEW bad,
           \A c : Turned(p, c) /\ Transition(c, ch) \in Parser =>
                LET t == Transition(c, ch)
                IN  \/ Failed(t) /\ bad
                    \/ /\ Like(c, t, D \cup {"state", "marks", "calls"})
                       /\ t.state = s /\ t.marks = marks /\ t.calls = calls
    PROVE  LET q == Read(p, ch)
           IN  \/ Failed(q) /\ (Crowded(p) \/ bad)
               \/ /\ Got(p, q, D, s, marks, marks, calls)
                  /\ \E c : /\ Turned(p, c) /\ Transition(c, ch) \in Parser
                            /\ Like(Transition(c, ch), q, {})
<1> DEFINE q == Read(p, ch)
<1>1. CASE Failed(q) /\ Crowded(p)
  BY <1>1
<1>2. CASE ~(Failed(q) /\ Crowded(p))
  <2>1. PICK c : /\ Turned(p, c) /\ Transition(c, ch) \in Parser
                 /\ Like(Transition(c, ch), q, {})
                 /\ q.data = Transition(c, ch).marks
                            \cup (IF p.state = "s_body_identity" THEN {"body"} ELSE {})
    BY <1>2, ReadIs
  <2> DEFINE t == Transition(c, ch)
  <2>2. \/ Failed(t) /\ bad
        \/ /\ Like(c, t, D \cup {"state", "marks", "calls"})
           /\ t.state = s /\ t.marks = marks /\ t.calls = calls
    BY <2>1
  <2>3. Like(t, q, {}) /\ q.data = t.marks
    BY <2>1
  <2> HIDE DEF q, t
  <2>4. CASE Failed(t) /\ bad
    <3>1. Failed(q)
      BY <2>3, <2>4 DEF Like, Failed
    <3>2. QED
      BY <2>4, <3>1 DEF q
  <2>5. CASE /\ Like(c, t, D \cup {"state", "marks", "calls"})
             /\ t.state = s /\ t.marks = marks /\ t.calls = calls
    <3>1. Got(p, q, D, t.state, t.marks, q.data, t.calls)
      BY <2>1, <2>3, <2>5, GotBy, SMTT(40)
    <3>2. Like(Transition(c, ch), q, {})
      BY <2>1, SMTT(40)
    <3>3. QED
      BY <2>1, <2>3, <2>5, <3>1, <3>2, ZenonT(40) DEF q
  <2>6. QED
    BY <2>2, <2>4, <2>5
<1>3. QED
  BY <1>1, <1>2
-----------------------------------------------------------------------------
(* The handler of each state that a message is read in. *)
LEMMA HandlerOf ==
    ASSUME NEW c, NEW ch
    PROVE  /\ c.state = "s_start_req" /\ ch \notin {CR, LF} => Transition(c, ch) = StartRequest(c, ch)
           /\ c.state = "s_start_res" => Transition(c, ch) = StartResponse(c, ch)
           /\ c.state = "s_dead" /\ ch \notin {CR, LF} => Transition(c, ch) = Fail(c, "CLOSED_CONNECTION")
           /\ c.state = "s_req_method" => Transition(c, ch) = Method(c, ch)
           /\ c.state \in UrlStates => Transition(c, ch) = Url(c, ch)
           /\ c.state = "s_req_spaces_before_url" /\ ch # SPACE => Transition(c, ch) = Url(c, ch)
           /\ c.state = "s_res_status" => Transition(c, ch) = ReasonPhrase(c, ch)
           /\ c.state = "s_header_field" => Transition(c, ch) = HeaderField(c, ch)
           /\ c.state = "s_header_value" => Transition(c, ch) = HeaderValue(c, ch)
           /\ c.state = "s_header_field_start" /\ ch # CR => Transition(c, ch) = HeaderFieldStart(c, ch)
           /\ c.state = "s_header_value_lws" => Transition(c, ch) = HeaderValueLws(c, ch)
           /\ c.state = "s_header_value_discard_lws" /\ ch \notin {SPACE, TAB} =>
                 Transition(c, ch) = HeaderValueDiscardLws(c, ch)
           /\ c.state = "s_header_value_discard_ws" /\ ch \notin {SPACE, TAB, CR, LF} =>
                 Transition(c, ch) = HeaderValueStart(c, ch)
           /\ c.state = "s_headers_almost_done" => Transition(c, ch) = HeadersAlmostDone(c, ch)
           /\ c.state = "s_body_identity" => Transition(c, ch) = BodyIdentity(c)
<1> USE DEF Transition, Moved, Moves, Handled, UrlStates, UrlEnds, ErrnoOf
<1> USE NumberStatesAre
<1>1. c.state = "s_start_req" /\ ch \notin {CR, LF} => Transition(c, ch) = StartRequest(c, ch)
  OBVIOUS
<1>2. c.state = "s_start_res" => Transition(c, ch) = StartResponse(c, ch)
  OBVIOUS
<1>3. c.state = "s_dead" /\ ch \notin {CR, LF} => Transition(c, ch) = Fail(c, "CLOSED_CONNECTION")
  OBVIOUS
<1>4. c.state = "s_req_method" => Transition(c, ch) = Method(c, ch)
  OBVIOUS
<1>5. c.state \in UrlStates => Transition(c, ch) = Url(c, ch)
  OBVIOUS
<1>6. c.state = "s_req_spaces_before_url" /\ ch # SPACE => Transition(c, ch) = Url(c, ch)
  OBVIOUS
<1>7. c.state = "s_res_status" => Transition(c, ch) = ReasonPhrase(c, ch)
  OBVIOUS
<1>8. c.state = "s_header_field" => Transition(c, ch) = HeaderField(c, ch)
  OBVIOUS
<1>9. c.state = "s_header_value" => Transition(c, ch) = HeaderValue(c, ch)
  OBVIOUS
<1>10. c.state = "s_header_field_start" /\ ch # CR => Transition(c, ch) = HeaderFieldStart(c, ch)
  OBVIOUS
<1>11. c.state = "s_header_value_lws" => Transition(c, ch) = HeaderValueLws(c, ch)
  OBVIOUS
<1>12. c.state = "s_header_value_discard_lws" /\ ch \notin {SPACE, TAB} =>
                 Transition(c, ch) = HeaderValueDiscardLws(c, ch)
  OBVIOUS
<1>13. c.state = "s_header_value_discard_ws" /\ ch \notin {SPACE, TAB, CR, LF} =>
                 Transition(c, ch) = HeaderValueStart(c, ch)
  OBVIOUS
<1>14. c.state = "s_headers_almost_done" => Transition(c, ch) = HeadersAlmostDone(c, ch)
  OBVIOUS
<1>15. c.state = "s_body_identity" => Transition(c, ch) = BodyIdentity(c)
  OBVIOUS
<1>16. QED
  BY <1>1, <1>2, <1>3, <1>4, <1>5, <1>6, <1>7, <1>8, <1>9, <1>10, <1>11, <1>12, <1>13, <1>14, <1>15

(* A record with its fields is in the type. *)
LEMMA TurnedIs ==
    ASSUME NEW p, NEW c, Turned(p, c)
    PROVE  /\ c \in Parser /\ c.state = p.state /\ c.marks = p.marks /\ c.calls = {}
           /\ c.index = p.index /\ c.method = p.method /\ c.header_state = p.header_state
           /\ c.flags = p.flags /\ c.content_length = p.content_length /\ c.type = p.type
           /\ c.status_code = p.status_code /\ c.upgrade = p.upgrade /\ c.exited = p.exited
           /\ c.passed = p.passed /\ c.skipping = p.skipping /\ c.http_errno = "OK"
BY DEF Turned, Like, Failed

(* A message begins without flags and without a known length. *)
LEMMA NewHeadersIs ==
    ASSUME NEW p \in Parser
    PROVE  /\ Like(p, NewHeaders(p), {"flags", "content_length"})
           /\ NewHeaders(p).flags = {} /\ NewHeaders(p).content_length = ULLONG_MAX
<1> DEFINE a == [p EXCEPT !.flags = {}]
           b == [a EXCEPT !.content_length = ULLONG_MAX]
<1>1. a \in Parser
  BY Values, Put
<1>2. b \in Parser
  BY <1>1, Values, Put
<1>3. NewHeaders(p) = b
  BY DEF NewHeaders
<1>4. b.flags = {} /\ b.content_length = ULLONG_MAX
  BY DEF Parser
<1> HIDE DEF b
<1>5. Like(p, b, {"flags", "content_length"})
  BY <1>2 DEF b, Like, Parser
<1>6. QED
  BY <1>3, <1>4, <1>5

(* The first byte of a method. *)
LEMMA ReadStartRequest ==
    ASSUME NEW p, Sound(p), ~Stopped(p), p.state = "s_start_req", NEW ch \in ALPHA, NEW m,
           {x \in FirstMethods : Nth(x, 0) = ch} = {m}
    PROVE  LET q == Read(p, ch)
           IN  \/ Failed(q) /\ Crowded(p)
               \/ /\ Got(p, q, {"method", "index", "flags", "content_length"}, "s_req_method",
                         p.marks, p.marks, {})
                  /\ q.method = m /\ q.index = 1 /\ q.flags = {} /\ q.content_length = ULLONG_MAX
<1> DEFINE q == Read(p, ch)
           D == {"method", "index", "flags", "content_length"}
<1>1. p.passed = 0 /\ p.state \notin ChunkStates \cup {"s_body_identity"}
  BY DEF Sound, Stopped, Looped, Loops, ChunkStates
<1>2. ch \notin {CR, LF}
  BY LettersAssumption DEF TOKEN
<1>3. m \in FirstMethods
  OBVIOUS
<1>4. ASSUME NEW c, Turned(p, c), Transition(c, ch) \in Parser
      PROVE  LET t == Transition(c, ch)
             IN  /\ Like(c, t, D \cup {"state", "marks", "calls"})
                 /\ t.state = "s_req_method" /\ t.marks = p.marks /\ t.calls = {}
                 /\ t.method = m /\ t.index = 1 /\ t.flags = {} /\ t.content_length = ULLONG_MAX
  <2> DEFINE n == NewHeaders(c)
             g == [n EXCEPT !.method = "DELETE", !.index = 1]
             h == [Go(g, "s_req_method") EXCEPT !.method = m]
  <2>1. c \in Parser /\ c.state = "s_start_req" /\ c.marks = p.marks /\ c.calls = {}
    BY <1>4, TurnedIs
  <2>2. Transition(c, ch) = StartRequest(c, ch)
    BY <1>2, <2>1, HandlerOf
  <2>3. StartRequest(c, ch) = h
    <3>1. (CHOOSE x \in {m} : TRUE) = m
      OBVIOUS
    <3>2. StartRequest(c, ch) = [Go(g, "s_req_method") EXCEPT !.method = CHOOSE x \in {m} : TRUE]
      BY DEF StartRequest
    <3>3. QED
      BY <3>1, <3>2
  <2>4. Like(c, n, {"flags", "content_length"}) /\ n.flags = {} /\ n.content_length = ULLONG_MAX
    BY <2>1, NewHeadersIs
  <2> HIDE DEF n
  <2>5. h \in Parser
    BY <1>4, <2>2, <2>3
  <2>6. /\ h.state = "s_req_method" /\ h.method = m /\ h.index = 1
        /\ Like(n, h, {"state", "method", "index"})
    BY <2>4, <2>5 DEF Like, Parser, Go
  <2> HIDE DEF h
  <2>7. QED
    BY <2>1, <2>2, <2>3, <2>4, <2>6 DEF Like
<1>5. \/ Failed(q) /\ (Crowded(p) \/ FALSE)
      \/ /\ Got(p, q, D, "s_req_method", p.marks, p.marks, {})
         /\ \E c : Turned(p, c) /\ Transition(c, ch) \in Parser /\ Like(Transition(c, ch), q, {})
  <2> HIDE DEF q
  <2>1. \A c : Turned(p, c) /\ Transition(c, ch) \in Parser =>
                LET t == Transition(c, ch)
                IN  \/ Failed(t) /\ FALSE
                    \/ /\ Like(c, t, D \cup {"state", "marks", "calls"})
                       /\ t.state = "s_req_method" /\ t.marks = p.marks /\ t.calls = {}
    BY <1>4
  <2>2. QED
    BY <1>1, <2>1, ReadBy, ZenonT(40) DEF q
<1> HIDE DEF q
<1>6. QED
  BY <1>4, <1>5 DEF Like, q

(* Outside the inner loops no bytes are waiting to be counted. *)
LEMMA Outside ==
    ASSUME NEW p, Sound(p), ~Stopped(p), p.state \notin Loops
    PROVE  p.passed = 0
BY DEF Sound, Stopped, Looped

(* The next byte of the method that it may be. *)
LEMMA ReadMethodNext ==
    ASSUME NEW p, Sound(p), ~Stopped(p), p.state = "s_req_method",
           NEW ch, ch # NUL, ch = Nth(p.method, p.index)
    PROVE  LET q == Read(p, ch)
           IN  \/ Failed(q) /\ Crowded(p)
               \/ /\ Got(p, q, {"index"}, "s_req_method", p.marks, p.marks, {})
                  /\ q.index = p.index + 1
<1> DEFINE q == Read(p, ch)
<1>1. p.passed = 0 /\ p.state \notin ChunkStates
  BY Outside DEF Loops, ChunkStates
<1>2. SUFFICES ASSUME ~(Failed(q) /\ Crowded(p))
               PROVE  Got(p, q, {"index"}, "s_req_method", p.marks, p.marks, {}) /\ q.index = p.index + 1
  OBVIOUS
<1>3. PICK c : /\ Turned(p, c) /\ Transition(c, ch) \in Parser /\ Like(Transition(c, ch), q, {})
               /\ q.data = Transition(c, ch).marks
  BY <1>1, <1>2, ReadIs, ZenonT(40)
<1>4. /\ c \in Parser /\ c.state = "s_req_method" /\ c.marks = p.marks /\ c.calls = {}
      /\ c.method = p.method /\ c.index = p.index
  BY <1>3, TurnedIs, SMTT(40)
<1> DEFINE t == [c EXCEPT !.index = c.index + 1]
<1>5. Transition(c, ch) = t
  BY <1>4, HandlerOf, ZenonT(40) DEF Method
<1>6. t \in Parser
  BY <1>3, <1>5
<1>7. Like(c, t, {"index"}) /\ t.index = c.index + 1
  BY <1>4, <1>6 DEF Like, Parser
<1> HIDE DEF t, q
<1>8. Like(c, t, {"index"} \cup {"state", "marks", "calls"})
  BY <1>7 DEF Like
<1>9. Like(t, q, {}) /\ q.data = t.marks /\ t.state = c.state /\ t.marks = c.marks /\ t.calls = c.calls
  BY <1>3, <1>5, <1>7 DEF Like
<1>10. Got(p, q, {"index"}, t.state, t.marks, q.data, t.calls)
  BY <1>1, <1>3, <1>8, <1>9, GotBy
<1>11. QED
  BY <1>4, <1>7, <1>9, <1>10 DEF Like

(* A byte that every handler fails on. *)
LEMMA ReadFails ==
    ASSUME NEW p, Sound(p), ~Stopped(p), p.state \notin ChunkStates, NEW ch,
           \A c : Turned(p, c) /\ Transition(c, ch) \in Parser => Failed(Transition(c, ch))
    PROVE  Failed(Read(p, ch))
<1> DEFINE q == Read(p, ch)
<1>1. CASE ~Failed(q)
  <2>1. PICK c : Turned(p, c) /\ Transition(c, ch) \in Parser /\ Like(Transition(c, ch), q, {})
    BY <1>1, ReadIs
  <2>2. Failed(Transition(c, ch))
    BY <2>1
  <2>3. QED
    BY <2>1, <2>2 DEF Like, Failed
<1>2. QED
  BY <1>1

(* The turn of a handler that is no loop and not the body's. *)
LEMMA ReadOutside ==
    ASSUME NEW p, Sound(p), ~Stopped(p), p.state \notin ChunkStates, p.state # "s_body_identity", NEW ch
    PROVE  \/ Failed(Read(p, ch)) /\ Crowded(p)
           \/ \E c : /\ Turned(p, c) /\ Transition(c, ch) \in Parser
                     /\ Like(Transition(c, ch), Read(p, ch), {})
                     /\ Read(p, ch).data = Transition(c, ch).marks
<1>1. CASE Failed(Read(p, ch)) /\ Crowded(p)
  BY <1>1
<1>2. CASE ~(Failed(Read(p, ch)) /\ Crowded(p))
  BY <1>2, ReadIs
<1>3. QED
  BY <1>1, <1>2

(* A byte that makes it another method. *)
LEMMA ReadMethodOther ==
    ASSUME NEW p, Sound(p), ~Stopped(p), p.state = "s_req_method", NEW ch, ch # NUL, ch # SPACE,
           ch # Nth(p.method, p.index), NEW o,
           {x \in OtherMethods : x[1] = p.method /\ x[2] = p.index /\ x[3] = ch} = {o}
    PROVE  LET q == Read(p, ch)
           IN  \/ Failed(q) /\ Crowded(p)
               \/ /\ Got(p, q, {"index", "method"}, "s_req_method", p.marks, p.marks, {})
                  /\ q.index = p.index + 1 /\ q.method = o[4]
<1> DEFINE q == Read(p, ch)
<1>1. p.passed = 0 /\ p.state \notin ChunkStates /\ p.state # "s_body_identity"
  BY Outside DEF Loops, ChunkStates
<1>2. SUFFICES ASSUME ~(Failed(q) /\ Crowded(p))
               PROVE  /\ Got(p, q, {"index", "method"}, "s_req_method", p.marks, p.marks, {})
                      /\ q.index = p.index + 1 /\ q.method = o[4]
  OBVIOUS
<1>3. PICK c : /\ Turned(p, c) /\ Transition(c, ch) \in Parser /\ Like(Transition(c, ch), q, {})
               /\ q.data = Transition(c, ch).marks
  BY <1>1, <1>2, ReadOutside
<1>4. /\ c \in Parser /\ c.state = "s_req_method" /\ c.marks = p.marks /\ c.calls = {}
      /\ c.method = p.method /\ c.index = p.index
  BY <1>3, TurnedIs
<1> DEFINE n == [c EXCEPT !.index = c.index + 1]
           t == [n EXCEPT !.method = o[4]]
<1>5. Transition(c, ch) = t
  <2>1. (CHOOSE x \in {o} : TRUE) = o
    OBVIOUS
  <2>2. Transition(c, ch) = Method(c, ch)
    BY <1>4, HandlerOf
  <2>3. Method(c, ch) = [n EXCEPT !.method = (CHOOSE x \in {o} : TRUE)[4]]
    BY <1>4, ZenonT(40) DEF Method
  <2>4. QED
    BY <2>1, <2>2, <2>3
<1>6. t \in Parser
  BY <1>3, <1>5
<1>7. Like(c, t, {"index", "method"}) /\ t.index = c.index + 1 /\ t.method = o[4]
  BY <1>4, <1>6 DEF Like, Parser
<1> HIDE DEF t, q
<1>8. Like(c, t, {"index", "method"} \cup {"state", "marks", "calls"})
  BY <1>7 DEF Like
<1>9. Like(t, q, {}) /\ q.data = t.marks /\ t.state = c.state /\ t.marks = c.marks /\ t.calls = c.calls
  BY <1>3, <1>5, <1>7 DEF Like
<1>10. Got(p, q, {"index", "method"}, t.state, t.marks, q.data, t.calls)
  BY <1>1, <1>3, <1>8, <1>9, GotBy
<1>11. QED
  BY <1>4, <1>7, <1>9, <1>10 DEF Like

(* The blank after a method. *)
LEMMA ReadMethodEnd ==
    ASSUME NEW p, Sound(p), ~Stopped(p), p.state = "s_req_method", Nth(p.method, p.index) = NUL
    PROVE  LET q == Read(p, SPACE)
           IN  \/ Failed(q) /\ Crowded(p)
               \/ Got(p, q, {"index"}, "s_req_spaces_before_url", p.marks, p.marks, {})
<1> DEFINE q == Read(p, SPACE)
<1>1. p.passed = 0 /\ p.state \notin ChunkStates
  BY Outside DEF Loops, ChunkStates
<1>2. SUFFICES ASSUME ~(Failed(q) /\ Crowded(p))
               PROVE  Got(p, q, {"index"}, "s_req_spaces_before_url", p.marks, p.marks, {})
  OBVIOUS
<1>3. PICK c : /\ Turned(p, c) /\ Transition(c, SPACE) \in Parser
               /\ Like(Transition(c, SPACE), q, {}) /\ q.data = Transition(c, SPACE).marks
  BY <1>1, <1>2, ReadIs, ZenonT(40)
<1>4. /\ c \in Parser /\ c.state = "s_req_method" /\ c.marks = p.marks /\ c.calls = {}
      /\ c.method = p.method /\ c.index = p.index
  BY <1>3, TurnedIs
<1> DEFINE n == [c EXCEPT !.index = c.index + 1]
           t == Go(n, "s_req_spaces_before_url")
<1>5. Transition(c, SPACE) = t
  <2>1. Transition(c, SPACE) = Method(c, SPACE)
    BY <1>4, HandlerOf
  <2>2. QED
    <3> DEFINE others == {m \in OtherMethods : m[1] = c.method /\ m[2] = c.index /\ m[3] = SPACE}
    <3>1. others = {}
      <4>1. \A m \in OtherMethods : m[3] \in {"U", "A", "H", "P", "O", "E", "B", "R", "I", "S", "-"}
        BY DEF OtherMethods
      <4>2. SPACE \notin {"U", "A", "H", "P", "O", "E", "B", "R", "I", "S", "-"}
        BY Zenon DEF SPACE
      <4>3. QED
        BY <4>1, <4>2
    <3>2. SPACE # NUL
      BY Zenon DEF SPACE, NUL
    <3>3. QED
      BY <1>4, <2>1, <3>1, <3>2 DEF Method
<1>6. t \in Parser
  BY <1>3, <1>5
<1>7. Like(c, t, {"index", "state"}) /\ t.state = "s_req_spaces_before_url"
  BY <1>4, <1>6 DEF Like, Parser, Go
<1> HIDE DEF t, q
<1>8. Like(c, t, {"index"} \cup {"state", "marks", "calls"})
  BY <1>7 DEF Like
<1>9. Like(t, q, {}) /\ q.data = t.marks /\ t.marks = c.marks /\ t.calls = c.calls
  BY <1>3, <1>5, <1>7 DEF Like
<1>10. Got(p, q, {"index"}, t.state, t.marks, q.data, t.calls)
  BY <1>1, <1>3, <1>8, <1>9, GotBy
<1>11. QED
  BY <1>4, <1>7, <1>9, <1>10 DEF Like

(* HEAD is the only method that begins as a response does. *)
LEMMA ReadHeadFails ==
    ASSUME NEW p, Sound(p), ~Stopped(p), p.state = "s_req_method", p.method = "HEAD", p.index = 1
    PROVE  Failed(Read(p, "T"))
<1>1. p.state \notin ChunkStates
  BY DEF ChunkStates
<1>2. ASSUME NEW c, Turned(p, c), Transition(c, "T") \in Parser
      PROVE  Failed(Transition(c, "T"))
  <2>1. c \in Parser /\ c.state = "s_req_method" /\ c.method = "HEAD" /\ c.index = 1
    BY <1>2, TurnedIs
  <2>2. Transition(c, "T") = Method(c, "T")
    BY <2>1, HandlerOf
  <2>3. {m \in OtherMethods : m[1] = c.method /\ m[2] = c.index /\ m[3] = "T"} = {}
    BY <2>1, LettersAssumption, ZenonT(40)
  <2>4. Method(c, "T") = Fail(c, "INVALID_METHOD")
    BY <2>1, <2>3, LettersAssumption DEF Method, NUL, SPACE
  <2>5. QED
    BY <2>1, <2>2, <2>4, Fails DEF Failed, Errnos
<1>3. QED
  BY <1>1, <1>2, ReadFails

(* A response begins with HT, and so does no request. *)
LEMMA ReadResponseFails ==
    ASSUME NEW p, Sound(p), ~Stopped(p), NEW ch,
           \/ p.state = "s_start_res" /\ ch \notin {"H", CR, LF}
           \/ p.state = "s_res_H" /\ ch # "T"
    PROVE  Failed(Read(p, ch))
<1>1. p.state \notin ChunkStates
  BY DEF ChunkStates
<1>2. ASSUME NEW c, Turned(p, c), Transition(c, ch) \in Parser
      PROVE  Failed(Transition(c, ch))
  <2>1. c \in Parser /\ c.state = p.state
    BY <1>2, TurnedIs
  <2>2. CASE p.state = "s_start_res" /\ ch \notin {"H", CR, LF}
    <3>1. Transition(c, ch) = Fail(NewHeaders(c), "INVALID_CONSTANT")
      BY <2>1, <2>2, HandlerOf DEF StartResponse
    <3>2. NewHeaders(c) \in Parser
      BY <2>1, NewHeadersIs DEF Like
    <3>3. QED
      BY <3>1, <3>2, Fails DEF Failed, Errnos
  <2>3. CASE p.state = "s_res_H" /\ ch # "T"
    <3>1. Moved(c.state, ch) = {}
      BY <2>1, <2>3 DEF Moved, Moves
    <3>2. Transition(c, ch) = Fail(c, ErrnoOf(c.state))
      BY <2>1, <2>3, <3>1, NumberStatesAre DEF Transition, Handled, UrlStates, UrlEnds
    <3>3. ErrnoOf(c.state) = "STRICT"
      BY <2>1, <2>3 DEF ErrnoOf
    <3>4. QED
      BY <2>1, <3>2, <3>3, Fails DEF Failed, Errnos
  <2>4. QED
    BY <2>2, <2>3
<1>3. QED
  BY <1>1, <1>2, ReadFails

(* The first byte of a response. *)
LEMMA ReadStartResponse ==
    ASSUME NEW p, Sound(p), ~Stopped(p), p.state = "s_start_res"
    PROVE  LET q == Read(p, "H")
           IN  \/ Failed(q) /\ Crowded(p)
               \/ /\ Got(p, q, {"flags", "content_length"}, "s_res_H", p.marks, p.marks, {})
                  /\ q.flags = {} /\ q.content_length = ULLONG_MAX
<1> DEFINE q == Read(p, "H")
<1>1. p.passed = 0 /\ p.state \notin ChunkStates
  BY Outside DEF Loops, ChunkStates
<1>2. SUFFICES ASSUME ~(Failed(q) /\ Crowded(p))
               PROVE  /\ Got(p, q, {"flags", "content_length"}, "s_res_H", p.marks, p.marks, {})
                      /\ q.flags = {} /\ q.content_length = ULLONG_MAX
  OBVIOUS
<1>3. PICK c : /\ Turned(p, c) /\ Transition(c, "H") \in Parser /\ Like(Transition(c, "H"), q, {})
               /\ q.data = Transition(c, "H").marks
  BY <1>1, <1>2, ReadIs
<1>4. c \in Parser /\ c.state = "s_start_res" /\ c.marks = p.marks /\ c.calls = {}
  BY <1>3, TurnedIs
<1> DEFINE n == NewHeaders(c)
           t == Go(n, "s_res_H")
<1>5. Transition(c, "H") = t
  <2>1. Transition(c, "H") = StartResponse(c, "H")
    BY <1>4, HandlerOf
  <2>2. QED
    <3>1. "H" \notin {CR, LF}
      BY Zenon DEF CR, LF
    <3>2. QED
      BY <2>1, <3>1 DEF StartResponse
<1>6. Like(c, n, {"flags", "content_length"}) /\ n.flags = {} /\ n.content_length = ULLONG_MAX
  BY <1>4, NewHeadersIs
<1>7. Like(n, t, {"state"}) /\ t.state = "s_res_H"
  <2>1. "s_res_H" \in States
    BY DEF States, Lasting, Lines
  <2>2. QED
    BY <1>6, <2>1, Goes DEF Like
<1> HIDE DEF n, t, q
<1>8. /\ Like(c, t, {"flags", "content_length"} \cup {"state", "marks", "calls"})
      /\ t.marks = c.marks /\ t.calls = c.calls /\ t.flags = {} /\ t.content_length = ULLONG_MAX
  BY <1>6, <1>7 DEF Like
<1>9. Like(t, q, {}) /\ q.data = t.marks
  BY <1>3, <1>5
<1>10. Got(p, q, {"flags", "content_length"}, t.state, t.marks, q.data, t.calls)
  BY <1>1, <1>3, <1>8, <1>9, GotBy
<1>11. QED
  BY <1>4, <1>7, <1>8, <1>9, <1>10 DEF Like

(* The state after another character of a url. *)
UrlTo(s, method, ch) ==
    parse_url_char(IF s = "s_req_spaces_before_url" /\ method = "CONNECT" THEN "s_req_server_start" ELSE s, ch)

(* A byte of a url. *)
LEMMA ReadUrl ==
    ASSUME NEW p, Sound(p), ~Stopped(p), NEW ch, ch \notin {SPACE, CR, LF},
           \/ p.state = "s_req_spaces_before_url" /\ p.marks = {}
           \/ p.state \in UrlStates /\ p.marks = {"url"}
    PROVE  LET q  == Read(p, ch)
               to == UrlTo(p.state, p.method, ch)
           IN  \/ Failed(q) /\ (Crowded(p) \/ to = "s_dead")
               \/ to \in UrlStates /\ Got(p, q, {}, to, {"url"}, {"url"}, {})
<1> DEFINE q  == Read(p, ch)
           to == UrlTo(p.state, p.method, ch)
<1>1. p.passed = 0 /\ p.state \notin ChunkStates /\ p.state # "s_body_identity"
  BY Outside DEF Loops, ChunkStates, UrlStates, UrlEnds
<1>2. to \in UrlStates \cup {"s_dead"} /\ "s_dead" \notin UrlStates /\ UrlStates \subseteq States
  BY UrlTargets DEF UrlTo, States, Lasting, Lines, UrlStates, UrlEnds
<1>3. SUFFICES ASSUME ~(Failed(q) /\ (Crowded(p) \/ to = "s_dead"))
               PROVE  to \in UrlStates /\ Got(p, q, {}, to, {"url"}, {"url"}, {})
  OBVIOUS
<1>4. PICK c : /\ Turned(p, c) /\ Transition(c, ch) \in Parser /\ Like(Transition(c, ch), q, {})
               /\ q.data = Transition(c, ch).marks
  BY <1>1, <1>3, ReadOutside
<1>5. c \in Parser /\ c.state = p.state /\ c.marks = p.marks /\ c.calls = {} /\ c.method = p.method
  BY <1>4, TurnedIs
<1> DEFINE n == IF p.state = "s_req_spaces_before_url" THEN MARK(c, "url") ELSE c
           t == IF to # "s_dead" THEN Go(n, to) ELSE Fail(n, "INVALID_URL")
<1>6. Transition(c, ch) = t
  <2>1. Transition(c, ch) = Url(c, ch)
    BY <1>5, HandlerOf
  <2>2. Url(c, ch) = t
    BY <1>5 DEF Url, UrlTo
  <2>3. QED
    BY <2>1, <2>2
<1>7. Like(c, n, {"marks"}) /\ n.marks = {"url"}
  <2>1. "url" \in Data
    BY DEF Data
  <2>2. CASE p.state = "s_req_spaces_before_url"
    BY <1>5, <2>1, <2>2, MarkSets DEF UrlStates, UrlEnds
  <2>3. CASE p.state # "s_req_spaces_before_url"
    BY <1>5, <2>3 DEF Like
  <2>4. QED
    BY <2>2, <2>3
<1> HIDE DEF n
<1>8. to # "s_dead"
  <2>1. CASE to = "s_dead"
    <3>1. Failed(t)
      BY <1>7, <2>1, Fails DEF Like, Failed, Errnos
    <3>2. QED
      BY <1>3, <1>4, <1>6, <2>1, <3>1 DEF Like, Failed
  <2>2. QED
    BY <2>1
<1>9. to \in UrlStates /\ Like(n, t, {"state"}) /\ t.state = to
  BY <1>2, <1>7, <1>8, Goes DEF Like
<1> HIDE DEF t, q, to
<1>10. /\ Like(c, t, {} \cup {"state", "marks", "calls"})
       /\ t.marks = {"url"} /\ t.calls = {}
  BY <1>5, <1>7, <1>9 DEF Like
<1>11. Like(t, q, {}) /\ q.data = t.marks
  BY <1>4, <1>6
<1>12. Got(p, q, {}, t.state, t.marks, q.data, t.calls)
  BY <1>1, <1>4, <1>10, <1>11, GotBy
<1>13. QED
  BY <1>9, <1>10, <1>11, <1>12

(* The blank after a url. *)
LEMMA ReadUrlEnd ==
    ASSUME NEW p, Sound(p), ~Stopped(p), p.state \in UrlStates, p.marks = {"url"}
    PROVE  LET q == Read(p, SPACE)
           IN  \/ Failed(q) /\ (Crowded(p) \/ p.state \notin UrlEnds)
               \/ Got(p, q, {}, "s_req_http_start", {}, {}, {})
<1> DEFINE q == Read(p, SPACE)
<1>1. p.passed = 0 /\ p.state \notin ChunkStates /\ p.state # "s_body_identity"
  BY Outside DEF Loops, ChunkStates, UrlStates, UrlEnds
<1>2. SUFFICES ASSUME ~(Failed(q) /\ (Crowded(p) \/ p.state \notin UrlEnds))
               PROVE  Got(p, q, {}, "s_req_http_start", {}, {}, {})
  OBVIOUS
<1>3. PICK c : /\ Turned(p, c) /\ Transition(c, SPACE) \in Parser
               /\ Like(Transition(c, SPACE), q, {}) /\ q.data = Transition(c, SPACE).marks
  BY <1>1, <1>2, ReadOutside
<1>4. c \in Parser /\ c.state = p.state /\ c.marks = {"url"} /\ c.calls = {}
  BY <1>3, TurnedIs
<1>5. Transition(c, SPACE) = Url(c, SPACE)
  BY <1>4, HandlerOf
<1>6. parse_url_char(p.state, SPACE) = "s_dead"
  <2>1. SPACE \notin ALPHA \cup IS_URL_CHAR \cup IS_USERINFO_CHAR
    <3>1. ALPHA \subseteq TOKEN
      BY DEF TOKEN
    <3>2. SPACE # ":"
      BY DEF SPACE
    <3>3. QED
      BY <3>1, <3>2, LettersAssumption
  <2>2. \A n \in UrlMoves : SPACE \notin n[2]
    <3>1. SPACE \notin {"/", "*", ":", "?", "@", "[", "]", "#"}
      BY DEF SPACE
    <3>2. QED
      BY <2>1, <3>1 DEF UrlMoves
  <2>3. QED
    BY <2>2 DEF parse_url_char
<1>7. p.state \in UrlEnds
  <2>1. CASE p.state \notin UrlEnds
    <3>1. Url(c, SPACE) = Fail(c, "INVALID_URL")
      BY <1>4, <1>6, <2>1 DEF Url, UrlStates, UrlEnds, SPACE
    <3>2. Failed(Fail(c, "INVALID_URL"))
      BY <1>4, Fails DEF Failed, Errnos
    <3>3. QED
      BY <1>2, <1>3, <1>5, <2>1, <3>1, <3>2 DEF Like, Failed
  <2>2. QED
    BY <2>1
<1> DEFINE n == Go(c, "s_req_http_start")
           t == CALLBACK_DATA(n, "url")
<1>8. Transition(c, SPACE) = t
  <2>1. c.state \in UrlEnds /\ c.state # "s_req_spaces_before_url"
    BY <1>4, <1>7 DEF UrlEnds
  <2>2. Url(c, SPACE) = t
    <3>1. parse_url_char(c.state, SPACE) = "s_dead"
      BY <1>4, <1>6
    <3>2. SPACE # CR /\ SPACE # LF
      BY DEF SPACE, CR, LF
    <3>3. QED
      BY <2>1, <3>1, <3>2, Zenon DEF Url
  <2>3. QED
    BY <1>5, <2>2
<1>9. "s_req_http_start" \in States /\ "url" \in Data
  BY DEF States, Lasting, Lines, Data
<1>10. Like(c, n, {"state"}) /\ n.state = "s_req_http_start"
  BY <1>4, <1>9, Goes
<1>11. Like(n, t, {"marks"}) /\ t.marks = n.marks \ {"url"}
  BY <1>9, <1>10, DataGiven DEF Like
<1> HIDE DEF n, t, q
<1>12. /\ Like(c, t, {} \cup {"state", "marks", "calls"})
       /\ t.marks = {} /\ t.calls = {} /\ t.state = "s_req_http_start"
  BY <1>4, <1>10, <1>11 DEF Like
<1>13. Like(t, q, {}) /\ q.data = t.marks
  BY <1>3, <1>8
<1>14. Got(p, q, {}, t.state, t.marks, q.data, t.calls)
  BY <1>1, <1>3, <1>12, <1>13, GotBy
<1>15. QED
  BY <1>12, <1>13, <1>14

(* The number that a state of the start line reads. *)
LEMMA NumberOf ==
    ASSUME NEW n \in Numbers, NEW s \in {n[2], n[3]}
    PROVE  (CHOOSE m \in Numbers : s \in {m[2], m[3]}) = n /\ s \in NumberStates
<1> DEFINE k == CHOOSE m \in Numbers : s \in {m[2], m[3]}
<1>1. k \in Numbers /\ s \in {k[2], k[3]}
  OBVIOUS
<1> HIDE DEF k
<1>2. n[2] # n[3] /\ \A m \in Numbers : {m[2], m[3]} \cap {n[2], n[3]} # {} => m = n
  BY DEF Numbers
<1>3. k = n
  BY <1>1, <1>2
<1>4. s \in NumberStates
  BY DEF NumberStates
<1>5. QED
  BY <1>3, <1>4 DEF k

(* A number's state has no move on a digit. *)
LEMMA NumberTurn ==
    ASSUME NEW n \in Numbers, NEW c \in Parser, c.state \in {n[2], n[3]}, NEW ch \in NUM
    PROVE  LET value == IF c.state = n[2] THEN Digit[ch] ELSE 10 * c[n[1]] + Digit[ch]
               q     == [Go(c, n[3]) EXCEPT ![n[1]] = value]
           IN  (c.state = "s_req_first_http_major" => ch # "0") /\ value <= 999 =>
                    Transition(c, ch) = q
<1>1. (CHOOSE m \in Numbers : c.state \in {m[2], m[3]}) = n /\ c.state \in NumberStates
  BY NumberOf
<1>2. ch \notin {".", SPACE, CR, LF}
  <2>1. NUM \subseteq TOKEN
    BY DEF TOKEN
  <2>2. SPACE # ":" /\ CR # ":" /\ LF # ":"
    BY DEF SPACE, CR, LF
  <2>3. ch # "."
    BY LettersAssumption
  <2>4. QED
    BY <2>1, <2>2, <2>3, LettersAssumption
<1>3. Moved(c.state, ch) = {}
  BY <1>1, <1>2, NumberStatesAre DEF Moved, Moves
<1>4. Transition(c, ch) = Number(c, ch)
  BY <1>1, <1>3, NumberStatesAre DEF Transition, Handled, UrlStates, UrlEnds
<1> DEFINE value == IF c.state = n[2] THEN Digit[ch] ELSE 10 * c[n[1]] + Digit[ch]
           q     == [Go(c, n[3]) EXCEPT ![n[1]] = value]
<1>5. ASSUME c.state = "s_req_first_http_major" => ch # "0", value <= 999
      PROVE  Number(c, ch) = q
  <2>1. value \in Int
    <3>1. Digit[ch] \in Int
      BY Digits
    <3>2. c["http_major"] \in Int /\ c["http_minor"] \in Int /\ c["status_code"] \in Int
      BY DEF Parser
    <3>3. c[n[1]] \in Int
      BY <3>2, NumberFields
    <3>4. QED
      BY <3>1, <3>3
  <2>2. ~(value > 999)
    BY <1>5, <2>1
  <2> HIDE DEF value
  <2>3. Number(c, ch) = IF value > 999 THEN Fail(q, n[4]) ELSE q
    <3> DEFINE k == CHOOSE m \in Numbers : c.state \in {m[2], m[3]}
               v == IF c.state = k[2] THEN Digit[ch] ELSE 10 * c[k[1]] + Digit[ch]
               r == [Go(c, k[3]) EXCEPT ![k[1]] = v]
    <3>1. ch \in NUM /\ ~(c.state = "s_req_first_http_major" /\ ch = "0")
      BY <1>5
    <3>2. Number(c, ch) = IF v > 999 THEN Fail(r, k[4]) ELSE r
      BY <3>1, Zenon DEF Number
    <3>3. k = n
      BY <1>1
    <3> HIDE DEF k
    <3>4. QED
      BY <3>2, <3>3 DEF value
  <2>4. QED
    BY <2>2, <2>3
<1>6. QED
  BY <1>4, <1>5

(* The first digit of a version. *)
LEMMA ReadVersion ==
    ASSUME NEW p, Sound(p), ~Stopped(p), NEW n \in Numbers, n[1] \in {"http_major", "http_minor"},
           p.state = n[2]
    PROVE  LET q == Read(p, "1")
           IN  \/ Failed(q) /\ Crowded(p)
               \/ Got(p, q, {}, n[3], p.marks, p.marks, {})
<1> DEFINE q == Read(p, "1")
<1>1. p.passed = 0 /\ p.state \notin ChunkStates /\ p.state # "s_body_identity"
  <2>1. p.state \notin Loops /\ p.state \notin ChunkStates /\ p.state # "s_body_identity"
    BY DEF Loops, ChunkStates, Numbers
  <2>2. QED
    BY <2>1, Outside
<1>2. SUFFICES ASSUME ~(Failed(q) /\ Crowded(p))
               PROVE  Got(p, q, {}, n[3], p.marks, p.marks, {})
  OBVIOUS
<1>3. PICK c : /\ Turned(p, c) /\ Transition(c, "1") \in Parser
               /\ Like(Transition(c, "1"), q, {}) /\ q.data = Transition(c, "1").marks
  BY <1>1, <1>2, ReadOutside
<1>4. c \in Parser /\ c.state = p.state /\ c.marks = p.marks /\ c.calls = {}
  BY <1>3, TurnedIs
<1> DEFINE g == Go(c, n[3])
           t == [g EXCEPT ![n[1]] = 1]
<1>5. Transition(c, "1") = t
  <2>1. Digit["1"] = 1 /\ "1" \in NUM /\ "1" # "0" /\ c.state \in {n[2], n[3]} /\ c.state = n[2]
    BY <1>4, LettersAssumption
  <2>2. LET value == IF c.state = n[2] THEN Digit["1"] ELSE 10 * c[n[1]] + Digit["1"]
        IN  value <= 999 => Transition(c, "1") = [Go(c, n[3]) EXCEPT ![n[1]] = value]
    BY <1>4, <2>1, NumberTurn
  <2>3. QED
    BY <2>1, <2>2
<1>6. t \in Parser /\ n[3] \in States
  BY <1>3, <1>5, NumberFields DEF States, Lasting
<1>7. Like(c, g, {"state"}) /\ g.state = n[3]
  BY <1>4, <1>6, Goes
<1> HIDE DEF g
<1>8. Like(g, t, {}) /\ t.state = g.state
  <2>1. CASE n[1] = "http_major"
    <3>1. t = [g EXCEPT !.http_major = 1]
      BY <2>1
    <3> HIDE DEF t
    <3>2. QED
      BY <1>6, <1>7, <3>1 DEF Like, Parser
  <2>2. CASE n[1] = "http_minor"
    <3>1. t = [g EXCEPT !.http_minor = 1]
      BY <2>2
    <3> HIDE DEF t
    <3>2. QED
      BY <1>6, <1>7, <3>1 DEF Like, Parser
  <2>3. QED
    BY <2>1, <2>2
<1> HIDE DEF t, q
<1>9. Like(c, t, {} \cup {"state", "marks", "calls"}) /\ t.marks = c.marks /\ t.calls = c.calls
  BY <1>7, <1>8 DEF Like
<1>10. Like(t, q, {}) /\ q.data = t.marks
  BY <1>3, <1>5
<1>11. Got(p, q, {}, t.state, t.marks, q.data, t.calls)
  BY <1>1, <1>3, <1>9, <1>10, GotBy
<1>12. QED
  BY <1>4, <1>7, <1>8, <1>9, <1>10, <1>11

(* A status with one more digit. *)
StatusWith(p, ch) ==
    IF p.state = "s_res_first_status_code" THEN Digit[ch] ELSE 10 * p.status_code + Digit[ch]

(* A digit of the status. *)
LEMMA ReadStatus ==
    ASSUME NEW p, Sound(p), ~Stopped(p), NEW ch \in NUM,
           p.state \in {"s_res_first_status_code", "s_res_status_code"}, NEW v,
           v = StatusWith(p, ch),
           v <= 999
    PROVE  LET q == Read(p, ch)
           IN  \/ Failed(q) /\ Crowded(p)
               \/ /\ Got(p, q, {"status_code"}, "s_res_status_code", p.marks, p.marks, {})
                  /\ q.status_code = v
<1> DEFINE q == Read(p, ch)
           n == <<"status_code", "s_res_first_status_code", "s_res_status_code", "INVALID_STATUS">>
<1>1. p.passed = 0 /\ p.state \notin ChunkStates /\ p.state # "s_body_identity"
  BY Outside DEF Loops, ChunkStates
<1>2. SUFFICES ASSUME ~(Failed(q) /\ Crowded(p))
               PROVE  /\ Got(p, q, {"status_code"}, "s_res_status_code", p.marks, p.marks, {})
                      /\ q.status_code = v
  OBVIOUS
<1>3. PICK c : /\ Turned(p, c) /\ Transition(c, ch) \in Parser
               /\ Like(Transition(c, ch), q, {}) /\ q.data = Transition(c, ch).marks
  BY <1>1, <1>2, ReadOutside, ZenonT(40)
<1>4. /\ c \in Parser /\ c.state = p.state /\ c.marks = p.marks /\ c.calls = {}
      /\ c.status_code = p.status_code
  BY <1>3, TurnedIs
<1> DEFINE g == Go(c, "s_res_status_code")
           t == [g EXCEPT !["status_code"] = v]
<1>5. Transition(c, ch) = t
  <2>1. n \in Numbers /\ n[1] = "status_code" /\ n[2] = "s_res_first_status_code"
        /\ n[3] = "s_res_status_code" /\ c.state \in {n[2], n[3]}
    BY <1>4 DEF Numbers
  <2>2. c.state # "s_req_first_http_major"
    BY <1>4
  <2> HIDE DEF n
  <2>3. v = IF c.state = n[2] THEN Digit[ch] ELSE 10 * c[n[1]] + Digit[ch]
    BY <1>4, <2>1 DEF StatusWith
  <2>4. LET value == IF c.state = n[2] THEN Digit[ch] ELSE 10 * c[n[1]] + Digit[ch]
        IN  value <= 999 => Transition(c, ch) = [Go(c, n[3]) EXCEPT ![n[1]] = value]
    BY <1>4, <2>1, <2>2, NumberTurn
  <2>5. QED
    BY <2>1, <2>3, <2>4
<1>6. t \in Parser /\ "s_res_status_code" \in States
  BY <1>3, <1>5 DEF States, Lasting, Lines
<1>7. Like(c, g, {"state"}) /\ g.state = "s_res_status_code"
  BY <1>4, <1>6, Goes
<1> HIDE DEF g
<1>8. Like(g, t, {"status_code"}) /\ t.state = g.state /\ t.status_code = v
  BY <1>6, <1>7 DEF Like, Parser
<1> HIDE DEF t, q
<1>9. /\ Like(c, t, {"status_code"} \cup {"state", "marks", "calls"})
      /\ t.marks = c.marks /\ t.calls = c.calls
  BY <1>7, <1>8 DEF Like
<1>10. Like(t, q, {}) /\ q.data = t.marks
  BY <1>3, <1>5
<1>11. Got(p, q, {"status_code"}, t.state, t.marks, q.data, t.calls)
  BY <1>1, <1>3, <1>9, <1>10, GotBy
<1>12. QED
  BY <1>4, <1>7, <1>8, <1>9, <1>10, <1>11 DEF Like

(* The reason phrase: its first byte, any other, and the end of its line. *)
LEMMA ReadReason ==
    ASSUME NEW p, Sound(p), ~Stopped(p), NEW ch \in {"O", "K", LF},
           \/ p.state = "s_res_status_start" /\ p.marks = {} /\ ch # LF
           \/ p.state = "s_res_status" /\ p.marks = {"status"}
    PROVE  LET q == Read(p, ch)
           IN  \/ Failed(q) /\ Crowded(p)
               \/ ch # LF /\ Got(p, q, {"index"}, "s_res_status", {"status"}, {"status"}, {})
               \/ ch = LF /\ Got(p, q, {"index"}, "s_header_field_start", {}, {}, {})
<1> DEFINE q == Read(p, ch)
<1>1. p.passed = 0 /\ p.state \notin ChunkStates /\ p.state # "s_body_identity"
  BY Outside DEF Loops, ChunkStates
<1>2. SUFFICES ASSUME ~(Failed(q) /\ Crowded(p))
               PROVE  \/ ch # LF /\ Got(p, q, {"index"}, "s_res_status", {"status"}, {"status"}, {})
                      \/ ch = LF /\ Got(p, q, {"index"}, "s_header_field_start", {}, {}, {})
  OBVIOUS
<1>3. PICK c : /\ Turned(p, c) /\ Transition(c, ch) \in Parser /\ Like(Transition(c, ch), q, {})
               /\ q.data = Transition(c, ch).marks
  BY <1>1, <1>2, ReadOutside
<1>4. c \in Parser /\ c.state = p.state /\ c.marks = p.marks /\ c.calls = {}
  BY <1>3, TurnedIs
<1>5. "s_res_status" \in States /\ "s_header_field_start" \in States /\ "status" \in Data /\ 0 \in 0 .. 17
  BY DEF States, Lasting, Lines, Heads, Data
<1> DEFINE t == Transition(c, ch)
           s == IF ch # LF THEN "s_res_status" ELSE "s_header_field_start"
           marks == IF ch # LF THEN {"status"} ELSE {}
<1>6. Like(c, t, {"index", "state", "marks"}) /\ t.state = s /\ t.marks = marks
  <2>1. CASE p.state = "s_res_status_start"
    <3> DEFINE g == Go(c, "s_res_status")
               h == [g EXCEPT !.index = 0]
    <3>1. Like(c, g, {"state"}) /\ g.state = "s_res_status"
      BY <1>4, <1>5, Goes
    <3>2. t = MARK(h, "status")
      <4>1. Moved(c.state, ch) = {}
        BY <1>4, <2>1 DEF Moved, Moves, LF, CR
      <4>2. QED
        BY <1>4, <2>1, <4>1, NumberStatesAre DEF Transition, Handled, UrlStates, UrlEnds
    <3> HIDE DEF g
    <3>3. h \in Parser
      BY <1>5, <3>1, Put DEF Like
    <3>4. Like(g, h, {"index"}) /\ h.state = g.state /\ h.marks = g.marks
      BY <3>1, <3>3 DEF Like, Parser
    <3> HIDE DEF h
    <3>5. Like(h, MARK(h, "status"), {"marks"}) /\ MARK(h, "status").marks = h.marks \cup {"status"}
      BY <1>5, <3>3, MarkSets
    <3>6. ch # LF /\ h.marks = {}
      BY <1>4, <2>1, <3>1, <3>4 DEF Like
    <3> HIDE DEF t
    <3>7. QED
      BY <3>1, <3>2, <3>4, <3>5, <3>6 DEF Like
  <2>2. CASE p.state = "s_res_status" /\ ch = LF
    <3> DEFINE g == Go(c, "s_header_field_start")
               h == CALLBACK_DATA(g, "status")
    <3>1. Like(c, g, {"state"}) /\ g.state = "s_header_field_start"
      BY <1>4, <1>5, Goes
    <3>2. t = h
      BY <1>4, <2>2, HandlerOf DEF ReasonPhrase, LF, CR
    <3> HIDE DEF g
    <3>3. Like(g, h, {"marks"}) /\ h.marks = g.marks \ {"status"}
      BY <1>5, <3>1, DataGiven DEF Like
    <3> HIDE DEF h, t
    <3>4. QED
      BY <1>4, <2>2, <3>1, <3>2, <3>3 DEF Like
  <2>3. CASE p.state = "s_res_status" /\ ch # LF
    <3>1. t = c
      BY <1>4, <2>3, HandlerOf DEF ReasonPhrase, CR
    <3>2. QED
      BY <1>4, <2>3, <3>1 DEF Like
  <2>4. QED
    BY <2>1, <2>2, <2>3
<1> HIDE DEF t, q
<1>7. Like(c, t, {"index"} \cup {"state", "marks", "calls"}) /\ t.calls = {}
  BY <1>4, <1>6 DEF Like
<1>8. Like(t, q, {}) /\ q.data = t.marks
  BY <1>3 DEF t
<1>9. Got(p, q, {"index"}, t.state, t.marks, q.data, t.calls)
  BY <1>1, <1>3, <1>7, <1>8, GotBy DEF t
<1>10. QED
  BY <1>6, <1>7, <1>8, <1>9

(* The flags when the line of a header has ended. *)
LineFlags(p) == IF p.state = "s_header_field_start" THEN p.flags ELSE Flagged(p).flags

(* An empty value has not been given yet. *)
LateCalls(p) == IF p.state = "s_header_value_discard_lws" THEN {"header_value"} ELSE {}

(* However the last line ended, the next begins in the same way. *)
LEMMA LineBegins ==
    ASSUME NEW c \in Parser, c.state \in LineStates, c.calls = {}, NEW ch, ch \notin {SPACE, TAB}
    PROVE  \E r : /\ Transition(c, ch) = HeaderFieldStart(r, ch)
                  /\ Like(c, r, {"state", "flags", "calls"})
                  /\ r.flags = LineFlags(c) /\ r.calls = LateCalls(c)
<1> DEFINE f == Flagged(c)
           g == Go(f, "s_header_field_start")
           h == Call(g, "header_value")
<1>1. Like(c, f, {"flags"})
  BY FlaggedSets
<1>2. "s_header_field_start" \in States /\ "header_value" \in Calls
  BY DEF States, Lasting, Heads, Calls
<1> HIDE DEF f
<1>3. Like(f, g, {"state"})
  BY <1>1, <1>2, Goes DEF Like
<1> HIDE DEF g
<1>4. Like(g, h, {"calls"}) /\ h.calls = g.calls \cup {"header_value"}
  BY <1>2, <1>3, CallNotes DEF Like
<1>5. CASE c.state = "s_header_field_start"
  <2>1. Transition(c, ch) = HeaderFieldStart(c, ch)
    <3>1. CASE ch # CR
      BY <1>5, <3>1, HandlerOf
    <3>2. CASE ch = CR
      <4> DEFINE m == <<"s_header_field_start", CR, "s_headers_almost_done">>
      <4>1. Moved(c.state, ch) = {m} /\ m[3] = "s_headers_almost_done"
        BY <1>5, <3>2 DEF Moved, Moves, CR
      <4>2. (CHOOSE x \in {m} : TRUE) = m
        OBVIOUS
      <4> HIDE DEF m
      <4>3. Transition(c, ch) = Go(c, "s_headers_almost_done")
        BY <4>1, <4>2 DEF Transition
      <4>4. CR # LF /\ CR \notin TOKEN
        <5>1. CR # ":" /\ CR # LF
          BY DEF CR, LF
        <5>2. QED
          BY <5>1, LettersAssumption
      <4>5. QED
        BY <3>2, <4>3, <4>4 DEF HeaderFieldStart
    <3>3. QED
      BY <3>1, <3>2
  <2>2. Like(c, c, {"state", "flags", "calls"})
    BY DEF Like
  <2>3. QED
    BY <1>5, <2>1, <2>2 DEF LineFlags, LateCalls
<1>6. CASE c.state = "s_header_value_lws"
  <2>1. Transition(c, ch) = HeaderFieldStart(g, ch)
    BY <1>6, HandlerOf DEF HeaderValueLws, f, g
  <2>2. Like(c, g, {"state", "flags", "calls"}) /\ g.flags = f.flags /\ g.calls = {}
    BY <1>1, <1>3 DEF Like
  <2>3. QED
    BY <1>6, <2>1, <2>2 DEF LineFlags, LateCalls, f
<1>7. CASE c.state = "s_header_value_discard_lws"
  <2>1. Transition(c, ch) = HeaderFieldStart(h, ch)
    BY <1>7, HandlerOf DEF HeaderValueDiscardLws, f, g
  <2>2. Like(c, h, {"state", "flags", "calls"}) /\ h.flags = f.flags /\ h.calls = {"header_value"}
    BY <1>1, <1>3, <1>4 DEF Like
  <2> HIDE DEF h
  <2>3. QED
    BY <1>7, <2>1, <2>2 DEF LineFlags, LateCalls, f
<1>8. QED
  BY <1>5, <1>6, <1>7 DEF LineStates

(* Counting a byte leaves the promises of a line as they are. *)
LEMMA LineFlagsSame ==
    ASSUME NEW p \in Parser, NEW c, Turned(p, c)
    PROVE  LineFlags(c) = LineFlags(p) /\ LateCalls(c) = LateCalls(p)
<1>1. c \in Parser /\ c.state = p.state /\ c.header_state = p.header_state /\ c.flags = p.flags
  BY TurnedIs
<1>2. Flagged(c).flags = Flagged(p).flags
  <2>1. \A f : Flag(c, f).flags = c.flags \cup {f} /\ Flag(p, f).flags = p.flags \cup {f}
    BY <1>1 DEF Flag, Parser
  <2>2. QED
    BY <1>1, <2>1 DEF Flagged
<1>3. QED
  BY <1>1, <1>2 DEF LineFlags, LateCalls

(* The first byte of a name. *)
LEMMA ReadNameFirst ==
    ASSUME NEW p, Sound(p), ~Stopped(p), p.state \in LineStates, p.marks = {}, NEW ch \in TOKEN
    PROVE  LET q == Read(p, ch)
           IN  \/ Failed(q) /\ Crowded(p)
               \/ /\ Got(p, q, {"header_state", "index", "flags"}, "s_header_field", {"header_field"},
                         {"header_field"}, LateCalls(p))
                  /\ q.header_state = FirstLetter(Lowered(ch)) /\ q.index = 0
                  /\ q.flags = LineFlags(p)
<1> DEFINE q == Read(p, ch)
           D == {"header_state", "index", "flags"}
<1>1. p.passed = 0 /\ p.state \notin ChunkStates /\ p.state # "s_body_identity" /\ p \in Parser
  BY Outside DEF Loops, ChunkStates, LineStates, Sound
<1>2. SUFFICES ASSUME ~(Failed(q) /\ Crowded(p))
               PROVE  /\ Got(p, q, D, "s_header_field", {"header_field"}, {"header_field"}, LateCalls(p))
                      /\ q.header_state = FirstLetter(Lowered(ch)) /\ q.index = 0
                      /\ q.flags = LineFlags(p)
  OBVIOUS
<1>3. PICK c : /\ Turned(p, c) /\ Transition(c, ch) \in Parser /\ Like(Transition(c, ch), q, {})
               /\ q.data = Transition(c, ch).marks
  BY <1>1, <1>2, ReadOutside
<1>4. c \in Parser /\ c.state = p.state /\ c.marks = {} /\ c.calls = {}
  BY <1>3, TurnedIs
<1>5. ch \notin {SPACE, TAB, CR, LF}
  <2>1. SPACE # ":" /\ TAB # ":" /\ CR # ":" /\ LF # ":"
    BY DEF SPACE, TAB, CR, LF
  <2>2. QED
    BY <2>1, LettersAssumption
<1>6. PICK r : /\ Transition(c, ch) = HeaderFieldStart(r, ch)
               /\ Like(c, r, {"state", "flags", "calls"})
               /\ r.flags = LineFlags(c) /\ r.calls = LateCalls(c)
  BY <1>4, <1>5, LineBegins
<1> DEFINE g == Go(r, "s_header_field")
           k == MARK(g, "header_field")
           t == [k EXCEPT !.index = 0, !.header_state = FirstLetter(Lowered(ch))]
<1>7. "s_header_field" \in States /\ "header_field" \in Data
  BY DEF States, Lasting, Heads, Data
<1>8. Like(r, g, {"state"}) /\ g.state = "s_header_field"
  BY <1>6, <1>7, Goes DEF Like
<1>9. Transition(c, ch) = t
  BY <1>5, <1>6 DEF HeaderFieldStart
<1> HIDE DEF g
<1>10. Like(g, k, {"marks"}) /\ k.marks = g.marks \cup {"header_field"}
  BY <1>7, <1>8, MarkSets DEF Like
<1> HIDE DEF k
<1>11. t \in Parser
  BY <1>3, <1>9
<1>12. /\ Like(k, t, {"index", "header_state"}) /\ t.index = 0
       /\ t.header_state = FirstLetter(Lowered(ch))
  BY <1>10, <1>11 DEF Like, Parser
<1> HIDE DEF t, q
<1>13. /\ Like(c, t, D \cup {"state", "marks", "calls"}) /\ t.marks = {"header_field"}
       /\ t.state = "s_header_field" /\ t.flags = LineFlags(c) /\ t.calls = LateCalls(c)
  BY <1>4, <1>6, <1>8, <1>10, <1>12 DEF Like
<1>14. Like(t, q, {}) /\ q.data = t.marks
  BY <1>3, <1>9
<1>15. Got(p, q, D, t.state, t.marks, q.data, t.calls)
  BY <1>1, <1>3, <1>13, <1>14, GotBy
<1>16. LineFlags(c) = LineFlags(p) /\ LateCalls(c) = LateCalls(p)
  BY <1>1, <1>3, LineFlagsSame
<1>17. QED
  BY <1>12, <1>13, <1>14, <1>15, <1>16 DEF Like

(* The end of the headers begins. *)
LEMMA ReadHeadersEnd ==
    ASSUME NEW p, Sound(p), ~Stopped(p), p.state \in LineStates, p.marks = {}
    PROVE  LET q == Read(p, CR)
           IN  \/ Failed(q) /\ Crowded(p)
               \/ /\ Got(p, q, {"flags"}, "s_headers_almost_done", {}, {}, LateCalls(p))
                  /\ q.flags = LineFlags(p)
<1> DEFINE q == Read(p, CR)
<1>1. p.passed = 0 /\ p.state \notin ChunkStates /\ p.state # "s_body_identity" /\ p \in Parser
  BY Outside DEF Loops, ChunkStates, LineStates, Sound
<1>2. SUFFICES ASSUME ~(Failed(q) /\ Crowded(p))
               PROVE  /\ Got(p, q, {"flags"}, "s_headers_almost_done", {}, {}, LateCalls(p))
                      /\ q.flags = LineFlags(p)
  OBVIOUS
<1>3. PICK c : /\ Turned(p, c) /\ Transition(c, CR) \in Parser /\ Like(Transition(c, CR), q, {})
               /\ q.data = Transition(c, CR).marks
  BY <1>1, <1>2, ReadOutside
<1>4. c \in Parser /\ c.state = p.state /\ c.marks = {} /\ c.calls = {}
  BY <1>3, TurnedIs
<1>5. CR \notin {SPACE, TAB, LF} /\ CR \notin TOKEN
  <2>1. CR # ":" /\ CR \notin {SPACE, TAB, LF}
    BY DEF CR, LF, SPACE, TAB
  <2>2. QED
    BY <2>1, LettersAssumption
<1>6. PICK r : /\ Transition(c, CR) = HeaderFieldStart(r, CR)
               /\ Like(c, r, {"state", "flags", "calls"})
               /\ r.flags = LineFlags(c) /\ r.calls = LateCalls(c)
  BY <1>4, <1>5, LineBegins
<1> DEFINE t == Go(r, "s_headers_almost_done")
<1>7. "s_headers_almost_done" \in States
  BY DEF States, Lasting, Heads
<1>8. Like(r, t, {"state"}) /\ t.state = "s_headers_almost_done"
  BY <1>6, <1>7, Goes DEF Like
<1>9. Transition(c, CR) = t
  BY <1>5, <1>6 DEF HeaderFieldStart
<1> HIDE DEF t, q
<1>10. /\ Like(c, t, {"flags"} \cup {"state", "marks", "calls"}) /\ t.marks = {}
       /\ t.flags = LineFlags(c) /\ t.calls = LateCalls(c)
  BY <1>4, <1>6, <1>8 DEF Like
<1>11. Like(t, q, {}) /\ q.data = t.marks
  BY <1>3, <1>9
<1>12. Got(p, q, {"flags"}, t.state, t.marks, q.data, t.calls)
  BY <1>1, <1>3, <1>10, <1>11, GotBy
<1>13. LineFlags(c) = LineFlags(p) /\ LateCalls(c) = LateCalls(p)
  BY <1>1, <1>3, LineFlagsSame
<1>14. QED
  BY <1>8, <1>10, <1>11, <1>12, <1>13 DEF Like

(* What the bytes of an inner loop come to. *)
LEMMA LoopEndCounts ==
    ASSUME NEW p, p \in Parser, NEW c, Turned(p, c)
    PROVE  LET q == LoopEnd(c)
           IN  /\ Like(c, q, {"nread", "http_errno", "passed", "skipping"})
               /\ q.passed = 0 /\ q.skipping = FALSE /\ Load(q) <= Load(p) + 1
               /\ Failed(q) => Crowded(p)
<1> DEFINE k == COUNT_HEADER_SIZE(c, c.passed)
           q == LoopEnd(c)
<1>1. c \in Parser /\ ~Failed(c) /\ c.passed = p.passed /\ c.passed \in 0 .. MaxCount
  BY TurnedIs DEF Failed, Parser
<1>2. k.nread <= c.nread + c.passed /\ (Failed(k) => c.nread + c.passed > HTTP_MAX_HEADER_SIZE)
  BY <1>1, CountsOne
<1>3. k \in Parser
  BY <1>1, Counts DEF Like
<1>4. q = [k EXCEPT !.passed = 0, !.skipping = FALSE]
  BY DEF LoopEnd
<1>5. /\ Like(c, q, {"nread", "http_errno", "passed", "skipping"})
      /\ q.passed = 0 /\ q.skipping = FALSE
  BY <1>1, LoopEnds
<1> HIDE DEF k, q
<1>6. q.nread = k.nread /\ (Failed(q) <=> Failed(k))
  BY <1>3, <1>4, <1>5 DEF Failed, Like, Parser
<1>7. c.nread <= p.nread + (IF p.passed = 0 THEN 1 ELSE 0)
  BY DEF Turned
<1>8. /\ p.nread \in Int /\ p.passed \in Int /\ p.passed >= 0 /\ c.nread \in Int /\ k.nread \in Int
      /\ HTTP_MAX_HEADER_SIZE \in Int
  BY <1>1, <1>3, ParserAssumption DEF Parser
<1>9. Load(q) <= Load(p) + 1 /\ (Failed(q) => Crowded(p))
  BY <1>1, <1>2, <1>5, <1>6, <1>7, <1>8 DEF Load, Crowded
<1>10. QED
  BY <1>5, <1>9 DEF q

(* Another byte of an inner loop is counted where the loop ends. *)
LEMMA LoopByteCounts ==
    ASSUME NEW p, p \in Parser, NEW c, Turned(p, c), NEW t, Like(c, t, {"header_state", "index",
               "flags", "content_length", "skipping", "http_errno"})
    PROVE  LET q == [t EXCEPT !.passed = Capped(t.passed + 1)]
           IN  Like(t, q, {"passed"}) /\ Load(q) <= Load(p) + 1
<1> DEFINE n == Capped(t.passed + 1)
           q == [t EXCEPT !.passed = n]
<1>1. c \in Parser /\ c.passed = p.passed /\ t \in Parser /\ t.passed = p.passed /\ t.nread = c.nread
  BY TurnedIs DEF Like
<1>2. n \in 0 .. MaxCount /\ n <= t.passed + 1 /\ n >= 1
  BY <1>1, ParserAssumption DEF Capped, Parser
<1>3. q \in Parser
  BY <1>1, <1>2, Put
<1>4. q.passed = n /\ q.nread = t.nread /\ Like(t, q, {"passed"})
  BY <1>1, <1>3 DEF Like, Parser
<1> HIDE DEF n, q
<1>5. c.nread <= p.nread + (IF p.passed = 0 THEN 1 ELSE 0)
  BY DEF Turned
<1>6. p.nread \in Int /\ p.passed \in Int /\ p.passed >= 0 /\ c.nread \in Int /\ n \in Int
  BY <1>1, <1>2 DEF Parser
<1>7. Load(q) <= Load(p) + 1
  BY <1>1, <1>2, <1>4, <1>5, <1>6 DEF Load
<1>8. QED
  BY <1>4, <1>7 DEF q, n

(* Another byte of a name. *)
LEMMA ReadName ==
    ASSUME NEW p, Sound(p), ~Stopped(p), p.state = "s_header_field", p.marks = {"header_field"},
           NEW ch \in TOKEN
    PROVE  LET q == Read(p, ch)
           IN  \/ Failed(q) /\ Crowded(p)
               \/ /\ Got(p, q, {"header_state", "index", "passed"}, "s_header_field",
                         {"header_field"}, {"header_field"}, {})
                  /\ \E c : /\ Turned(p, c) /\ c.header_state \in FieldHeaders /\ Indexed(c)
                            /\ q.header_state = FieldByte(c, Lowered(ch)).header_state
                            /\ q.index = FieldByte(c, Lowered(ch)).index
<1> DEFINE q == Read(p, ch)
           D == {"header_state", "index", "passed"}
<1>1. p.state \notin ChunkStates /\ p.state # "s_body_identity" /\ p \in Parser
  BY DEF ChunkStates, Sound
<1>2. CASE ~(Failed(q) /\ Crowded(p))
  <2>1. PICK c : /\ Turned(p, c) /\ Transition(c, ch) \in Parser /\ Like(Transition(c, ch), q, {})
                 /\ q.data = Transition(c, ch).marks
    BY <1>1, <1>2, ReadOutside
  <2>2. c \in Parser /\ c.state = "s_header_field" /\ c.marks = {"header_field"} /\ c.calls = {}
    BY <2>1, TurnedIs
  <2> DEFINE f == FieldByte(c, Lowered(ch))
             t == [f EXCEPT !.passed = Capped(f.passed + 1)]
  <2>3. Transition(c, ch) = t
    <3>1. Transition(c, ch) = HeaderField(c, ch)
      BY <2>2, HandlerOf
    <3>2. HeaderField(c, ch) = t
      BY Zenon DEF HeaderField
    <3>3. QED
      BY <3>1, <3>2
  <2>4. c.header_state \in FieldHeaders /\ Indexed(c)
    BY <2>1, <2>2 DEF Turned, Sound, Matching, Loops
  <2>5. Like(c, f, {"header_state", "index"})
    BY <2>2, <2>4, FieldBytes
  <2>6. Like(f, t, {"passed"}) /\ Load(t) <= Load(p) + 1
    <3>1. Like(c, f, {"header_state", "index", "flags", "content_length", "skipping", "http_errno"})
      BY <2>5 DEF Like
    <3> HIDE DEF f
    <3>2. QED
      BY <1>1, <2>1, <3>1, LoopByteCounts
  <2> HIDE DEF t, f, q
  <2>7. Like(t, q, {}) /\ q.data = t.marks
    BY <2>1, <2>3
  <2>8. Load(q) = Load(t)
    BY <2>7 DEF Like, Load
  <2>9. Got(p, q, D, "s_header_field", {"header_field"}, {"header_field"}, {})
    BY <2>1, <2>2, <2>5, <2>6, <2>7, <2>8 DEF Got, Like, Turned
  <2>10. q.header_state = f.header_state /\ q.index = f.index
    BY <2>6, <2>7 DEF Like
  <2>11. QED
    BY <2>1, <2>4, <2>9, <2>10 DEF f, q
<1>3. QED
  BY <1>2

(* The colon after a name. *)
LEMMA ReadNameEnd ==
    ASSUME NEW p, Sound(p), ~Stopped(p), p.state = "s_header_field", p.marks = {"header_field"}
    PROVE  LET q == Read(p, ":")
           IN  \/ Failed(q) /\ Crowded(p)
               \/ Got(p, q, {"passed", "skipping"}, "s_header_value_discard_ws", {}, {}, {})
<1> DEFINE q == Read(p, ":")
<1>1. p.state \notin ChunkStates /\ p.state # "s_body_identity" /\ p \in Parser
  BY DEF ChunkStates, Sound
<1>2. SUFFICES ASSUME ~(Failed(q) /\ Crowded(p))
               PROVE  Got(p, q, {"passed", "skipping"}, "s_header_value_discard_ws", {}, {}, {})
  OBVIOUS
<1>3. PICK c : /\ Turned(p, c) /\ Transition(c, ":") \in Parser /\ Like(Transition(c, ":"), q, {})
               /\ q.data = Transition(c, ":").marks
  BY <1>1, <1>2, ReadOutside
<1>4. /\ c \in Parser /\ c.state = "s_header_field" /\ c.marks = {"header_field"} /\ c.calls = {}
      /\ ~Failed(c)
  BY <1>3, TurnedIs DEF Failed
<1> DEFINE e == LoopEnd(c)
           g == Go(e, "s_header_value_discard_ws")
           h == CALLBACK_DATA(g, "header_field")
           t == IF Failed(e) THEN e ELSE h
<1>5. Transition(c, ":") = t
  <2>1. Transition(c, ":") = HeaderField(c, ":")
    BY <1>4, HandlerOf
  <2>2. ":" \notin TOKEN
    BY LettersAssumption
  <2>3. HeaderField(c, ":") = t
    BY <2>2, Zenon DEF HeaderField
  <2>4. QED
    BY <2>1, <2>3
<1>6. /\ Like(c, e, {"nread", "http_errno", "passed", "skipping"})
      /\ e.passed = 0 /\ e.skipping = FALSE /\ Load(e) <= Load(p) + 1
      /\ Failed(e) => Crowded(p)
  BY <1>1, <1>3, LoopEndCounts
<1>7. ~Failed(e)
  <2>1. CASE Failed(e)
    <3>1. Failed(q)
      BY <1>3, <1>5, <2>1 DEF Like, Failed
    <3>2. QED
      BY <1>2, <1>6, <2>1, <3>1
  <2>2. QED
    BY <2>1
<1>8. "s_header_value_discard_ws" \in States /\ "header_field" \in Data
  BY DEF States, Lasting, Heads, Data
<1> HIDE DEF e
<1>9. Like(e, g, {"state"}) /\ g.state = "s_header_value_discard_ws"
  BY <1>6, <1>8, Goes DEF Like
<1> HIDE DEF g
<1>10. Like(g, h, {"marks"}) /\ h.marks = g.marks \ {"header_field"}
  BY <1>8, <1>9, DataGiven DEF Like
<1> HIDE DEF h, q
<1>11. Like(h, q, {}) /\ q.data = h.marks
  BY <1>3, <1>5, <1>7
<1>12. e.http_errno = c.http_errno
  BY <1>4, <1>7 DEF Failed
<1>13. Load(q) = Load(e)
  BY <1>9, <1>10, <1>11 DEF Like, Load
<1>14. Like(p, c, {"calls", "nread"})
  BY <1>3 DEF Turned
<1>15. h.marks = {} /\ h.state = "s_header_value_discard_ws" /\ h.calls = {}
  BY <1>4, <1>6, <1>9, <1>10 DEF Like
<1>16. QED
  BY <1>6, <1>9, <1>10, <1>11, <1>12, <1>13, <1>14, <1>15 DEF Got, Like

(* A value begins. *)
LEMMA ValueStarts ==
    ASSUME NEW c \in Parser, c.http_errno = "OK", NEW ch, HeaderValueStart(c, ch) \in Parser
    PROVE  LET v == HeaderValueStart(c, ch)
           IN  /\ Like(c, v, {"state", "marks", "index", "header_state", "flags", "content_length",
                              "http_errno"})
               /\ v.state = "s_header_value" /\ v.marks = c.marks \cup {"header_value"} /\ v.index = 0
               /\ "TRAILING" \in v.flags <=> "TRAILING" \in c.flags
               /\ c.header_state = "h_content_length" /\ ~Failed(v) =>
                     /\ ch \in NUM /\ "CONTENTLENGTH" \notin c.flags /\ "CONTENTLENGTH" \in v.flags
                     /\ v.content_length = Digit[ch] /\ v.header_state = "h_content_length"
               /\ c.header_state = "h_content_length" /\ ch \in NUM /\ "CONTENTLENGTH" \notin c.flags =>
                     ~Failed(v)
               /\ c.header_state # "h_content_length" =>
                     ~Failed(v) /\ v.content_length = c.content_length
<1> DEFINE g == Go(c, "s_header_value")
           m == MARK(g, "header_value")
           q == [m EXCEPT !.index = 0]
           In(h) == [q EXCEPT !.header_state = h]
           u == Flag(In("h_general"), "UPGRADE")
           f == Flag(q, "CONTENTLENGTH")
           d == [f EXCEPT !.content_length = Digit[ch]]
           v == HeaderValueStart(c, ch)
           Kept(x) == /\ Like(q, x, {"header_state", "flags", "content_length", "http_errno"})
                      /\ "TRAILING" \in x.flags <=> "TRAILING" \in q.flags
           Free(x) == Kept(x) /\ ~Failed(x) /\ x.content_length = q.content_length
<1>1. "s_header_value" \in States /\ "header_value" \in Data /\ "h_general" \in Headers
      /\ "UPGRADE" \in Flags /\ "CONTENTLENGTH" \in Flags
  BY DEF States, Lasting, Heads, Data, Headers, ValueHeaders, Flags
<1>2. Like(c, g, {"state"}) /\ g.state = "s_header_value"
  BY <1>1, Goes
<1> HIDE DEF g
<1>3. Like(g, m, {"marks"}) /\ m.marks = g.marks \cup {"header_value"}
  BY <1>1, <1>2, MarkSets DEF Like
<1> HIDE DEF m
<1>4. q \in Parser
  BY <1>3, Values, Put, Zenon DEF Like
<1>5. Like(m, q, {"index"}) /\ q.index = 0
  BY <1>3, <1>4 DEF Like, Parser
<1> HIDE DEF q
<1>6. /\ Like(c, q, {"state", "marks", "index"}) /\ q.state = "s_header_value"
      /\ q.marks = c.marks \cup {"header_value"} /\ q.index = 0 /\ ~Failed(q)
  BY <1>2, <1>3, <1>5 DEF Like, Failed
<1>7. \A h \in Headers : Like(q, In(h), {"header_state"})
  BY <1>4, HeaderSets
<1>8. c.header_state = q.header_state /\ c.flags = q.flags /\ c.content_length = q.content_length
  BY <1>6 DEF Like
<1>9. CASE c.header_state = "h_upgrade"
  <2>1. v = u
    BY <1>8, <1>9 DEF HeaderValueStart, q, m, g
  <2> DEFINE i == In("h_general")
  <2>2. Like(q, i, {"header_state"})
    BY <1>1, <1>7
  <2> HIDE DEF i
  <2>3. Like(i, Flag(i, "UPGRADE"), {"flags"}) /\ Flag(i, "UPGRADE").flags = i.flags \cup {"UPGRADE"}
    BY <1>1, <2>2, FlagSets DEF Like
  <2>4. Like(q, v, {"header_state", "flags"}) /\ v.flags = q.flags \cup {"UPGRADE"}
    BY <2>1, <2>2, <2>3 DEF Like, i
  <2> HIDE DEF v
  <2>5. Free(v)
    BY <1>6, <2>4 DEF Like, Failed
  <2>6. QED
    BY <1>6, <1>8, <1>9, <2>5 DEF Like, v
<1>10. CASE c.header_state = "h_content_length"
  <2>1. v = FirstOfLength(q, ch)
    BY <1>8, <1>10 DEF HeaderValueStart, q, m, g
  <2>2. CASE ch \in NUM /\ "CONTENTLENGTH" \notin c.flags
    <3>1. v = d
      BY <1>8, <2>1, <2>2 DEF FirstOfLength
    <3>2. Like(q, f, {"flags"}) /\ f.flags = q.flags \cup {"CONTENTLENGTH"}
      BY <1>1, <1>4, FlagSets
    <3> HIDE DEF f, v
    <3>3. Like(f, v, {"content_length"}) /\ v.content_length = Digit[ch]
      BY <3>1, <3>2 DEF Like, Parser, v
    <3>4. /\ Like(q, v, {"flags", "content_length"}) /\ v.flags = q.flags \cup {"CONTENTLENGTH"}
          /\ ~Failed(v)
      BY <1>6, <3>2, <3>3 DEF Like, Failed
    <3>5. QED
      BY <1>6, <1>8, <1>10, <2>2, <3>3, <3>4 DEF Like, v
  <2>3. CASE ~(ch \in NUM /\ "CONTENTLENGTH" \notin c.flags)
    <3>1. v = Fail(q, "INVALID_CONTENT_LENGTH") \/ v = Fail(q, "UNEXPECTED_CONTENT_LENGTH")
      BY <1>8, <2>1, <2>3 DEF FirstOfLength
    <3>2. "INVALID_CONTENT_LENGTH" \in Errnos /\ "UNEXPECTED_CONTENT_LENGTH" \in Errnos
      BY DEF Errnos
    <3> HIDE DEF v
    <3>3. Like(q, v, {"http_errno"}) /\ Failed(v)
      BY <1>4, <3>1, <3>2, Fails DEF Failed
    <3>4. QED
      BY <1>6, <1>8, <1>10, <2>3, <3>3 DEF Like, v
  <2>4. QED
    BY <2>2, <2>3
<1>11. CASE c.header_state \notin {"h_upgrade", "h_content_length"}
  <2>1. v = q \/ \E h \in Headers : v = In(h)
    <3>1. {"h_matching_transfer_encoding_chunked", "h_general",
           "h_matching_connection_keep_alive", "h_matching_connection_close",
           "h_matching_connection_upgrade", "h_matching_connection_token"} \subseteq Headers
      BY DEF Headers, ValueHeaders, ListMatching, ListToken
    <3>2. \/ v = In("h_general") \/ v = In("h_matching_transfer_encoding_chunked") \/ v = q
          \/ v = In("h_matching_connection_keep_alive") \/ v = In("h_matching_connection_close")
          \/ v = In("h_matching_connection_upgrade") \/ v = In("h_matching_connection_token")
      BY <1>8, <1>11 DEF HeaderValueStart, q, m, g
    <3> HIDE DEF In, v
    <3>3. QED
      BY <3>1, <3>2
  <2>2. Like(q, v, {"header_state"})
    <3> HIDE DEF v, In
    <3>1. Like(q, q, {"header_state"})
      BY <1>4 DEF Like
    <3>2. QED
      BY <1>7, <2>1, <3>1
  <2> HIDE DEF v
  <2>3. QED
    BY <1>6, <1>8, <1>11, <2>2 DEF Like, Failed, v
<1>12. QED
  BY <1>9, <1>10, <1>11

(* The first byte of a value. *)
LEMMA ReadValueFirst ==
    ASSUME NEW p, Sound(p), ~Stopped(p), p.state = "s_header_value_discard_ws", p.marks = {},
           NEW ch, ch \notin {SPACE, TAB, CR, LF}
    PROVE  LET q == Read(p, ch)
           IN  \/ /\ Failed(q)
                  /\ \/ Crowded(p)
                     \/ p.header_state = "h_content_length" /\ (ch \notin NUM \/ "CONTENTLENGTH" \in p.flags)
               \/ /\ Got(p, q, {"header_state", "index", "flags", "content_length"}, "s_header_value",
                         {"header_value"}, {"header_value"}, {})
                  /\ "TRAILING" \in q.flags <=> "TRAILING" \in p.flags
                  /\ p.header_state = "h_content_length" =>
                        /\ ch \in NUM /\ "CONTENTLENGTH" \notin p.flags /\ "CONTENTLENGTH" \in q.flags
                        /\ q.content_length = Digit[ch] /\ q.header_state = "h_content_length"
                  /\ \E c : Turned(p, c) /\ Like(HeaderValueStart(c, ch), q, {})
<1> DEFINE q == Read(p, ch)
           D == {"header_state", "index", "flags", "content_length"}
<1>1. p.passed = 0 /\ p.state \notin ChunkStates /\ p.state # "s_body_identity"
  BY Outside DEF Loops, ChunkStates
<1>2. CASE Failed(q) /\ Crowded(p)
  BY <1>2
<1>3. CASE ~(Failed(q) /\ Crowded(p))
  <2>1. PICK c : /\ Turned(p, c) /\ Transition(c, ch) \in Parser /\ Like(Transition(c, ch), q, {})
                 /\ q.data = Transition(c, ch).marks
    BY <1>1, <1>3, ReadOutside
  <2>2. /\ c \in Parser /\ c.state = "s_header_value_discard_ws" /\ c.marks = {} /\ c.calls = {}
        /\ c.header_state = p.header_state /\ c.flags = p.flags /\ c.http_errno = "OK"
    BY <2>1, TurnedIs
  <2> DEFINE v == HeaderValueStart(c, ch)
  <2>3. Transition(c, ch) = v
    BY <2>2, HandlerOf
  <2>4. /\ Like(c, v, {"state", "marks", "index", "header_state", "flags", "content_length",
                       "http_errno"})
        /\ v.state = "s_header_value" /\ v.marks = c.marks \cup {"header_value"} /\ v.index = 0
        /\ "TRAILING" \in v.flags <=> "TRAILING" \in c.flags
        /\ c.header_state = "h_content_length" /\ ~Failed(v) =>
                     /\ ch \in NUM /\ "CONTENTLENGTH" \notin c.flags /\ "CONTENTLENGTH" \in v.flags
                     /\ v.content_length = Digit[ch] /\ v.header_state = "h_content_length"
        /\ c.header_state = "h_content_length" /\ ch \in NUM /\ "CONTENTLENGTH" \notin c.flags =>
                     ~Failed(v)
        /\ c.header_state # "h_content_length" => ~Failed(v)
    BY <2>1, <2>2, <2>3, ValueStarts
  <2> HIDE DEF v, q
  <2>5. Like(v, q, {}) /\ q.data = v.marks /\ (Failed(q) <=> Failed(v))
    BY <2>1, <2>3 DEF Like, Failed
  <2>6. CASE Failed(v)
    BY <2>2, <2>4, <2>5, <2>6 DEF q
  <2>7. CASE ~Failed(v)
    <3>1. Like(c, v, D \cup {"state", "marks", "calls"}) /\ v.calls = {} /\ v.marks = {"header_value"}
      BY <2>2, <2>4, <2>7 DEF Like, Failed
    <3>2. Got(p, q, D, v.state, v.marks, q.data, v.calls)
      BY <1>1, <2>1, <2>5, <3>1, GotBy
    <3>3. Got(p, q, D, "s_header_value", {"header_value"}, {"header_value"}, {})
      BY <2>4, <2>5, <3>1, <3>2
    <3>4. /\ "TRAILING" \in q.flags <=> "TRAILING" \in p.flags
          /\ p.header_state = "h_content_length" =>
                        /\ ch \in NUM /\ "CONTENTLENGTH" \notin p.flags /\ "CONTENTLENGTH" \in q.flags
                        /\ q.content_length = Digit[ch] /\ q.header_state = "h_content_length"
      BY <2>2, <2>4, <2>5, <2>7 DEF Like
    <3>5. QED
      BY <2>1, <2>5, <3>3, <3>4 DEF q, v
  <2>8. QED
    BY <2>6, <2>7
<1>4. QED
  BY <1>2, <1>3

(* Another byte of a value. *)
LEMMA ReadValue ==
    ASSUME NEW p, Sound(p), ~Stopped(p), p.state = "s_header_value", p.marks = {"header_value"},
           NEW ch, ch \notin {CR, LF}
    PROVE  LET q == Read(p, ch)
           IN  \/ Failed(q)
               \/ /\ Got(p, q, {"header_state", "index", "flags", "content_length", "passed", "skipping"},
                         "s_header_value", {"header_value"}, {"header_value"}, {})
                  /\ "TRAILING" \in q.flags <=> "TRAILING" \in p.flags
                  /\ \E c : /\ Turned(p, c) /\ Valuing(c)
                            /\ p.skipping => Like(c, q, {"nread", "passed", "marks", "data", "calls"})
                            /\ ~p.skipping => /\ ~Failed(ValueByte(c, ch)) 
                                              /\ Like(ValueByte(c, ch), q, {"passed"})
<1> DEFINE q == Read(p, ch)
           D == {"header_state", "index", "flags", "content_length", "passed", "skipping"}
<1>1. p.state \notin ChunkStates /\ p.state # "s_body_identity" /\ p \in Parser
  BY DEF ChunkStates, Sound
<1>2. CASE ~Failed(q)
  <2>1. PICK c : /\ Turned(p, c) /\ Transition(c, ch) \in Parser /\ Like(Transition(c, ch), q, {})
                 /\ q.data = Transition(c, ch).marks
    BY <1>1, <1>2, ReadOutside
  <2>2. /\ c \in Parser /\ c.state = "s_header_value" /\ c.marks = {"header_value"} /\ c.calls = {}
        /\ c.http_errno = "OK" /\ c.skipping = p.skipping /\ c.flags = p.flags
    BY <2>1, TurnedIs
  <2> DEFINE v == IF c.skipping THEN c ELSE ValueByte(c, ch)
             t == [v EXCEPT !.passed = Capped(v.passed + 1)]
             e == "INVALID_HEADER_TOKEN"
  <2>3. Transition(c, ch) = t
    <3>1. Transition(c, ch) = HeaderValue(c, ch)
      BY <2>2, HandlerOf
    <3>2. HeaderValue(c, ch) = t \/ HeaderValue(c, ch) = Fail(c, e)
      BY DEF HeaderValue
    <3>3. Failed(Fail(c, e))
      BY <2>2, Fails DEF Failed, Errnos
    <3> HIDE DEF t
    <3>4. QED
      BY <1>2, <2>1, <3>1, <3>2, <3>3 DEF Like, Failed
  <2>4. Valuing(c)
    <3>1. Sound(c) /\ ~Failed(c)
      BY <2>1 DEF Turned
    <3>2. QED
      BY <2>2, <3>1 DEF Valuing, Sound, Matching, Loops, Sized
  <2>5. Valued(c, v)
    BY <2>4, ValuedByte, ValuedSame
  <2>6. Like(v, t, {"passed"}) /\ Load(t) <= Load(p) + 1
    <3>1. Like(c, v, {"header_state", "index", "flags", "content_length", "skipping", "http_errno"})
      BY <2>5 DEF Valued, Like
    <3> HIDE DEF v
    <3>2. QED
      BY <1>1, <2>1, <3>1, LoopByteCounts
  <2> HIDE DEF t, v, q
  <2>7. Like(t, q, {}) /\ q.data = t.marks
    BY <2>1, <2>3
  <2>8. Load(q) = Load(t)
    BY <2>7 DEF Like, Load
  <2>9. ~Failed(v) /\ Like(v, q, {"passed"})
    BY <1>2, <2>6, <2>7 DEF Like, Failed
  <2>10. Like(c, v, {"header_state", "index", "flags", "content_length", "http_errno", "skipping"})
    BY <2>5 DEF Valued
  <2>11. Like(p, c, {"calls", "nread"})
    BY <2>1 DEF Turned
  <2>12. v.http_errno = c.http_errno
    BY <2>2, <2>9 DEF Failed
  <2>13. Got(p, q, D, "s_header_value", {"header_value"}, {"header_value"}, {})
    BY <2>2, <2>6, <2>7, <2>8, <2>9, <2>10, <2>11, <2>12 DEF Got, Like
  <2>14. "TRAILING" \in q.flags <=> "TRAILING" \in p.flags
    BY <2>2, <2>5, <2>9 DEF Valued, Like
  <2>15. /\ p.skipping => Like(c, q, {"nread", "passed", "marks", "data", "calls"})
         /\ ~p.skipping => /\ ~Failed(ValueByte(c, ch))
                           /\ Like(ValueByte(c, ch), q, {"passed"})
    <3>1. CASE p.skipping
      BY <2>2, <2>9, <3>1 DEF v, Like
    <3>2. CASE ~p.skipping
      BY <2>2, <2>9, <3>2 DEF v
    <3>3. QED
      BY <3>1, <3>2
  <2>16. QED
    BY <2>1, <2>4, <2>13, <2>14, <2>15 DEF q
<1>3. QED
  BY <1>2

(* The end of the line of a value. *)
LEMMA ReadValueEnd ==
    ASSUME NEW p, Sound(p), ~Stopped(p), p.state = "s_header_value", p.marks = {"header_value"}
    PROVE  LET q == Read(p, LF)
           IN  \/ Failed(q) /\ Crowded(p)
               \/ Got(p, q, {"passed", "skipping"}, "s_header_value_lws", {}, {}, {})
<1> DEFINE q == Read(p, LF)
<1>1. p.state \notin ChunkStates /\ p.state # "s_body_identity" /\ p \in Parser
  BY DEF ChunkStates, Sound
<1>2. SUFFICES ASSUME ~(Failed(q) /\ Crowded(p))
               PROVE  Got(p, q, {"passed", "skipping"}, "s_header_value_lws", {}, {}, {})
  OBVIOUS
<1>3. PICK c : /\ Turned(p, c) /\ Transition(c, LF) \in Parser /\ Like(Transition(c, LF), q, {})
               /\ q.data = Transition(c, LF).marks
  BY <1>1, <1>2, ReadOutside
<1>4. /\ c \in Parser /\ c.state = "s_header_value" /\ c.marks = {"header_value"} /\ c.calls = {}
      /\ ~Failed(c)
  BY <1>3, TurnedIs DEF Failed
<1> DEFINE e == LoopEnd(c)
           g == Go(e, "s_header_value_lws")
           h == CALLBACK_DATA(g, "header_value")
           t == IF Failed(e) THEN e ELSE h
<1>5. Transition(c, LF) = t
  <2>1. Transition(c, LF) = HeaderValue(c, LF)
    BY <1>4, HandlerOf
  <2>2. LF # CR
    BY DEF CR, LF
  <2>3. HeaderValue(c, LF) = t
    BY <2>2, Zenon DEF HeaderValue
  <2>4. QED
    BY <2>1, <2>3
<1>6. /\ Like(c, e, {"nread", "http_errno", "passed", "skipping"})
      /\ e.passed = 0 /\ e.skipping = FALSE /\ Load(e) <= Load(p) + 1
      /\ Failed(e) => Crowded(p)
  BY <1>1, <1>3, LoopEndCounts
<1>7. ~Failed(e)
  <2>1. CASE Failed(e)
    <3>1. Failed(q)
      BY <1>3, <1>5, <2>1 DEF Like, Failed
    <3>2. QED
      BY <1>2, <1>6, <2>1, <3>1
  <2>2. QED
    BY <2>1
<1>8. "s_header_value_lws" \in States /\ "header_value" \in Data
  BY DEF States, Lasting, Heads, Data
<1> HIDE DEF e
<1>9. Like(e, g, {"state"}) /\ g.state = "s_header_value_lws"
  BY <1>6, <1>8, Goes DEF Like
<1> HIDE DEF g
<1>10. Like(g, h, {"marks"}) /\ h.marks = g.marks \ {"header_value"}
  BY <1>8, <1>9, DataGiven DEF Like
<1> HIDE DEF h, q
<1>11. Like(h, q, {}) /\ q.data = h.marks
  BY <1>3, <1>5, <1>7
<1>12. e.http_errno = c.http_errno
  BY <1>4, <1>7 DEF Failed
<1>13. Load(q) = Load(e)
  BY <1>9, <1>10, <1>11 DEF Like, Load
<1>14. Like(p, c, {"calls", "nread"})
  BY <1>3 DEF Turned
<1>15. h.marks = {} /\ h.state = "s_header_value_lws" /\ h.calls = {}
  BY <1>4, <1>6, <1>9, <1>10 DEF Like
<1>16. QED
  BY <1>6, <1>9, <1>10, <1>11, <1>12, <1>13, <1>14, <1>15 DEF Got, Like

(* What follows the headers of a message with a length. *)
LEMMA HeadersEnd ==
    ASSUME NEW c \in Parser, c.http_errno = "OK", c.calls = {}, c.exited = FALSE,
           "TRAILING" \notin c.flags, "CHUNKED" \notin c.flags, c.content_length < ULLONG_MAX
    PROVE  LET t == HeadersAlmostDone(c, LF)
           IN  /\ Like(c, t, {"state", "upgrade", "calls", "nread", "exited"}) /\ t.nread = 0
               /\ \/ t.exited /\ t.upgrade /\ t.state \in Idle
                        /\ (c.method = "CONNECT" \/ c.content_length = 0)
                  \/ ~t.exited /\ c.content_length > 0 /\ t.state = "s_body_identity"
                        /\ t.calls = {"headers_complete"}
                  \/ ~t.exited /\ c.content_length = 0 /\ t.state \in Idle
                        /\ t.calls = {"headers_complete", "message_complete"}
<1> DEFINE u == {"UPGRADE", "CONNECTION_UPGRADE"} \subseteq c.flags \/ c.method = "CONNECT"
           r == [c EXCEPT !.state = "s_headers_done", !.upgrade = u]
           k == Call(r, "headers_complete")
           q == [k EXCEPT !.nread = 0]
           t == HeadersAlmostDone(c, LF)
<1>1. "s_headers_done" \in States /\ "s_body_identity" \in States /\ "headers_complete" \in Calls
  BY DEF States, Lasting, Bodies, Calls
<1>2. r \in Parser
  <2>1. [c EXCEPT !.state = "s_headers_done"] \in Parser
    BY <1>1, Put
  <2>2. u \in BOOLEAN
    OBVIOUS
  <2> HIDE DEF u
  <2>3. QED
    BY <2>1, <2>2, Put, Zenon
<1>3. Like(c, r, {"state", "upgrade"})
  BY <1>2 DEF Like, Parser
<1> HIDE DEF r
<1>4. Like(r, k, {"calls"}) /\ k.calls = r.calls \cup {"headers_complete"}
  BY <1>1, <1>2, CallNotes
<1> HIDE DEF k
<1>5. q \in Parser
  BY <1>4, Values, Put, Zenon DEF Like
<1>6. Like(k, q, {"nread"}) /\ q.nread = 0
  BY <1>4, <1>5 DEF Like, Parser
<1> HIDE DEF q
<1>7. /\ Like(c, q, {"state", "upgrade", "calls", "nread"}) /\ q.calls = {"headers_complete"}
      /\ q.exited = FALSE /\ "CHUNKED" \notin q.flags /\ q.content_length = c.content_length
      /\ q.content_length \in 0 .. ULLONG_MAX
  BY <1>3, <1>4, <1>6 DEF Like, Parser
<1>8. t = HeadersDone(k)
  BY DEF HeadersAlmostDone, k, r
<1> DEFINE b == Go(q, "s_body_identity")
           m == MessageDone(q)
           o == Completed(q)
<1>9. \/ t = m /\ q.upgrade /\ (q.method = "CONNECT" \/ q.content_length = 0)
      \/ t = b /\ q.content_length # 0
      \/ t = o /\ q.content_length = 0
  <2>1. q.content_length # ULLONG_MAX
    BY <1>7, ParserAssumption
  <2>2. ~http_message_needs_eof(q)
    BY <2>1 DEF http_message_needs_eof
  <2>3. HeadersDone(k) = 
           IF q.upgrade /\ (q.method = "CONNECT" \/ ~(q.content_length # 0)) THEN m
           ELSE IF q.content_length # 0 THEN b ELSE o
    BY <1>7, <2>1, <2>2 DEF HeadersDone, q
  <2> HIDE DEF t, m, b, o
  <2>4. QED
    BY <1>8, <2>3
<1>10. Like(q, b, {"state"}) /\ b.state = "s_body_identity"
  BY <1>1, <1>7, Goes DEF Like
<1>11. /\ Like(q, o, {"state", "calls"}) /\ o.state \in Idle /\ o.calls = q.calls \cup {"message_complete"}
       /\ Like(q, m, {"state", "calls", "exited"}) /\ m.state \in Idle
  BY <1>7, Completes DEF Like
<1>12. m.exited = q.upgrade
  <2>1. o \in Parser
    BY <1>11 DEF Like
  <2> HIDE DEF o
  <2>2. m = [o EXCEPT !.exited = q.upgrade]
    BY DEF MessageDone, o
  <2>3. QED
    BY <2>1, <2>2 DEF Parser
<1> HIDE DEF t, m, b, o
<1>13. CASE t = m /\ q.upgrade /\ (q.method = "CONNECT" \/ q.content_length = 0)
  <2>1. m.exited
    BY <1>12, <1>13, Zenon
  <2>2. m.upgrade
    BY <1>11, <1>13, Zenon DEF Like
  <2>3. Like(c, m, {"state", "upgrade", "calls", "nread", "exited"}) /\ m.nread = 0 /\ m.state \in Idle
    BY <1>6, <1>7, <1>11 DEF Like
  <2>4. q.method = c.method /\ q.content_length = c.content_length
    BY <1>7 DEF Like
  <2>5. QED
    BY <1>13, <2>1, <2>2, <2>3, <2>4 DEF t
<1>14. CASE t = b /\ q.content_length # 0
  <2>1. c.content_length > 0
    BY <1>7, <1>14, ParserAssumption
  <2>2. QED
    BY <1>6, <1>7, <1>10, <1>14, <2>1 DEF Like, t
<1>15. CASE t = o /\ q.content_length = 0
  BY <1>6, <1>7, <1>11, <1>15 DEF Like, t
<1>16. QED
  BY <1>9, <1>13, <1>14, <1>15

(* The end of the headers of a message that has declared its length. *)
LEMMA ReadHeadersDone ==
    ASSUME NEW p, Sound(p), ~Stopped(p), p.state = "s_headers_almost_done", p.marks = {},
           "TRAILING" \notin p.flags, "CONTENTLENGTH" \in p.flags
    PROVE  LET q == Read(p, LF)
           IN  \/ Failed(q) /\ (Crowded(p) \/ "CHUNKED" \in p.flags)
               \/ /\ ~Failed(q) /\ q.exited /\ q.upgrade /\ q.state \in Idle
                  /\ (p.method = "CONNECT" \/ p.content_length = 0)
                  /\ Like(p, q, {"state", "upgrade", "calls", "nread", "exited", "data", "marks"})
               \/ /\ p.content_length > 0
                  /\ Got(p, q, {"upgrade"}, "s_body_identity", {}, {}, {"headers_complete"})
               \/ /\ p.content_length = 0 /\ q.state \in Idle
                  /\ Got(p, q, {"upgrade"}, q.state, {}, {}, {"headers_complete", "message_complete"})
<1> DEFINE q == Read(p, LF)
<1>1. /\ p.passed = 0 /\ p.state \notin ChunkStates /\ p.state # "s_body_identity" /\ p \in Parser
      /\ p.content_length < ULLONG_MAX /\ ~p.exited
  BY Outside DEF Loops, ChunkStates, Sound, Stopped, Sized
<1>2. CASE Failed(q) /\ Crowded(p)
  BY <1>2
<1>3. CASE ~(Failed(q) /\ Crowded(p))
  <2>1. PICK c : /\ Turned(p, c) /\ Transition(c, LF) \in Parser /\ Like(Transition(c, LF), q, {})
                 /\ q.data = Transition(c, LF).marks
    BY <1>1, <1>3, ReadOutside
  <2>2. /\ c \in Parser /\ c.state = "s_headers_almost_done" /\ c.marks = {} /\ c.calls = {}
        /\ c.content_length = p.content_length /\ c.flags = p.flags /\ c.http_errno = "OK"
        /\ c.exited = p.exited /\ c.passed = p.passed
    BY <2>1, TurnedIs
  <2> DEFINE t == HeadersAlmostDone(c, LF)
  <2>3. Transition(c, LF) = t
    BY <2>2, HandlerOf
  <2>4. CASE "CHUNKED" \in p.flags
    <3>1. t = Fail(c, "UNEXPECTED_CONTENT_LENGTH")
      BY <2>2, <2>4 DEF HeadersAlmostDone
    <3>2. Failed(t)
      BY <2>2, <3>1, Fails DEF Failed, Errnos
    <3>3. Failed(q)
      BY <2>1, <2>3, <3>2 DEF Like, Failed
    <3>4. QED
      BY <2>4, <3>3
  <2>5. CASE "CHUNKED" \notin p.flags
    <3>1. c.exited = FALSE
      BY <1>1, <2>2 DEF Parser
    <3>2. /\ Like(c, t, {"state", "upgrade", "calls", "nread", "exited"}) /\ t.nread = 0
          /\ \/ t.exited /\ t.upgrade /\ t.state \in Idle
                   /\ (c.method = "CONNECT" \/ c.content_length = 0)
             \/ ~t.exited /\ c.content_length > 0 /\ t.state = "s_body_identity"
                   /\ t.calls = {"headers_complete"}
             \/ ~t.exited /\ c.content_length = 0 /\ t.state \in Idle
                   /\ t.calls = {"headers_complete", "message_complete"}
      BY <1>1, <2>2, <2>5, <3>1, HeadersEnd
    <3> HIDE DEF t, q
    <3>3. Like(t, q, {}) /\ q.data = {} /\ q.marks = {}
      BY <2>1, <2>2, <2>3, <3>2 DEF Like
    <3>4. Load(q) <= Load(p) + 1
      <4>1. q.nread = 0 /\ q.passed = 0
        BY <1>1, <2>2, <3>2, <3>3 DEF Like
      <4>2. p.nread \in Int /\ p.nread >= 0
        BY <1>1 DEF Parser
      <4>3. QED
        BY <1>1, <4>1, <4>2 DEF Load
    <3>5. Like(p, c, {"calls", "nread"})
      BY <2>1 DEF Turned
    <3>6. CASE t.exited /\ t.upgrade /\ t.state \in Idle
                   /\ (c.method = "CONNECT" \/ c.content_length = 0)
      <4>1. ~Failed(q) /\ q.exited /\ q.upgrade /\ q.state \in Idle
        BY <2>2, <3>2, <3>3, <3>6 DEF Like, Failed
      <4>2. Like(p, q, {"state", "upgrade", "calls", "nread", "exited", "data", "marks"})
        BY <3>2, <3>3, <3>5 DEF Like
      <4>3. p.method = "CONNECT" \/ p.content_length = 0
        BY <2>2, <3>5, <3>6 DEF Like
      <4>4. QED
        BY <4>1, <4>2, <4>3 DEF q
    <3>7. CASE ~t.exited /\ c.content_length > 0 /\ t.state = "s_body_identity"
                   /\ t.calls = {"headers_complete"}
      <4>1. t.exited = c.exited
        BY <1>1, <2>2, <3>2, <3>7, Zenon DEF Like, Parser
      <4>2. QED
        BY <2>2, <3>2, <3>3, <3>4, <3>5, <3>7, <4>1 DEF Got, Like, q
    <3>8. CASE ~t.exited /\ c.content_length = 0 /\ t.state \in Idle
                   /\ t.calls = {"headers_complete", "message_complete"}
      <4>1. t.exited = c.exited
        BY <1>1, <2>2, <3>2, <3>8, Zenon DEF Like, Parser
      <4>2. QED
        BY <2>2, <3>2, <3>3, <3>4, <3>5, <3>8, <4>1 DEF Got, Like, q
    <3>9. QED
      BY <3>2, <3>6, <3>7, <3>8
  <2>6. QED
    BY <2>4, <2>5
<1>4. QED
  BY <1>2, <1>3

(* A byte of the body that is not its last. *)
LEMMA ReadBody ==
    ASSUME NEW p, Sound(p), ~Stopped(p), p.state = "s_body_identity", p.content_length > 1, NEW ch
    PROVE  LET q == Read(p, ch)
           IN  \/ Failed(q) /\ Crowded(p)
               \/ /\ Got(p, q, {"content_length"}, "s_body_identity", {"body"}, {"body"}, {})
                  /\ q.content_length = p.content_length - 1
<1> DEFINE q == Read(p, ch)
<1>1. /\ p.passed = 0 /\ p.state \notin ChunkStates /\ p.marks \subseteq {"body"}
      /\ p.content_length \in Int
  <2>1. p.marks \subseteq MarkOf(p.state) /\ p \in Parser
    BY DEF Sound, Stopped
  <2>2. QED
    BY <2>1, Outside DEF Loops, ChunkStates, MarkOf, Bodies, Parser
<1>2. SUFFICES ASSUME ~(Failed(q) /\ Crowded(p))
               PROVE  /\ Got(p, q, {"content_length"}, "s_body_identity", {"body"}, {"body"}, {})
                      /\ q.content_length = p.content_length - 1
  OBVIOUS
<1>3. PICK c : /\ Turned(p, c) /\ Transition(c, ch) \in Parser /\ Like(Transition(c, ch), q, {})
               /\ q.data = Transition(c, ch).marks \cup {"body"}
  BY <1>1, <1>2, ReadIs
<1>4. /\ c \in Parser /\ c.state = "s_body_identity" /\ c.marks = p.marks /\ c.calls = {}
      /\ c.content_length = p.content_length
  BY <1>3, TurnedIs
<1> DEFINE t == BodyByte(c)
<1>5. /\ Like(c, t, {"marks", "content_length"}) /\ t.marks = c.marks \cup {"body"}
      /\ t.content_length = c.content_length - 1
  BY <1>1, <1>4, BodyBytes
<1>6. Transition(c, ch) = t
  <2>1. Transition(c, ch) = BodyIdentity(c)
    BY <1>4, HandlerOf
  <2> HIDE DEF t
  <2>2. t.content_length > 0
    BY <1>1, <1>4, <1>5
  <2>3. BodyIdentity(c) = t
    BY <2>2 DEF BodyIdentity, t
  <2>4. QED
    BY <2>1, <2>3
<1> HIDE DEF t, q
<1>7. Like(c, t, {"content_length"} \cup {"state", "marks", "calls"}) /\ t.marks = {"body"}
      /\ t.state = "s_body_identity" /\ t.calls = {}
  BY <1>1, <1>4, <1>5 DEF Like
<1>8. Like(t, q, {}) /\ q.data = {"body"}
  BY <1>3, <1>6, <1>7
<1>9. Got(p, q, {"content_length"}, t.state, t.marks, q.data, t.calls)
  BY <1>1, <1>3, <1>6, <1>7, <1>8, GotBy
<1>10. QED
  BY <1>4, <1>5, <1>7, <1>8, <1>9 DEF Like

(* The last byte of the body. *)
LEMMA ReadBodyEnd ==
    ASSUME NEW p, Sound(p), ~Stopped(p), p.state = "s_body_identity", p.content_length = 1, NEW ch
    PROVE  LET q == Read(p, ch)
           IN  \/ Failed(q) /\ Crowded(p)
               \/ /\ Got(p, q, {"content_length", "exited"}, q.state, {}, {"body"}, {"message_complete"})
                  /\ q.state \in Idle /\ q.exited = p.upgrade
<1> DEFINE q == Read(p, ch)
<1>1. p.passed = 0 /\ p.state \notin ChunkStates /\ p.marks \subseteq {"body"}
  <2>1. p.marks \subseteq MarkOf(p.state) /\ p \in Parser
    BY DEF Sound, Stopped
  <2>2. QED
    BY <2>1, Outside DEF Loops, ChunkStates, MarkOf, Bodies
<1>2. SUFFICES ASSUME ~(Failed(q) /\ Crowded(p))
               PROVE  /\ Got(p, q, {"content_length", "exited"}, q.state, {}, {"body"}, {"message_complete"})
                      /\ q.state \in Idle /\ q.exited = p.upgrade
  OBVIOUS
<1>3. PICK c : /\ Turned(p, c) /\ Transition(c, ch) \in Parser /\ Like(Transition(c, ch), q, {})
               /\ q.data = Transition(c, ch).marks \cup {"body"}
  BY <1>1, <1>2, ReadIs
<1>4. /\ c \in Parser /\ c.state = "s_body_identity" /\ c.marks = p.marks /\ c.calls = {}
      /\ c.content_length = 1 /\ c.upgrade = p.upgrade
  BY <1>3, TurnedIs
<1> DEFINE b == BodyByte(c)
           g == Go(b, "s_message_done")
           m == CALLBACK_DATA(g, "body")
           t == MessageDone(m)
<1>5. /\ Like(c, b, {"marks", "content_length"}) /\ b.marks = c.marks \cup {"body"}
      /\ b.content_length = 0
  BY <1>4, BodyBytes
<1>6. Transition(c, ch) = t
  <2>1. Transition(c, ch) = BodyIdentity(c)
    BY <1>4, HandlerOf
  <2> HIDE DEF b
  <2>2. ~(b.content_length > 0)
    BY <1>5
  <2>3. BodyIdentity(c) = t
    BY <2>2 DEF BodyIdentity, b
  <2>4. QED
    BY <2>1, <2>3
<1>7. "s_message_done" \in States /\ "body" \in Data
  BY DEF States, Data
<1> HIDE DEF b
<1>8. Like(b, g, {"state"})
  BY <1>5, <1>7, Goes DEF Like
<1> HIDE DEF g
<1>9. Like(g, m, {"marks"}) /\ m.marks = g.marks \ {"body"}
  BY <1>7, <1>8, DataGiven DEF Like
<1> HIDE DEF m
<1>10. /\ Like(m, t, {"state", "calls", "exited"}) /\ t.state \in Idle
       /\ t.calls = m.calls \cup {"message_complete"}
  BY <1>9, Completes DEF Like
<1>11. t.exited = m.upgrade
  <2> DEFINE o == Completed(m)
  <2>1. o \in Parser
    BY <1>9, Completes DEF Like
  <2> HIDE DEF o
  <2>2. t = [o EXCEPT !.exited = m.upgrade]
    BY DEF MessageDone, o
  <2>3. QED
    BY <2>1, <2>2 DEF Parser
<1> HIDE DEF t, q
<1>12. /\ Like(c, t, {"content_length", "exited"} \cup {"state", "marks", "calls"}) /\ t.marks = {}
       /\ t.calls = {"message_complete"}
  BY <1>1, <1>4, <1>5, <1>8, <1>9, <1>10 DEF Like
<1>13. Like(t, q, {}) /\ q.data = {"body"}
  BY <1>3, <1>6, <1>12
<1>14. Got(p, q, {"content_length", "exited"}, t.state, t.marks, q.data, t.calls)
  BY <1>1, <1>3, <1>6, <1>12, <1>13, GotBy
<1>15. q.exited = p.upgrade
  BY <1>4, <1>5, <1>8, <1>9, <1>11, <1>13 DEF Like
<1>16. QED
  BY <1>10, <1>12, <1>13, <1>14, <1>15 DEF Like

(* Nothing but line ends may follow a message. *)
LEMMA ReadIdleFails ==
    ASSUME NEW p, Sound(p), ~Stopped(p), p.state \in Idle
    PROVE  Failed(Read(p, NUL))
<1>1. p.state \notin ChunkStates
  BY DEF ChunkStates, Idle
<1>2. NUL \notin {CR, LF, "H"} /\ NUL \notin ALPHA
  <2>1. NUL # ":" /\ NUL # CR /\ NUL # LF /\ NUL # "H"
    BY DEF NUL, CR, LF
  <2>2. QED
    BY <2>1, LettersAssumption DEF TOKEN
<1>3. ASSUME NEW c, Turned(p, c), Transition(c, NUL) \in Parser
      PROVE  Failed(Transition(c, NUL))
  <2>1. c \in Parser /\ c.state = p.state
    BY <1>3, TurnedIs
  <2>2. NewHeaders(c) \in Parser
    BY <2>1, NewHeadersIs DEF Like
  <2>3. \/ Transition(c, NUL) = Fail(NewHeaders(c), "INVALID_METHOD")
        \/ Transition(c, NUL) = Fail(NewHeaders(c), "INVALID_CONSTANT")
        \/ Transition(c, NUL) = Fail(c, "CLOSED_CONNECTION")
    <3>1. CASE p.state = "s_start_req"
      <4>1. Transition(c, NUL) = StartRequest(c, NUL)
        BY <1>2, <2>1, <3>1, HandlerOf
      <4>2. QED
        BY <1>2, <4>1, Zenon DEF StartRequest
    <3>2. CASE p.state = "s_start_res"
      <4>1. Transition(c, NUL) = StartResponse(c, NUL)
        BY <2>1, <3>2, HandlerOf
      <4>2. QED
        BY <1>2, <4>1 DEF StartResponse
    <3>3. CASE p.state = "s_dead"
      BY <1>2, <2>1, <3>3, HandlerOf
    <3>4. QED
      BY <3>1, <3>2, <3>3 DEF Idle
  <2>4. QED
    BY <2>1, <2>2, <2>3, Fails DEF Failed, Errnos
<1>4. QED
  BY <1>1, <1>3, ReadFails

(* Bytes of the body are not counted, and its handler does not fail. *)
LEMMA ReadBodySafe ==
    ASSUME NEW p, Sound(p), ~Stopped(p), p.state = "s_body_identity", p.content_length > 1, NEW ch
    PROVE  LET q == Read(p, ch)
           IN  ~Failed(q) /\ Load(q) = Load(p)
<1> DEFINE r == [p EXCEPT !.calls = {}]
           t == BodyByte(r)
           d == t.marks \cup {"body"}
           a == [t EXCEPT !.data = d]
<1>1. p \in Parser /\ ~Failed(p) /\ p.content_length \in Int
  BY DEF Sound, Stopped, Parser
<1>2. r \in Parser
  BY <1>1, Values, Put
<1>3. Like(p, r, {"calls"}) /\ r.calls = {}
  BY <1>1, <1>2 DEF Like, Parser
<1>4. Counted(r) = r
  <2>1. r.state = "s_body_identity"
    BY <1>3 DEF Like
  <2>2. ~PARSING_HEADER(r.state)
    BY <2>1 DEF PARSING_HEADER, BodyStates
  <2>3. QED
    BY <2>2 DEF Counted
<1>5. Read(p, ch) = Attributed(p, Transition(r, ch))
  <2>1. ~Failed(r)
    BY <1>1, <1>3 DEF Like, Failed
  <2>2. QED
    BY <1>4, <2>1 DEF Read
<1> HIDE DEF r
<1>6. /\ Like(r, t, {"marks", "content_length"}) /\ t.content_length = r.content_length - 1
      /\ r.content_length = p.content_length /\ r.state = "s_body_identity"
  <2>1. r.content_length = p.content_length /\ r.state = p.state
    BY <1>3 DEF Like
  <2>2. r.content_length > 0
    BY <1>1, <2>1
  <2>3. QED
    BY <1>2, <2>1, <2>2, BodyBytes
<1>7. Transition(r, ch) = t
  <2>1. Transition(r, ch) = BodyIdentity(r)
    BY <1>2, <1>6, HandlerOf
  <2>2. t.content_length > 0
    BY <1>1, <1>6
  <2> HIDE DEF t
  <2>3. BodyIdentity(r) = t
    BY <2>2 DEF BodyIdentity, t
  <2>4. QED
    BY <2>1, <2>3
<1> HIDE DEF t
<1>8. Read(p, ch) = a
  BY <1>5, <1>7 DEF Attributed
<1>9. t \in Parser /\ d \in SUBSET Data
  BY <1>6 DEF Like, Data, Parser
<1> HIDE DEF d
<1>10. a \in Parser
  BY <1>9, Put
<1>11. Like(t, a, {"data"})
  BY <1>9, <1>10 DEF Like, Parser
<1> HIDE DEF a
<1>12. /\ a.http_errno = p.http_errno /\ a.nread = p.nread /\ a.passed = p.passed
  BY <1>3, <1>6, <1>11 DEF Like
<1>13. QED
  BY <1>1, <1>8, <1>12 DEF Failed, Load

(* A byte of a value fails only where its handler does. *)
LEMMA ReadValueSafe ==
    ASSUME NEW p, Sound(p), ~Stopped(p), p.state = "s_header_value", p.marks = {"header_value"},
           NEW ch, ch \notin {CR, LF}, IS_HEADER_CHAR(ch), ~Crowded(p),
           \A c : Turned(p, c) /\ Valuing(c) => ~Failed(ValueByte(c, ch))
    PROVE  ~Failed(Read(p, ch))
<1> DEFINE q == Read(p, ch)
<1>1. p.state \notin ChunkStates /\ p.state # "s_body_identity" /\ p \in Parser
  BY DEF ChunkStates, Sound
<1>2. PICK c : /\ Turned(p, c) /\ Transition(c, ch) \in Parser /\ Like(Transition(c, ch), q, {})
  BY <1>1, ReadOutside
<1>3. /\ c \in Parser /\ c.state = "s_header_value" /\ c.http_errno = "OK"
  BY <1>2, TurnedIs
<1>4. Valuing(c)
  <2>1. Sound(c) /\ ~Failed(c)
    BY <1>2 DEF Turned
  <2>2. QED
    BY <1>3, <2>1 DEF Valuing, Sound, Matching, Loops, Sized
<1> DEFINE v == IF c.skipping THEN c ELSE ValueByte(c, ch)
           t == [v EXCEPT !.passed = Capped(v.passed + 1)]
<1>5. Transition(c, ch) = t
  <2>1. Transition(c, ch) = HeaderValue(c, ch)
    BY <1>3, HandlerOf
  <2>2. QED
    BY <2>1 DEF HeaderValue
<1>6. v \in Parser /\ ~Failed(v)
  <2>1. ~Failed(ValueByte(c, ch))
    BY <1>2, <1>4
  <2>2. ValueByte(c, ch) \in Parser
    BY <1>4, ValuedByte DEF Valued, Like
  <2>3. QED
    BY <1>3, <2>1, <2>2 DEF Failed
<1> HIDE DEF v
<1>7. t.http_errno = v.http_errno
  BY <1>6 DEF Parser
<1> HIDE DEF t, q
<1>8. ~Failed(q)
  BY <1>2, <1>5, <1>6, <1>7 DEF Like, Failed
<1>9. QED
  BY <1>8 DEF q

(* The end of a buffer fails only for what is counted there. *)
LEMMA BufferSafe ==
    ASSUME NEW p \in Parser, ~Failed(p), ~p.exited, p.passed = 0, Load(p) <= HTTP_MAX_HEADER_SIZE
    PROVE  ~Failed(BufferEnds(p)) /\ ~BufferEnds(p).exited
<1> DEFINE c == COUNT_HEADER_SIZE(p, p.passed)
           e == [c EXCEPT !.passed = 0, !.skipping = FALSE]
           t == [e EXCEPT !.marks = {}]
<1>1. p.nread \in Nat /\ HTTP_MAX_HEADER_SIZE \in Nat /\ 0 \in 0 .. MaxCount
  BY ParserAssumption DEF Parser
<1>2. ~(p.nread + 0 > HTTP_MAX_HEADER_SIZE)
  BY <1>1 DEF Load
<1>3. ~Failed(c)
  BY <1>1, <1>2, CountsOne
<1>4. c \in Parser /\ Like(p, c, {"nread", "http_errno"})
  <2> DEFINE n == Capped(p.nread + p.passed)
             r == [p EXCEPT !.nread = n]
  <2>1. n \in 0 .. MaxCount
    BY <1>1, ParserAssumption DEF Capped
  <2> HIDE DEF n
  <2>2. r \in Parser
    BY <2>1, Put, Zenon
  <2>3. Like(p, r, {"nread"})
    BY <2>1, <2>2 DEF Like, Parser
  <2>4. c = r \/ c = Fail(r, "HEADER_OVERFLOW")
    BY DEF COUNT_HEADER_SIZE, n
  <2>5. r.http_errno = "OK" /\ "HEADER_OVERFLOW" \in Errnos
    BY <2>3 DEF Like, Failed, Errnos
  <2> HIDE DEF r
  <2>6. Failed(Fail(r, "HEADER_OVERFLOW"))
    BY <2>2, <2>5, Fails DEF Failed
  <2> HIDE DEF c
  <2>7. c = r
    BY <1>3, <2>4, <2>6
  <2>8. QED
    BY <2>2, <2>3, <2>7 DEF Like
<1> HIDE DEF c
<1>5. LoopEnd(p) = e
  BY DEF LoopEnd, c
<1>6. e.http_errno = "OK" /\ e.exited = p.exited /\ t.http_errno = e.http_errno /\ t.exited = e.exited
  BY <1>3, <1>4 DEF Like, Parser, Failed
<1> HIDE DEF e
<1>7. BufferEnds(p) = t
  BY <1>5, <1>6 DEF BufferEnds, Stopped, Failed
<1>8. QED
  BY <1>6, <1>7 DEF Failed
=============================================================================
