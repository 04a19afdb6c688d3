-------------------------- MODULE HttpSplitProofs ---------------------------
(***************************************************************************)
(* Where the input of a connection is cut cannot be seen, proved for every *)
(* ULLONG_MAX, limit and buffer.                                           *)
(*                                                                         *)
(* Two parsers, one cut and one not, are twins when they differ in what    *)
(* they have counted and marked at most.  Every handler keeps twins (the   *)
(* lemmas ...Twins), and the marks after a byte are a function of the      *)
(* states before and after it (the lemmas ...Marks), so that the byte is   *)
(* data of the same callbacks.  What is left are the inner loops, which    *)
(* count and skip differently after a cut: Stricter says how.              *)
(***************************************************************************)
EXTENDS HttpSplit, HttpParserProofs

(* The fields of a parser. *)
Fields == {"type", "state", "header_state", "index", "flags", "content_length", "method",
           "http_major", "http_minor", "status_code", "upgrade", "nread", "http_errno", "marks",
           "passed", "skipping", "exited", "data", "calls"}

(* Two parsers that know the same and called the same callbacks. *)
Alike(p, w) ==
    /\ p.type = w.type /\ p.state = w.state /\ p.header_state = w.header_state
    /\ p.index = w.index /\ p.flags = w.flags /\ p.content_length = w.content_length
    /\ p.method = w.method /\ p.http_major = w.http_major /\ p.http_minor = w.http_minor
    /\ p.status_code = w.status_code /\ p.upgrade = w.upgrade
    /\ p.http_errno = w.http_errno /\ p.exited = w.exited /\ p.calls = w.calls

(* p, which is cut, has counted as many bytes as w, or one more for each loop  *)
(* that was cut, and skips only what w skips.                                 *)
Counting(p, w) ==
    /\ p.nread \in 0 .. MaxCount /\ p.passed \in 0 .. MaxCount
    /\ w.nread \in 0 .. MaxCount /\ w.passed \in 0 .. MaxCount
    /\ Capped(p.nread + p.passed) >= Capped(w.nread + w.passed)
    /\ w.passed = 0 => p.passed = 0
    /\ p.skipping => w.skipping

(* A parser that is cut, and one that is not: what they have marked, and what  *)
(* data is in the callbacks of the last byte, is compared elsewhere.          *)
Twins(p, w) ==
    /\ Fields \subseteq DOMAIN p /\ Fields \subseteq DOMAIN w
    /\ Alike(p, w) /\ Counting(p, w)

(* The same value in a field of both, or any marks and data. *)
LEMMA TwinsPut ==
    ASSUME NEW p, NEW w, Twins(p, w)
    PROVE  /\ \A x : Twins([p EXCEPT !.state = x], [w EXCEPT !.state = x])
           /\ \A x : Twins([p EXCEPT !.header_state = x], [w EXCEPT !.header_state = x])
           /\ \A x : Twins([p EXCEPT !.index = x], [w EXCEPT !.index = x])
           /\ \A x : Twins([p EXCEPT !.flags = x], [w EXCEPT !.flags = x])
           /\ \A x : Twins([p EXCEPT !.content_length = x], [w EXCEPT !.content_length = x])
           /\ \A x : Twins([p EXCEPT !.method = x], [w EXCEPT !.method = x])
           /\ \A x : Twins([p EXCEPT !.http_major = x], [w EXCEPT !.http_major = x])
           /\ \A x : Twins([p EXCEPT !.http_minor = x], [w EXCEPT !.http_minor = x])
           /\ \A x : Twins([p EXCEPT !.status_code = x], [w EXCEPT !.status_code = x])
           /\ \A x : Twins([p EXCEPT !.upgrade = x], [w EXCEPT !.upgrade = x])
           /\ \A x : Twins([p EXCEPT !.http_errno = x], [w EXCEPT !.http_errno = x])
           /\ \A x : Twins([p EXCEPT !.exited = x], [w EXCEPT !.exited = x])
           /\ \A x : Twins([p EXCEPT !.calls = x], [w EXCEPT !.calls = x])
           /\ \A x, y : Twins([p EXCEPT !.marks = x], [w EXCEPT !.marks = y])
           /\ \A x, y : Twins([p EXCEPT !.data = x], [w EXCEPT !.data = y])
BY DEF Twins, Alike, Counting, Fields
-----------------------------------------------------------------------------
(* Handlers keep twins. *)

(* Each handler decides by what the two share. *)
LEMMA StartResponseTwins ==
    ASSUME NEW p, NEW w, Twins(p, w), NEW ch
    PROVE  Twins(StartResponse(p, ch), StartResponse(w, ch))
BY DEF StartResponse, NewHeaders, Go, Fail, Twins, Alike, Counting, Fields

LEMMA StartRequestTwins ==
    ASSUME NEW p, NEW w, Twins(p, w), NEW ch
    PROVE  Twins(StartRequest(p, ch), StartRequest(w, ch))
BY DEF StartRequest, NewHeaders, Go, Fail, Twins, Alike, Counting, Fields

LEMMA MethodTwins ==
    ASSUME NEW p, NEW w, Twins(p, w), NEW ch
    PROVE  Twins(Method(p, ch), Method(w, ch))
BY DEF Method, Go, Fail, Twins, Alike, Counting, Fields

LEMMA UrlTwins ==
    ASSUME NEW p, NEW w, Twins(p, w), NEW ch
    PROVE  Twins(Url(p, ch), Url(w, ch))
BY DEF Url, MARK, CALLBACK_DATA, Go, Fail, Twins, Alike, Counting, Fields

LEMMA ReasonTwins ==
    ASSUME NEW p, NEW w, Twins(p, w), NEW ch
    PROVE  Twins(ReasonPhrase(p, ch), ReasonPhrase(w, ch))
BY DEF ReasonPhrase, CALLBACK_DATA, Go, Twins, Alike, Counting, Fields

LEMMA CompletedTwins ==
    ASSUME NEW p, NEW w, Twins(p, w)
    PROVE  Twins(Completed(p), Completed(w))
BY DEF Completed, http_should_keep_alive, http_message_needs_eof, Go, Call, Twins, Alike,
       Counting, Fields

LEMMA MessageDoneTwins ==
    ASSUME NEW p, NEW w, Twins(p, w)
    PROVE  Twins(MessageDone(p), MessageDone(w))
BY DEF MessageDone, Completed, http_should_keep_alive, http_message_needs_eof, Go, Call, Twins,
       Alike, Counting, Fields

(* Outside the inner loops both may begin to count from nothing. *)
LEMMA CountedAgain ==
    ASSUME NEW p, NEW w, Twins(p, w), w.passed = 0
    PROVE  Twins([p EXCEPT !.nread = 0], [w EXCEPT !.nread = 0])
BY ParserAssumption DEF Capped, Twins, Alike, Counting, Fields

(* The headers end, of a message or of its trailer. *)
LEMMA HeadersDoneTwins ==
    ASSUME NEW p, NEW w, Twins(p, w), w.passed = 0
    PROVE  Twins(HeadersDone(p), HeadersDone(w))
<1> DEFINE q == [p EXCEPT !.nread = 0]
           v == [w EXCEPT !.nread = 0]
<1>1. Twins(q, v)
  BY CountedAgain
<1>2. Twins(MessageDone(q), MessageDone(v)) /\ Twins(Completed(q), Completed(v))
  BY <1>1, MessageDoneTwins, CompletedTwins
<1>3. \A x : Twins(Go(q, x), Go(v, x))
  BY <1>1, TwinsPut DEF Go
<1>4. http_message_needs_eof(q) = http_message_needs_eof(v)
  BY <1>1 DEF http_message_needs_eof, Twins, Alike
<1>5. q.upgrade = v.upgrade /\ q.method = v.method /\ q.flags = v.flags
      /\ q.content_length = v.content_length
  BY <1>1 DEF Twins, Alike
<1> HIDE DEF q, v
<1>6. QED
  BY <1>2, <1>3, <1>4, <1>5 DEF HeadersDone, q, v

LEMMA HeadersAlmostDoneTwins ==
    ASSUME NEW p, NEW w, Twins(p, w), w.passed = 0, NEW ch
    PROVE  Twins(HeadersAlmostDone(p, ch), HeadersAlmostDone(w, ch))
<1> DEFINE up(r) == {"UPGRADE", "CONNECTION_UPGRADE"} \subseteq r.flags \/ r.method = "CONNECT"
           d(r) == Call([r EXCEPT !.state = "s_headers_done", !.upgrade = up(r)],
                        "headers_complete")
<1>1. p.flags = w.flags /\ p.method = w.method
  BY DEF Twins, Alike
<1>2. Twins(MessageDone(p), MessageDone(w))
  BY MessageDoneTwins
<1>3. \A e : Twins(Fail(p, e), Fail(w, e))
  BY TwinsPut DEF Fail
<1>4. Twins(d(p), d(w)) /\ d(w).passed = 0
  BY <1>1 DEF Call, Twins, Alike, Counting, Fields
<1>5. Twins(HeadersDone(d(p)), HeadersDone(d(w)))
  BY <1>4, HeadersDoneTwins
<1> HIDE DEF d
<1>6. QED
  BY <1>1, <1>2, <1>3, <1>5 DEF HeadersAlmostDone, d, up

(* Header lines begin, and values. *)
LEMMA HeaderFieldStartTwins ==
    ASSUME NEW p, NEW w, Twins(p, w), w.passed = 0, NEW ch
    PROVE  Twins(HeaderFieldStart(p, ch), HeaderFieldStart(w, ch))
<1>1. \A s : Twins(Go(p, s), Go(w, s)) /\ Go(w, s).passed = 0
  BY DEF Go, Twins, Alike, Counting, Fields
<1>2. Twins(HeadersAlmostDone(Go(p, "s_headers_almost_done"), ch),
            HeadersAlmostDone(Go(w, "s_headers_almost_done"), ch))
  BY <1>1, HeadersAlmostDoneTwins
<1>3. QED
  BY <1>1, <1>2 DEF HeaderFieldStart, MARK, Go, Fail, Twins, Alike, Counting, Fields

LEMMA FieldByteTwins ==
    ASSUME NEW p, NEW w, Twins(p, w), NEW ch
    PROVE  Twins(FieldByte(p, ch), FieldByte(w, ch))
BY DEF FieldByte, Match, Twins, Alike, Counting, Fields

LEMMA HeaderValueStartTwins ==
    ASSUME NEW p, NEW w, Twins(p, w), NEW ch
    PROVE  Twins(HeaderValueStart(p, ch), HeaderValueStart(w, ch))
BY DEF HeaderValueStart, FirstOfLength, Flag, MARK, Go, Fail, Twins, Alike, Counting, Fields

LEMMA HeaderValueLwsTwins ==
    ASSUME NEW p, NEW w, Twins(p, w), w.passed = 0, NEW ch
    PROVE  Twins(HeaderValueLws(p, ch), HeaderValueLws(w, ch))
<1> DEFINE s == "s_header_field_start"
<1>1. Twins(Flagged(p), Flagged(w)) /\ Flagged(w).passed = 0
  BY DEF Flagged, Flag, Twins, Alike, Counting, Fields
<1>2. Twins(Go(Flagged(p), s), Go(Flagged(w), s)) /\ Go(Flagged(w), s).passed = 0
  BY <1>1 DEF Go, Twins, Alike, Counting, Fields
<1>3. Twins(HeaderFieldStart(Go(Flagged(p), s), ch), HeaderFieldStart(Go(Flagged(w), s), ch))
  BY <1>2, HeaderFieldStartTwins
<1>4. Twins(HeaderValueStart(p, ch), HeaderValueStart(w, ch))
  BY HeaderValueStartTwins
<1>5. QED
  BY <1>3, <1>4 DEF HeaderValueLws

LEMMA DiscardLwsTwins ==
    ASSUME NEW p, NEW w, Twins(p, w), w.passed = 0, NEW ch
    PROVE  Twins(HeaderValueDiscardLws(p, ch), HeaderValueDiscardLws(w, ch))
<1> DEFINE d(r) == Call(Go(Flagged(r), "s_header_field_start"), "header_value")
<1>1. Twins(Flagged(p), Flagged(w)) /\ Flagged(w).passed = 0
  BY DEF Flagged, Flag, Twins, Alike, Counting, Fields
<1>2. Twins(d(p), d(w)) /\ d(w).passed = 0
  BY <1>1 DEF Go, Call, Twins, Alike, Counting, Fields
<1>3. QED
  BY <1>2, HeaderFieldStartTwins DEF HeaderValueDiscardLws

(* The last byte of a body ends its message for both. *)
LEMMA BodyIdentityTwins ==
    ASSUME NEW p, NEW w, Twins(p, w)
    PROVE  Twins(BodyIdentity(p), BodyIdentity(w))
<1> DEFINE d(r) == CALLBACK_DATA(Go(BodyByte(r), "s_message_done"), "body")
<1>1. Twins(BodyByte(p), BodyByte(w))
  BY DEF BodyByte, MARK, Twins, Alike, Counting, Fields
<1>2. Twins(d(p), d(w))
  BY <1>1 DEF CALLBACK_DATA, Go, Twins, Alike, Counting, Fields
<1>3. Twins(MessageDone(d(p)), MessageDone(d(w)))
  BY <1>2, MessageDoneTwins
<1>4. BodyByte(p).content_length = BodyByte(w).content_length
  BY <1>1 DEF Twins, Alike
<1>5. QED
  BY <1>1, <1>3, <1>4 DEF BodyIdentity

(* A number grows by the same digit. *)
LEMMA NumberTwins ==
    ASSUME NEW p, NEW w, Twins(p, w), p.state \in NumberStates, NEW ch
    PROVE  Twins(Number(p, ch), Number(w, ch))
<1> DEFINE n == CHOOSE m \in Numbers : p.state \in {m[2], m[3]}
           d(r) == IF p.state = n[2] THEN Digit[ch] ELSE 10 * r[n[1]] + Digit[ch]
           at(r) == [Go(r, n[3]) EXCEPT ![n[1]] = d(r)]
<1>1. n \in Numbers
  BY DEF NumberStates
<1>2. n[1] \in {"http_major", "http_minor", "status_code"}
  BY <1>1, NumberFields
<1>3. p.state = w.state
  BY DEF Twins, Alike
<1>4. \A e : Twins(Fail(p, e), Fail(w, e))
  BY TwinsPut DEF Fail
<1> HIDE DEF n
<1>5. d(p) = d(w)
  BY <1>2 DEF Twins, Alike
<1>6. Twins(Go(p, n[3]), Go(w, n[3]))
  BY TwinsPut DEF Go
<1> HIDE DEF d
<1>7. Twins(at(p), at(w))
  BY <1>2, <1>5, <1>6, TwinsPut
<1> HIDE DEF at
<1>8. \A e : Twins(Fail(at(p), e), Fail(at(w), e))
  BY <1>7, TwinsPut DEF Fail
<1> DEFINE to(r) == CASE ch \notin NUM -> Fail(r, n[4])
                      [] r.state = "s_req_first_http_major" /\ ch = "0" -> Fail(r, n[4])
                      [] OTHER -> IF d(r) > 999 THEN Fail(at(r), n[4]) ELSE at(r)
<1>9. Number(p, ch) = to(p) /\ Number(w, ch) = to(w)
  BY <1>3 DEF Number, n, d, at
<1>10. QED
  BY <1>3, <1>4, <1>5, <1>7, <1>8, <1>9

(* Bytes of values, of chunk sizes and of chunks. *)
LEMMA ValueByteTwins ==
    ASSUME NEW p, NEW w, Twins(p, w), NEW ch
    PROVE  Twins(ValueByte(p, ch), ValueByte(w, ch))
BY DEF ValueByte, ListStart, ListRest, Flagged, Flag, Match, Grown, Fail, Twins, Alike,
       Counting, Fields

LEMMA ChunkSizeStartTwins ==
    ASSUME NEW p, NEW w, Twins(p, w), NEW ch
    PROVE  Twins(ChunkSizeStart(p, ch), ChunkSizeStart(w, ch))
BY DEF ChunkSizeStart, Go, Fail, Twins, Alike, Counting, Fields

LEMMA ChunkSizeTwins ==
    ASSUME NEW p, NEW w, Twins(p, w), NEW ch
    PROVE  Twins(ChunkSize(p, ch), ChunkSize(w, ch))
BY DEF ChunkSize, Grown, Fail, Twins, Alike, Counting, Fields

LEMMA ChunkDataTwins ==
    ASSUME NEW p, NEW w, Twins(p, w)
    PROVE  Twins(ChunkData(p), ChunkData(w))
BY DEF ChunkData, BodyByte, MARK, Go, Twins, Alike, Counting, Fields

LEMMA ChunkDataAlmostDoneTwins ==
    ASSUME NEW p, NEW w, Twins(p, w), NEW ch
    PROVE  Twins(ChunkDataAlmostDone(p, ch), ChunkDataAlmostDone(w, ch))
BY DEF ChunkDataAlmostDone, CALLBACK_DATA, Go, Fail, Twins, Alike, Counting, Fields

LEMMA ChunkSizeAlmostDoneTwins ==
    ASSUME NEW p, NEW w, Twins(p, w), NEW ch, w.passed = 0
    PROVE  Twins(ChunkSizeAlmostDone(p, ch), ChunkSizeAlmostDone(w, ch))
BY ParserAssumption
   DEF ChunkSizeAlmostDone, Flag, Go, Fail, Capped, Twins, Alike, Counting, Fields

LEMMA ChunkDataDoneTwins ==
    ASSUME NEW p, NEW w, Twins(p, w), NEW ch, w.passed = 0
    PROVE  Twins(ChunkDataDone(p, ch), ChunkDataDone(w, ch))
BY ParserAssumption DEF ChunkDataDone, Go, Fail, Capped, Twins, Alike, Counting, Fields
-----------------------------------------------------------------------------
(* Counting, and the inner loops. *)

(* Texts that a value may hold, and the buffers if all of them are such. *)
PlainText  == Seq(STRING \ {NUL, "\f", "DEL"})
PlainWords == \A word \in Words : Text(word) \in PlainText

(* p has refused what an uncut parser may accept: its header is too long by    *)
(* the bytes that were counted twice, or after a cut it has looked at a byte   *)
(* that an uncut loop skips.                                                  *)
Stricter(p) ==
    \/ p.http_errno = "HEADER_OVERFLOW" /\ HTTP_MAX_HEADER_SIZE < MaxCount
    \/ p.http_errno = "INVALID_HEADER_TOKEN" /\ p.state = "s_header_value" /\ ~PlainWords

(* What each byte keeps. *)
Near(p, w) == Stricter(p) \/ Twins(p, w)

(* Only the cut parser may run into the limit alone. *)
LEMMA LoopEndTwins ==
    ASSUME NEW p, NEW w, Twins(p, w), ~Failed(p)
    PROVE  Near(LoopEnd(p), LoopEnd(w)) /\ (Failed(LoopEnd(p)) => Stricter(LoopEnd(p)))
BY ParserAssumption
   DEF LoopEnd, COUNT_HEADER_SIZE, Capped, Fail, Failed, Near, Stricter, Twins, Alike,
       Counting, Fields

(* A byte is counted, of the one or of both. *)
LEMMA CountedTwins ==
    ASSUME NEW p, NEW w, Twins(p, w), ~Failed(p)
    PROVE  Near(Counted(p), Counted(w)) /\ (Failed(Counted(p)) => Stricter(Counted(p)))
BY ParserAssumption
   DEF Counted, COUNT_HEADER_SIZE, Capped, Fail, Failed, Near, Stricter, Twins, Alike,
       Counting, Fields

(* An inner loop passes a byte. *)
LEMMA PassedTwins ==
    ASSUME NEW p, NEW w, Twins(p, w)
    PROVE  Twins([p EXCEPT !.passed = Capped(@ + 1)], [w EXCEPT !.passed = Capped(@ + 1)])
BY ParserAssumption DEF Capped, Twins, Alike, Counting, Fields

(* The inner loop of names. *)
LEMMA HeaderFieldTwins ==
    ASSUME NEW p, NEW w, Twins(p, w), ~Failed(p), NEW ch
    PROVE  Near(HeaderField(p, ch), HeaderField(w, ch))
<1> DEFINE q == LoopEnd(p)
           v == LoopEnd(w)
           d(r) == FieldByte(r, Lowered(ch))
<1>1. Near(q, v) /\ (Failed(q) => Stricter(q))
  BY LoopEndTwins
<1>2. Twins(d(p), d(w))
  BY FieldByteTwins
<1>3. Twins([d(p) EXCEPT !.passed = Capped(@ + 1)], [d(w) EXCEPT !.passed = Capped(@ + 1)])
  BY <1>2, PassedTwins
<1>4. CASE ch \in TOKEN
  <2>1. /\ HeaderField(p, ch) = [d(p) EXCEPT !.passed = Capped(@ + 1)]
        /\ HeaderField(w, ch) = [d(w) EXCEPT !.passed = Capped(@ + 1)]
    BY <1>4 DEF HeaderField
  <2>2. QED
    BY <1>3, <2>1, Zenon DEF Near
<1>5. CASE ch \notin TOKEN /\ Failed(q)
  BY <1>1, <1>5 DEF HeaderField, Near
<1>6. CASE ch \notin TOKEN /\ ~Failed(q)
  <2>1. Twins(q, v) /\ ~Failed(v)
    BY <1>1, <1>6 DEF Near, Stricter, Failed, Twins, Alike
  <2> HIDE DEF q, v
  <2>2. Twins(Fail(q, "INVALID_HEADER_TOKEN"), Fail(v, "INVALID_HEADER_TOKEN"))
    BY <2>1, TwinsPut DEF Fail
  <2>3. Twins(CALLBACK_DATA(Go(q, "s_header_value_discard_ws"), "header_field"),
              CALLBACK_DATA(Go(v, "s_header_value_discard_ws"), "header_field"))
    BY <2>1, TwinsPut DEF Go, CALLBACK_DATA
  <2>4. QED
    BY <1>6, <2>1, <2>2, <2>3 DEF HeaderField, Near, q, v
<1>7. QED
  BY <1>4, <1>5, <1>6

(* The inner loop of values, which one of the two may skip through. *)
LEMMA HeaderValueTwins ==
    ASSUME NEW p, NEW w, Twins(p, w), ~Failed(p), p.state = "s_header_value",
           w.skipping => w.header_state = "h_general",
           NEW ch, PlainWords => IS_HEADER_CHAR(ch)
    PROVE  Near(HeaderValue(p, ch), HeaderValue(w, ch))
<1> DEFINE q == LoopEnd(p)
           v == LoopEnd(w)
<1>1. Near(q, v) /\ (Failed(q) => Stricter(q))
  BY LoopEndTwins
<1>2. CASE ch = CR
  <2> DEFINE d(r) == CALLBACK_DATA(Go(r, "s_header_almost_done"), "header_value")
  <2>1. Twins(d(p), d(w)) /\ ~Failed(d(p))
    BY DEF Failed, Go, CALLBACK_DATA, Twins, Alike, Counting, Fields
  <2>2. Near(LoopEnd(d(p)), LoopEnd(d(w)))
    BY <2>1, LoopEndTwins
  <2>3. HeaderValue(p, ch) = LoopEnd(d(p)) /\ HeaderValue(w, ch) = LoopEnd(d(w))
    BY <1>2 DEF HeaderValue, CR, LF
  <2>4. QED
    BY <2>2, <2>3, Zenon
<1>3. CASE ch = LF
  <2>1. CASE Failed(q)
    BY <1>1, <1>3, <2>1 DEF HeaderValue, Near, CR, LF
  <2>2. CASE ~Failed(q)
    <3>1. Twins(q, v) /\ ~Failed(v)
      BY <1>1, <2>2 DEF Near, Stricter, Failed, Twins, Alike
    <3> HIDE DEF q, v
    <3>2. Twins(CALLBACK_DATA(Go(q, "s_header_value_lws"), "header_value"),
                CALLBACK_DATA(Go(v, "s_header_value_lws"), "header_value"))
      BY <3>1, TwinsPut DEF Go, CALLBACK_DATA
    <3>3. QED
      BY <1>3, <2>2, <3>1, <3>2 DEF HeaderValue, Near, CR, LF, q, v
  <2>3. QED
    BY <2>1, <2>2
<1>4. CASE ch \notin {CR, LF} /\ ~p.skipping /\ ~IS_HEADER_CHAR(ch)
  <2>1. HeaderValue(p, ch) = Fail(p, "INVALID_HEADER_TOKEN")
    BY <1>4 DEF HeaderValue
  <2>2. Stricter(Fail(p, "INVALID_HEADER_TOKEN"))
    BY <1>4 DEF Stricter, Fail, Twins, Fields
  <2>3. QED
    BY <2>1, <2>2 DEF Near
<1>5. CASE ch \notin {CR, LF} /\ (p.skipping \/ IS_HEADER_CHAR(ch))
  <2> DEFINE x(r) == IF r.skipping THEN r ELSE ValueByte(r, ch)
             y(r) == [x(r) EXCEPT !.passed = Capped(@ + 1)]
  <2>1. p.skipping => w.skipping
    BY DEF Twins, Counting
  <2>2. HeaderValue(p, ch) = y(p) /\ HeaderValue(w, ch) = y(w)
    BY <1>5, <2>1 DEF HeaderValue
  <2>3. Twins(x(p), x(w))
    <3>1. CASE p.skipping
      BY <2>1, <3>1
    <3>2. CASE ~w.skipping
      BY <2>1, <3>2, ValueByteTwins
    <3>3. CASE ~p.skipping /\ w.skipping
      <4>1. p.header_state = "h_general"
        BY <3>3 DEF Twins, Alike
      <4>2. ValueByte(p, ch) = [p EXCEPT !.header_state = "h_general", !.skipping = TRUE]
        BY <4>1 DEF ValueByte, ListMatching, ListWhole
      <4>3. Twins([p EXCEPT !.header_state = "h_general", !.skipping = TRUE], w)
        BY <3>3, <4>1 DEF Twins, Alike, Counting, Fields
      <4>4. x(p) = ValueByte(p, ch) /\ x(w) = w
        BY <3>3
      <4>5. QED
        BY <4>2, <4>3, <4>4, Zenon
    <3>4. QED
      BY <3>1, <3>2, <3>3
  <2> HIDE DEF x
  <2>4. Twins(y(p), y(w))
    BY <2>3, PassedTwins
  <2>5. QED
    BY <2>2, <2>4 DEF Near
<1>6. QED
  BY <1>2, <1>3, <1>4, <1>5

(* Every handler. *)
LEMMA HandledTwins ==
    ASSUME NEW p, NEW w, Twins(p, w), ~Failed(p), p.state \notin Loops => w.passed = 0,
           w.skipping => w.header_state = "h_general",
           NEW ch, PlainWords => IS_HEADER_CHAR(ch)
    PROVE  Near(Handled(p, ch), Handled(w, ch))
<1>1. p.state = w.state
  BY DEF Twins, Alike
<1>2. p.state = "s_header_field" => Near(HeaderField(p, ch), HeaderField(w, ch))
  BY HeaderFieldTwins
<1>3. p.state = "s_header_value" => Near(HeaderValue(p, ch), HeaderValue(w, ch))
  BY HeaderValueTwins
<1>4. \A e : Twins(Fail(p, e), Fail(w, e))
  BY TwinsPut DEF Fail
<1>5. Twins(MARK(p, "body"), MARK(w, "body"))
  BY TwinsPut DEF MARK
<1>6. Twins(MARK([Go(p, "s_res_status") EXCEPT !.index = 0], "status"),
            MARK([Go(w, "s_res_status") EXCEPT !.index = 0], "status"))
  BY DEF MARK, Go, Twins, Alike, Counting, Fields
<1>7. p.state \in NumberStates => Twins(Number(p, ch), Number(w, ch))
  BY NumberTwins
<1>8. /\ Twins(StartRequest(p, ch), StartRequest(w, ch))
      /\ Twins(StartResponse(p, ch), StartResponse(w, ch))
      /\ Twins(Method(p, ch), Method(w, ch))
      /\ Twins(Url(p, ch), Url(w, ch))
      /\ Twins(ReasonPhrase(p, ch), ReasonPhrase(w, ch))
      /\ Twins(HeaderValueStart(p, ch), HeaderValueStart(w, ch))
  BY StartRequestTwins, StartResponseTwins, MethodTwins, UrlTwins, ReasonTwins,
     HeaderValueStartTwins
<1>9. p.state \notin Loops =>
      /\ Twins(HeaderFieldStart(p, ch), HeaderFieldStart(w, ch))
      /\ Twins(HeaderValueLws(p, ch), HeaderValueLws(w, ch))
      /\ Twins(HeaderValueDiscardLws(p, ch), HeaderValueDiscardLws(w, ch))
      /\ Twins(HeadersAlmostDone(p, ch), HeadersAlmostDone(w, ch))
      /\ Twins(ChunkSizeAlmostDone(p, ch), ChunkSizeAlmostDone(w, ch))
      /\ Twins(ChunkDataDone(p, ch), ChunkDataDone(w, ch))
  BY HeaderFieldStartTwins, HeaderValueLwsTwins, DiscardLwsTwins, HeadersAlmostDoneTwins,
     ChunkSizeAlmostDoneTwins, ChunkDataDoneTwins
<1>10. /\ Twins(BodyIdentity(p), BodyIdentity(w))
       /\ Twins(ChunkSizeStart(p, ch), ChunkSizeStart(w, ch))
       /\ Twins(ChunkSize(p, ch), ChunkSize(w, ch))
       /\ Twins(ChunkData(p), ChunkData(w))
       /\ Twins(ChunkDataAlmostDone(p, ch), ChunkDataAlmostDone(w, ch))
  BY BodyIdentityTwins, ChunkSizeStartTwins, ChunkSizeTwins, ChunkDataTwins,
     ChunkDataAlmostDoneTwins
<1>11. QED
  BY <1>1, <1>2, <1>3, <1>4, <1>5, <1>6, <1>7, <1>8, <1>9, <1>10 DEF Handled, Near, Loops

(* A byte, by the table or by its handler. *)
LEMMA TransitionTwins ==
    ASSUME NEW p, NEW w, Twins(p, w), ~Failed(p), p.state \notin Loops => w.passed = 0,
           w.skipping => w.header_state = "h_general",
           NEW ch, PlainWords => IS_HEADER_CHAR(ch)
    PROVE  Near(Transition(p, ch), Transition(w, ch))
<1>1. p.state = w.state
  BY DEF Twins, Alike
<1>2. Near(Handled(p, ch), Handled(w, ch))
  BY HandledTwins
<1>3. \A s : Twins(Go(p, s), Go(w, s))
  BY TwinsPut DEF Go
<1>4. QED
  BY <1>1, <1>2, <1>3 DEF Transition, Near
-----------------------------------------------------------------------------
(* Marks. *)

(* The marks that a byte leaves which took the machine from s to t: what a     *)
(* buffer that begins here would mark, and a body if it goes on.              *)
MarksAfter(s, t) ==
    Remarked(t) \cup (IF /\ s \in {"s_body_identity", "s_body_identity_eof", "s_chunk_data"}
                         /\ t \in {"s_body_identity", "s_body_identity_eof", "s_chunk_data",
                                   "s_chunk_data_almost_done"}
                      THEN {"body"} ELSE {})

(* A loop that skips is in a value of no known header. *)
Skips(p) == p.skipping => p.state = "s_header_value" /\ p.header_state = "h_general"

(* The marks after a byte depend on the states alone, not on the cuts. *)
Marked(s, q) == ~Failed(q) => q.marks = MarksAfter(s, q.state) /\ Skips(q)

(* States in which a body may be marked. *)
BodyParts == {"s_body_identity", "s_body_identity_eof", "s_chunk_data", "s_chunk_data_almost_done"}

(* Start lines. *)
LEMMA StartResponseMarks ==
    ASSUME NEW p, Fields \subseteq DOMAIN p, p.marks = {},
           ~p.skipping, p.state = "s_start_res", NEW ch
    PROVE  Marked(p.state, StartResponse(p, ch))
BY DEF StartResponse, NewHeaders, Go, Fail, Marked, MarksAfter, Remarked, Skips, Failed,
       Fields, UrlStates, UrlEnds

LEMMA StartRequestMarks ==
    ASSUME NEW p, Fields \subseteq DOMAIN p, p.marks = {},
           ~p.skipping, p.state = "s_start_req", NEW ch
    PROVE  Marked(p.state, StartRequest(p, ch))
BY DEF StartRequest, NewHeaders, Go, Fail, Marked, MarksAfter, Remarked, Skips, Failed, Fields,
       UrlStates, UrlEnds

LEMMA MethodMarks ==
    ASSUME NEW p, Fields \subseteq DOMAIN p, p.marks = {},
           ~p.skipping, p.state = "s_req_method", NEW ch
    PROVE  Marked(p.state, Method(p, ch))
BY DEF Method, Go, Fail, Marked, MarksAfter, Remarked, Skips, Failed, Fields, UrlStates, UrlEnds

LEMMA ReasonMarks ==
    ASSUME NEW p, Fields \subseteq DOMAIN p, p.marks = {"status"},
           ~p.skipping, p.state = "s_res_status", NEW ch
    PROVE  Marked(p.state, ReasonPhrase(p, ch))
BY DEF ReasonPhrase, CALLBACK_DATA, Go, Fail, Marked, MarksAfter, Remarked, Skips, Failed,
       Fields, UrlStates, UrlEnds

LEMMA UrlMarks ==
    ASSUME NEW p, Fields \subseteq DOMAIN p, p.marks = Remarked(p.state),
           ~p.skipping, p.state \in UrlStates \cup {"s_req_spaces_before_url"}, NEW ch
    PROVE  Marked(p.state, Url(p, ch))
BY UrlTargets
   DEF Url, MARK, CALLBACK_DATA, Go, Fail, Marked, MarksAfter, Remarked, Skips, Failed, Fields,
       UrlStates, UrlEnds

(* No number has a callback. *)
LEMMA NumberMarks ==
    ASSUME NEW p, Fields \subseteq DOMAIN p, p.marks = {},
           ~p.skipping, p.state \in NumberStates, NEW ch
    PROVE  Marked(p.state, Number(p, ch))
<1> DEFINE n == CHOOSE m \in Numbers : p.state \in {m[2], m[3]}
           d == IF p.state = n[2] THEN Digit[ch] ELSE 10 * p[n[1]] + Digit[ch]
           q == [Go(p, n[3]) EXCEPT ![n[1]] = d]
<1>1. n \in Numbers
  BY DEF NumberStates
<1>2. /\ n[1] \in {"http_major", "http_minor", "status_code"}
      /\ n[3] \in Lines /\ n[3] \notin UrlStates /\ n[3] # "s_res_status" /\ n[4] # "OK"
  BY <1>1, NumberFields
<1>3. p.state \notin {"s_body_identity", "s_body_identity_eof", "s_chunk_data"}
  BY NumberStatesAre
<1>4. Number(p, ch) \in {Fail(p, n[4]), q, Fail(q, n[4])}
  BY DEF Number
<1> HIDE DEF n, d
<1>5. q.marks = {} /\ ~q.skipping /\ q.state = n[3]
  BY <1>2 DEF Go, Fields
<1>6. Remarked(n[3]) = {}
  BY <1>2, Disjoint DEF Remarked, Heads
<1>7. Fields \subseteq DOMAIN q
  BY DEF Go
<1>8. Marked(p.state, q)
  BY <1>3, <1>5, <1>6 DEF Marked, MarksAfter, Skips
<1> HIDE DEF q
<1>9. Failed(Fail(p, n[4])) /\ Failed(Fail(q, n[4]))
  BY <1>2, <1>7 DEF Fail, Failed, Fields
<1>10. QED
  BY <1>4, <1>8, <1>9 DEF Marked

(* Values, bodies, chunks and names. *)
LEMMA HeaderValueStartMarks ==
    ASSUME NEW p, Fields \subseteq DOMAIN p, p.marks = {},
           ~p.skipping, p.state \in {"s_header_value_discard_ws", "s_header_value_lws"}, NEW ch
    PROVE  Marked(p.state, HeaderValueStart(p, ch))
BY DEF HeaderValueStart, FirstOfLength, Flag, MARK, Go, Fail, Marked, MarksAfter, Remarked,
       Skips, Failed, Fields, UrlStates, UrlEnds

LEMMA BodyIdentityMarks ==
    ASSUME NEW p, Fields \subseteq DOMAIN p, p.marks \subseteq {"body"},
           ~p.skipping, p.state = "s_body_identity"
    PROVE  Marked(p.state, BodyIdentity(p))
BY DEF BodyIdentity, BodyByte, MessageDone, Completed, Call, MARK, CALLBACK_DATA, Go, Marked,
       MarksAfter, Remarked, Skips, Failed, Fields, UrlStates, UrlEnds

LEMMA ChunkSizeStartMarks ==
    ASSUME NEW p, Fields \subseteq DOMAIN p, p.marks = {},
           ~p.skipping, p.state = "s_chunk_size_start", NEW ch
    PROVE  Marked(p.state, ChunkSizeStart(p, ch))
BY DEF ChunkSizeStart, Go, Fail, Marked, MarksAfter, Remarked, Skips, Failed, Fields,
       UrlStates, UrlEnds

LEMMA ChunkSizeMarks ==
    ASSUME NEW p, Fields \subseteq DOMAIN p, p.marks = {},
           ~p.skipping, p.state = "s_chunk_size", NEW ch
    PROVE  Marked(p.state, ChunkSize(p, ch))
BY DEF ChunkSize, Grown, Fail, Marked, MarksAfter, Remarked, Skips, Failed, Fields, UrlStates,
       UrlEnds

LEMMA ChunkDataMarks ==
    ASSUME NEW p, Fields \subseteq DOMAIN p, p.marks \subseteq {"body"},
           ~p.skipping, p.state = "s_chunk_data"
    PROVE  Marked(p.state, ChunkData(p))
BY DEF ChunkData, BodyByte, MARK, Go, Marked, MarksAfter, Remarked, Skips, Failed, Fields,
       UrlStates, UrlEnds

LEMMA ChunkDataAlmostDoneMarks ==
    ASSUME NEW p, Fields \subseteq DOMAIN p, p.marks \subseteq {"body"},
           ~p.skipping, p.state = "s_chunk_data_almost_done", NEW ch
    PROVE  Marked(p.state, ChunkDataAlmostDone(p, ch))
BY DEF ChunkDataAlmostDone, CALLBACK_DATA, Go, Fail, Marked, MarksAfter, Remarked, Skips,
       Failed, Fields, UrlStates, UrlEnds

LEMMA ChunkSizeAlmostDoneMarks ==
    ASSUME NEW p, Fields \subseteq DOMAIN p, p.marks = {},
           ~p.skipping, p.state = "s_chunk_size_almost_done", NEW ch
    PROVE  Marked(p.state, ChunkSizeAlmostDone(p, ch))
BY DEF ChunkSizeAlmostDone, Flag, Go, Fail, Marked, MarksAfter, Remarked, Skips, Failed,
       Fields, UrlStates, UrlEnds

LEMMA ChunkDataDoneMarks ==
    ASSUME NEW p, Fields \subseteq DOMAIN p, p.marks = {},
           ~p.skipping, p.state = "s_chunk_data_done", NEW ch
    PROVE  Marked(p.state, ChunkDataDone(p, ch))
BY DEF ChunkDataDone, Go, Fail, Marked, MarksAfter, Remarked, Skips, Failed, Fields, UrlStates,
       UrlEnds

LEMMA FieldByteMarks ==
    ASSUME NEW p, Fields \subseteq DOMAIN p, p.marks = {"header_field"},
           ~p.skipping, p.state = "s_header_field", NEW ch
    PROVE  Marked(p.state, FieldByte(p, ch))
BY DEF FieldByte, Match, Marked, MarksAfter, Remarked, Skips, Failed, Fields, UrlStates, UrlEnds

(* Nothing is marked, nor would be. *)
Bare(q) == ~Failed(q) => q.marks = {} /\ Remarked(q.state) = {} /\ ~q.skipping

(* The end of the headers has no data for a callback. *)
LEMMA HeadersDoneMarks ==
    ASSUME NEW p, Fields \subseteq DOMAIN p, p.marks = {}, ~p.skipping
    PROVE  Bare(HeadersDone(p))
BY DEF HeadersDone, MessageDone, Completed, Call, Go, Bare, Remarked, Failed, Fields,
       UrlStates, UrlEnds

LEMMA HeadersAlmostDoneMarks ==
    ASSUME NEW p, Fields \subseteq DOMAIN p, p.marks = {}, ~p.skipping, NEW ch
    PROVE  Bare(HeadersAlmostDone(p, ch))
<1> DEFINE up == {"UPGRADE", "CONNECTION_UPGRADE"} \subseteq p.flags \/ p.method = "CONNECT"
           d == Call([p EXCEPT !.state = "s_headers_done", !.upgrade = up], "headers_complete")
<1>1. Fields \subseteq DOMAIN d /\ d.marks = {} /\ ~d.skipping
  BY DEF Call, Fields
<1>2. Bare(HeadersDone(d))
  BY <1>1, HeadersDoneMarks
<1>3. Bare(MessageDone(p))
  BY DEF MessageDone, Completed, Call, Go, Bare, Remarked, Failed, Fields, UrlStates, UrlEnds
<1>4. \A e : e # "OK" => Bare(Fail(p, e))
  BY DEF Bare, Fail, Failed, Fields
<1> HIDE DEF d
<1>5. HeadersAlmostDone(p, ch) \in {Fail(p, "STRICT"), MessageDone(p),
                                    Fail(p, "UNEXPECTED_CONTENT_LENGTH"), HeadersDone(d)}
  BY DEF HeadersAlmostDone, d
<1>6. QED
  BY <1>2, <1>3, <1>4, <1>5

(* A name is marked from its first byte. *)
LEMMA HeaderFieldStartMarks ==
    ASSUME NEW p, Fields \subseteq DOMAIN p, p.marks = {}, ~p.skipping, NEW ch,
           NEW s, s \notin {"s_body_identity", "s_body_identity_eof", "s_chunk_data"}
    PROVE  Marked(s, HeaderFieldStart(p, ch))
<1> DEFINE d == Go(p, "s_headers_almost_done")
           m == [MARK(Go(p, "s_header_field"), "header_field") EXCEPT
                             !.index = 0, !.header_state = FirstLetter(Lowered(ch))]
<1>1. Fields \subseteq DOMAIN d /\ d.marks = {} /\ ~d.skipping /\ d.state = "s_headers_almost_done"
  BY DEF Go, Fields
<1>2. Bare(HeadersAlmostDone(d, ch)) /\ Bare(d)
  BY <1>1, HeadersAlmostDoneMarks DEF Bare, Remarked, UrlStates, UrlEnds
<1>3. \A q : Bare(q) => Marked(s, q)
  BY DEF Bare, Marked, MarksAfter, Skips
<1>4. Marked(s, m) /\ Marked(s, Fail(p, "INVALID_HEADER_TOKEN"))
  BY DEF MARK, Go, Fail, Marked, MarksAfter, Remarked, Skips, Failed, Fields, UrlStates, UrlEnds
<1> HIDE DEF d, m
<1>5. HeaderFieldStart(p, ch) \in {HeadersAlmostDone(d, ch), d, m, Fail(p, "INVALID_HEADER_TOKEN")}
  BY DEF HeaderFieldStart, d, m
<1>6. QED
  BY <1>2, <1>3, <1>4, <1>5

LEMMA FieldAfterMarks ==
    ASSUME NEW p, Fields \subseteq DOMAIN p, p.marks = {}, ~p.skipping, NEW ch
    PROVE  /\ p.state = "s_header_value_lws" => Marked(p.state, HeaderValueLws(p, ch))
           /\ p.state = "s_header_value_discard_lws" => Marked(p.state, HeaderValueDiscardLws(p, ch))
<1> DEFINE g == Go(Flagged(p), "s_header_field_start")
           c == Call(g, "header_value")
<1>1. /\ Fields \subseteq DOMAIN g /\ g.marks = {} /\ ~g.skipping
      /\ Fields \subseteq DOMAIN c /\ c.marks = {} /\ ~c.skipping
  BY DEF Flagged, Flag, Go, Call, Fields
<1> HIDE DEF g, c
<1>2. p.state \in {"s_header_value_lws", "s_header_value_discard_lws"} =>
        Marked(p.state, HeaderFieldStart(g, ch)) /\ Marked(p.state, HeaderFieldStart(c, ch))
  BY <1>1, HeaderFieldStartMarks
<1>3. p.state = "s_header_value_lws" => Marked(p.state, HeaderValueStart(p, ch))
  BY HeaderValueStartMarks
<1>4. QED
  BY <1>2, <1>3 DEF HeaderValueLws, HeaderValueDiscardLws, g, c

(* The end of an inner loop marks nothing. *)
LEMMA LoopEndMarks ==
    ASSUME NEW p, Fields \subseteq DOMAIN p
    PROVE  LET q == LoopEnd(p)
           IN  /\ Fields \subseteq DOMAIN q /\ q.marks = p.marks /\ q.state = p.state
               /\ q.header_state = p.header_state /\ q.skipping = FALSE /\ q.data = p.data
BY DEF LoopEnd, COUNT_HEADER_SIZE, Fail, Fields

(* Names and values are marked to their end. *)
LEMMA HeaderFieldMarks ==
    ASSUME NEW p, Fields \subseteq DOMAIN p, p.marks = {"header_field"}, ~p.skipping,
           p.state = "s_header_field", NEW ch
    PROVE  Marked(p.state, HeaderField(p, ch))
<1> DEFINE q == LoopEnd(p)
           v == [FieldByte(p, Lowered(ch)) EXCEPT !.passed = Capped(@ + 1)]
           e == CALLBACK_DATA(Go(q, "s_header_value_discard_ws"), "header_field")
           x == Fail(q, "INVALID_HEADER_TOKEN")
<1>1. Marked(p.state, v)
  BY DEF FieldByte, Match, Marked, MarksAfter, Remarked, Skips, Failed, Fields, UrlStates,
         UrlEnds
<1>2. Fields \subseteq DOMAIN q /\ q.marks = p.marks /\ q.skipping = FALSE
  BY LoopEndMarks
<1> HIDE DEF q
<1>3. Marked(p.state, e) /\ Marked(p.state, x)
  BY <1>2
     DEF CALLBACK_DATA, Go, Fail, Marked, MarksAfter, Remarked, Skips, Failed, Fields,
         UrlStates, UrlEnds
<1>4. Failed(q) => Marked(p.state, q)
  BY DEF Marked
<1> HIDE DEF v, e, x
<1>5. HeaderField(p, ch) \in {v, e, x} \/ (HeaderField(p, ch) = q /\ Failed(q))
  BY DEF HeaderField, q, v, e, x
<1>6. QED
  BY <1>1, <1>3, <1>4, <1>5

LEMMA HeaderValueMarks ==
    ASSUME NEW p, Fields \subseteq DOMAIN p, p.marks = {"header_value"}, Skips(p),
           p.state = "s_header_value", NEW ch
    PROVE  Marked(p.state, HeaderValue(p, ch))
<1> DEFINE q == LoopEnd(p)
           g == CALLBACK_DATA(Go(p, "s_header_almost_done"), "header_value")
           c == LoopEnd(g)
           e == CALLBACK_DATA(Go(q, "s_header_value_lws"), "header_value")
           x == Fail(p, "INVALID_HEADER_TOKEN")
           b == IF p.skipping THEN p ELSE ValueByte(p, ch)
           v == [b EXCEPT !.passed = Capped(@ + 1)]
<1>1. Fields \subseteq DOMAIN g /\ g.marks = {} /\ g.state = "s_header_almost_done"
  BY DEF CALLBACK_DATA, Go, Fields
<1>2. Fields \subseteq DOMAIN q /\ q.marks = p.marks /\ q.skipping = FALSE
  BY LoopEndMarks
<1> HIDE DEF q, g
<1>3. c.marks = {} /\ c.skipping = FALSE /\ c.state = "s_header_almost_done"
  BY <1>1, LoopEndMarks
<1> HIDE DEF c
<1>4. Marked(p.state, c)
  BY <1>3 DEF Marked, MarksAfter, Remarked, Skips, UrlStates, UrlEnds
<1>5. Marked(p.state, e)
  BY <1>2
     DEF CALLBACK_DATA, Go, Marked, MarksAfter, Remarked, Skips, Failed, Fields, UrlStates,
         UrlEnds
<1>6. Failed(q) => Marked(p.state, q)
  BY DEF Marked
<1>7. Failed(x)
  BY DEF Fail, Failed, Fields
<1>8. Fields \subseteq DOMAIN b /\ b.marks = {"header_value"} /\ b.state = "s_header_value" /\ Skips(b)
  <2>1. CASE p.skipping
    BY <2>1
  <2>2. CASE ~p.skipping
    BY <2>2 DEF ValueByte, ListStart, ListRest, Flagged, Flag, Match, Grown, Fail, Skips, Fields
  <2>3. QED
    BY <2>1, <2>2
<1> HIDE DEF b
<1>9. Marked(p.state, v)
  BY <1>8 DEF Marked, MarksAfter, Remarked, Skips, Fields, UrlStates, UrlEnds
<1> HIDE DEF e, x, v
<1>10. HeaderValue(p, ch) \in {c, e, x, v} \/ (HeaderValue(p, ch) = q /\ Failed(q))
  BY DEF HeaderValue, c, e, x, v, q, g, b
<1>11. QED
  BY <1>4, <1>5, <1>6, <1>7, <1>9, <1>10 DEF Marked

(* The table is not about states that have marks. *)
LEMMA MovesUnmarked ==
    \A m \in Moves : /\ m[1] \notin BodyParts /\ Remarked(m[1]) = {} /\ m[1] \notin Loops
                     /\ Remarked(m[3]) = {}
<1>1. \A m \in Moves : /\ m[1] \notin UrlStates /\ m[3] \notin UrlStates
                       /\ m[1] \notin {"s_header_field", "s_header_value", "s_res_status"}
                       /\ m[3] \notin {"s_header_field", "s_header_value", "s_res_status"}
                       /\ m[1] \notin BodyParts
  BY DEF Moves, UrlStates, UrlEnds, BodyParts
<1>2. QED
  BY <1>1 DEF Remarked, Loops

(* What a parser that reads a byte has marked. *)
Ready(p) ==
    /\ Fields \subseteq DOMAIN p /\ ~Failed(p) /\ Skips(p)
    /\ p.state \notin BodyParts => p.marks = Remarked(p.state)
    /\ p.state \in BodyParts => p.marks \subseteq {"body"}

(* Every handler. *)
LEMMA HandledMarks ==
    ASSUME NEW p, Ready(p), NEW ch
    PROVE  Marked(p.state, Handled(p, ch))
<1>1. Fields \subseteq DOMAIN p /\ Skips(p) /\ (p.state # "s_header_value" => ~p.skipping)
  BY DEF Ready, Skips
<1>2. /\ p.state \in {"s_start_req", "s_start_res", "s_req_method", "s_req_spaces_before_url",
                      "s_res_status_start", "s_header_field_start", "s_header_value_discard_ws",
                      "s_header_value_lws", "s_header_value_discard_lws", "s_headers_almost_done",
                      "s_chunk_size_start", "s_chunk_size", "s_chunk_size_almost_done",
                      "s_chunk_data_done", "s_chunk_parameters"} \cup NumberStates
           => p.marks = {} /\ p.state # "s_header_value"
      /\ p.state = "s_res_status" => p.marks = {"status"}
      /\ p.state = "s_header_field" => p.marks = {"header_field"}
      /\ p.state = "s_header_value" => p.marks = {"header_value"}
      /\ p.state \in UrlStates \cup {"s_req_spaces_before_url"} =>
           p.marks = Remarked(p.state) /\ p.state # "s_header_value"
  BY NumberStatesAre DEF Ready, Remarked, BodyParts, UrlStates, UrlEnds
<1>3. p.state \in BodyParts => p.marks \subseteq {"body"} /\ p.state # "s_header_value"
  BY DEF Ready, BodyParts
<1>4. \A e : e # "OK" => Marked(p.state, Fail(p, e))
  BY <1>1 DEF Marked, Fail, Failed, Fields
<1>5. ErrnoOf(p.state) # "OK"
  BY DEF ErrnoOf
<1>6. p.state = "s_body_identity_eof" => Marked(p.state, MARK(p, "body"))
  BY <1>1, <1>3
     DEF MARK, Marked, MarksAfter, Remarked, Skips, BodyParts, Fields, UrlStates, UrlEnds
<1>7. p.state = "s_res_status_start" =>
        Marked(p.state, MARK([Go(p, "s_res_status") EXCEPT !.index = 0], "status"))
  BY <1>1, <1>2 DEF MARK, Go, Marked, MarksAfter, Remarked, Skips, Fields, UrlStates, UrlEnds
<1>8. p.state = "s_chunk_parameters" => Marked(p.state, p)
  BY <1>1, <1>2 DEF Marked, MarksAfter, Remarked, UrlStates, UrlEnds
<1>9. p.state = "s_headers_almost_done" => Marked(p.state, HeadersAlmostDone(p, ch))
  <2>1. SUFFICES ASSUME p.state = "s_headers_almost_done"
                 PROVE  Marked(p.state, HeadersAlmostDone(p, ch))
    OBVIOUS
  <2>2. Bare(HeadersAlmostDone(p, ch))
    BY <1>1, <1>2, <2>1, HeadersAlmostDoneMarks
  <2>3. QED
    BY <2>1, <2>2 DEF Bare, Marked, MarksAfter, Skips
<1>10. p.state = "s_header_field_start" => Marked(p.state, HeaderFieldStart(p, ch))
  BY <1>1, <1>2, HeaderFieldStartMarks
<1>11. p.state = "s_header_field" => Marked(p.state, HeaderField(p, ch))
  BY <1>1, <1>2, HeaderFieldMarks
<1>12. p.state = "s_header_value" => Marked(p.state, HeaderValue(p, ch))
  BY <1>1, <1>2, HeaderValueMarks
<1>13. /\ p.state = "s_header_value_lws" => Marked(p.state, HeaderValueLws(p, ch))
       /\ p.state = "s_header_value_discard_lws" => Marked(p.state, HeaderValueDiscardLws(p, ch))
  BY <1>1, <1>2, FieldAfterMarks
<1>14. /\ p.state = "s_start_req" => Marked(p.state, StartRequest(p, ch))
       /\ p.state = "s_start_res" => Marked(p.state, StartResponse(p, ch))
       /\ p.state = "s_req_method" => Marked(p.state, Method(p, ch))
       /\ p.state = "s_res_status" => Marked(p.state, ReasonPhrase(p, ch))
       /\ p.state = "s_header_value_discard_ws" => Marked(p.state, HeaderValueStart(p, ch))
  BY <1>1, <1>2, StartRequestMarks, StartResponseMarks, MethodMarks, ReasonMarks,
     HeaderValueStartMarks
<1>15. p.state \in UrlStates \cup {"s_req_spaces_before_url"} => Marked(p.state, Url(p, ch))
  BY <1>1, <1>2, UrlMarks
<1>16. p.state \in NumberStates => Marked(p.state, Number(p, ch))
  BY <1>1, <1>2, NumberMarks
<1>17. /\ p.state = "s_body_identity" => Marked(p.state, BodyIdentity(p))
       /\ p.state = "s_chunk_data" => Marked(p.state, ChunkData(p))
       /\ p.state = "s_chunk_data_almost_done" => Marked(p.state, ChunkDataAlmostDone(p, ch))
  BY <1>1, <1>3, BodyIdentityMarks, ChunkDataMarks, ChunkDataAlmostDoneMarks DEF BodyParts
<1>18. /\ p.state = "s_chunk_size_start" => Marked(p.state, ChunkSizeStart(p, ch))
       /\ p.state = "s_chunk_size" => Marked(p.state, ChunkSize(p, ch))
       /\ p.state = "s_chunk_size_almost_done" => Marked(p.state, ChunkSizeAlmostDone(p, ch))
       /\ p.state = "s_chunk_data_done" => Marked(p.state, ChunkDataDone(p, ch))
  BY <1>1, <1>2, ChunkSizeStartMarks, ChunkSizeMarks, ChunkSizeAlmostDoneMarks,
     ChunkDataDoneMarks
<1>19. QED
  BY <1>4, <1>5, <1>6, <1>7, <1>8, <1>9, <1>10, <1>11, <1>12, <1>13, <1>14, <1>15, <1>16, <1>17,
     <1>18 DEF Handled

(* A byte, by the table or by its handler. *)
LEMMA TransitionMarks ==
    ASSUME NEW p, Ready(p), NEW ch
    PROVE  Marked(p.state, Transition(p, ch))
<1>1. CASE Moved(p.state, ch) = {}
  BY <1>1, HandledMarks DEF Transition
<1>2. CASE Moved(p.state, ch) # {}
  <2> DEFINE m == CHOOSE x \in Moved(p.state, ch) : TRUE
  <2>1. m \in Moves /\ m[1] = p.state
    BY <1>2 DEF Moved
  <2>2. Transition(p, ch) = Go(p, m[3])
    BY <1>2 DEF Transition
  <2> HIDE DEF m
  <2>3. /\ p.marks = {} /\ Remarked(m[3]) = {} /\ ~p.skipping
        /\ p.state \notin {"s_body_identity", "s_body_identity_eof", "s_chunk_data"}
    BY <2>1, MovesUnmarked DEF Ready, Skips, Loops, BodyParts
  <2>4. Marked(p.state, Go(p, m[3]))
    BY <2>3 DEF Ready, Go, Marked, MarksAfter, Skips, Fields
  <2>5. QED
    BY <2>2, <2>4
<1>3. QED
  BY <1>1, <1>2

(* A parser has every field. *)
LEMMA ParserFields ==
    ASSUME NEW p \in Parser
    PROVE  Fields \subseteq DOMAIN p
BY DEF Parser, Fields

(* The body may be marked beside what a buffer that begins marks. *)
LEMMA Readiness ==
    ASSUME NEW p, Sound(p), ~Failed(p), p.marks \ {"body"} = Remarked(p.state), Skips(p)
    PROVE  Ready(p)
<1>1. Fields \subseteq DOMAIN p /\ p.marks \subseteq MarkOf(p.state)
  BY ParserFields DEF Sound
<1>2. "body" \notin Remarked(p.state)
  BY DEF Remarked
<1>3. p.state \notin BodyParts => p.marks = Remarked(p.state)
  BY <1>1, <1>2 DEF MarkOf, BodyParts, Bodies
<1>4. p.state \in BodyParts => p.marks \subseteq {"body"}
  BY <1>1 DEF MarkOf, BodyParts, Bodies
<1>5. QED
  BY <1>1, <1>3, <1>4 DEF Ready

(* The callbacks that a byte is data of, by the states alone. *)
DataAfter(s, t) == MarksAfter(s, t) \cup (IF s = "s_body_identity" THEN {"body"} ELSE {})

(* One turn of the loop. *)
LEMMA ReadMarks ==
    ASSUME NEW p, Sound(p), Ready(p), ~Stopped(p), NEW ch
    PROVE  LET q == Read(p, ch)
           IN  ~Failed(q) => Marked(p.state, q) /\ q.data = DataAfter(p.state, q.state)
<1> DEFINE r == [p EXCEPT !.calls = {}]
           c == Counted(r)
           t == Transition(c, ch)
           a == Attributed(p, t)
<1>1. Read(p, ch) = IF Failed(c) THEN c ELSE a
  BY DEF Read
<1>2. ASSUME ~Failed(c)
      PROVE  Ready(c) /\ c.state = p.state
  BY <1>2 DEF Ready, Counted, COUNT_HEADER_SIZE, Fail, Failed, Skips, Fields
<1> HIDE DEF r, c
<1>3. ASSUME ~Failed(c)
      PROVE  Marked(p.state, t)
  BY <1>2, <1>3, TransitionMarks
<1>4. ASSUME ~Failed(a), ~Failed(c)
      PROVE  Marked(p.state, a) /\ a.data = DataAfter(p.state, a.state)
  <2>1. a \in Parser
    BY <1>1, <1>4, ReadStep DEF Step, Sound
  <2> HIDE DEF t
  <2>2. Fields \subseteq DOMAIN t
    BY <2>1, ParserFields DEF Attributed
  <2>3. /\ a.http_errno = t.http_errno /\ a.marks = t.marks /\ a.state = t.state
        /\ a.skipping = t.skipping /\ a.header_state = t.header_state
        /\ a.data = t.marks \cup (IF p.state = "s_body_identity" THEN {"body"} ELSE {})
    BY <2>2 DEF Attributed, Fields
  <2>4. Marked(p.state, a)
    BY <1>3, <1>4, <2>3 DEF Marked, Failed, Skips
  <2>5. QED
    BY <1>3, <1>4, <2>3, <2>4 DEF Marked, DataAfter
<1> HIDE DEF a
<1>5. QED
  BY <1>1, <1>4 DEF a
-----------------------------------------------------------------------------
(* Bytes and buffers. *)

(* One turn of the loop of each. *)
LEMMA ReadTwins ==
    ASSUME NEW p, NEW w, Twins(p, w), Sound(p), Sound(w), Ready(w), ~Stopped(p),
           NEW ch, PlainWords => IS_HEADER_CHAR(ch)
    PROVE  Near(Read(p, ch), Read(w, ch))
<1> DEFINE r(x) == [x EXCEPT !.calls = {}]
           q == Counted(r(p))
           v == Counted(r(w))
           t == Transition(q, ch)
           u == Transition(v, ch)
           a == Attributed(p, t)
           b == Attributed(w, u)
<1>1. ~Failed(p) /\ ~Stopped(w) /\ p.state = w.state
  BY DEF Stopped, Failed, Twins, Alike
<1>2. Read(p, ch) = (IF Failed(q) THEN q ELSE a) /\ Read(w, ch) = (IF Failed(v) THEN v ELSE b)
  BY <1>1 DEF Read
<1>3. Twins(r(p), r(w)) /\ ~Failed(r(p))
  BY <1>1, TwinsPut DEF Failed, Twins, Fields
<1>4. /\ r(w).passed = w.passed /\ r(w).skipping = w.skipping /\ r(w).header_state = w.header_state
      /\ r(p).state = p.state
  BY DEF Twins, Fields
<1> HIDE DEF r
<1>5. Near(q, v) /\ (Failed(q) => Stricter(q))
  BY <1>3, CountedTwins
<1>6. /\ v.passed = w.passed /\ v.skipping = w.skipping /\ v.header_state = w.header_state
      /\ q.state = p.state
  BY <1>3, <1>4 DEF Counted, COUNT_HEADER_SIZE, Fail, Twins, Fields
<1> HIDE DEF q, v
<1>7. CASE Failed(q)
  BY <1>2, <1>5, <1>7 DEF Near
<1>8. CASE ~Failed(q)
  <2>1. Twins(q, v) /\ ~Failed(v)
    BY <1>5, <1>8 DEF Near, Stricter, Failed, Twins, Alike
  <2>2. w.skipping => w.header_state = "h_general"
    BY DEF Ready, Skips
  <2>3. p.state \notin Loops => w.passed = 0
    BY <1>1 DEF Sound, Looped, Stopped
  <2>4. Near(t, u)
    BY <1>6, <1>8, <2>1, <2>2, <2>3, TransitionTwins
  <2>5. Read(p, ch) = a /\ Read(w, ch) = b
    BY <1>2, <1>8, <2>1
  <2>6. a \in Parser
    BY <2>5, ReadStep DEF Step, Sound
  <2> HIDE DEF t, u
  <2>7. CASE Twins(t, u)
    <3>1. Twins(a, b)
      BY <2>7, TwinsPut DEF Attributed
    <3>2. QED
      BY <2>5, <3>1 DEF Near
  <2>8. CASE Stricter(t)
    <3>1. a.http_errno = t.http_errno /\ a.state = t.state
      BY <2>6, ParserFields DEF Attributed, Fields
    <3>2. QED
      BY <2>5, <2>8, <3>1 DEF Near, Stricter
  <2>9. QED
    BY <2>4, <2>7, <2>8 DEF Near
<1>9. QED
  BY <1>7, <1>8

(* A buffer ends for the one. *)
LEMMA BufferEndsTwins ==
    ASSUME NEW p, NEW w, Twins(p, w)
    PROVE  Near(BufferEnds(p), w) /\ (~Failed(BufferEnds(p)) => BufferEnds(p).data = p.data)
<1> DEFINE e == LoopEnd(p)
           m == [e EXCEPT !.marks = {}]
<1>1. CASE Stopped(p)
  BY <1>1 DEF BufferEnds, Near
<1>2. CASE ~Stopped(p)
  <2>1. BufferEnds(p) = IF Failed(e) THEN e ELSE m
    BY <1>2 DEF BufferEnds
  <2>2. e.data = p.data /\ m.data = p.data
    BY LoopEndMarks DEF Twins, Fields
  <2>3. ASSUME Failed(e)
        PROVE  Stricter(e)
    BY <1>2, <2>3, LoopEndTwins DEF Stopped
  <2>4. ASSUME ~Failed(e)
        PROVE  Twins(m, w)
    BY <1>2, <2>4, ParserAssumption
       DEF LoopEnd, COUNT_HEADER_SIZE, Capped, Fail, Failed, Stopped, Twins, Alike, Counting, Fields
  <2> HIDE DEF e, m
  <2>5. QED
    BY <2>1, <2>2, <2>3, <2>4 DEF Near
<1>3. QED
  BY <1>1, <1>2

(* No loop skips after the end of a buffer. *)
LEMMA BufferEndsSkips ==
    ASSUME NEW p, Fields \subseteq DOMAIN p, ~Failed(p) => Skips(p)
    PROVE  ~Failed(BufferEnds(p)) => Skips(BufferEnds(p))
<1> DEFINE e == LoopEnd(p)
           m == [e EXCEPT !.marks = {}]
<1>1. BufferEnds(p) \in {p, e, m}
  BY DEF BufferEnds
<1>2. ~e.skipping /\ ~m.skipping
  BY LoopEndMarks DEF Fields
<1> HIDE DEF e, m
<1>3. QED
  BY <1>1, <1>2 DEF Skips

(* A buffer begins for the one. *)
LEMMA BufferBeginsTwins ==
    ASSUME NEW p, NEW w, Twins(p, w), w.exited = FALSE
    PROVE  Twins(BufferBegins(p), w) /\ BufferBegins(p).data = p.data
BY DEF BufferBegins, Twins, Alike, Counting, Fields

(* Beside a body, what a buffer would mark is marked. *)
Again(p) == ~Failed(p) => p.marks \ {"body"} = Remarked(p.state)

(* What is marked again is what a buffer would mark. *)
LEMMA BufferBeginsAgain ==
    ASSUME NEW p, Fields \subseteq DOMAIN p
    PROVE  /\ Again(BufferBegins(p)) /\ Skips(BufferBegins(p)) = Skips(p)
           /\ Failed(BufferBegins(p)) = Failed(p)
           /\ Stricter(BufferBegins(p)) = Stricter(p)
<1>1. "body" \notin Remarked(p.state)
  BY DEF Remarked
<1>2. QED
  BY <1>1 DEF BufferBegins, Again, Skips, Stricter, Failed, Fields

(* The input ends for both. *)
LEMMA EndOfInputTwins ==
    ASSUME NEW p, NEW w, Twins(p, w)
    PROVE  /\ Twins(EndOfInput(p), EndOfInput(w))
           /\ EndOfInput(p).data = {} /\ EndOfInput(w).data = {}
           /\ EndOfInput(p).marks = p.marks /\ EndOfInput(p).state = p.state
           /\ Skips(EndOfInput(p)) = Skips(p)
           /\ Failed(p) => Failed(EndOfInput(p))
BY DEF EndOfInput, Call, Fail, Failed, Skips, Twins, Alike, Counting, Fields
-----------------------------------------------------------------------------
(* The specification. *)

(* The inductive invariant: the two are twins while the cut one has refused   *)
(* nothing that the other may accept, and a byte is data of the same          *)
(* callbacks.                                                                 *)
SplitInv ==
    /\ ParserInv
    /\ Sound(whole)
    /\ ~Failed(whole) => Skips(whole)
    /\ ~Failed(parser) => Skips(parser)
    /\ Again(whole)
    /\ text # <<>> => Again(parser)
    /\ Near(parser, whole)
    /\ ~Stricter(parser) /\ ~Failed(parser) => parser.data = whole.data
    /\ PlainWords => text \in PlainText

(* A plain text is read byte by byte. *)
LEMMA FirstAndRest ==
    /\ \A t \in PlainText : t # <<>> => IS_HEADER_CHAR(Head(t)) /\ Tail(t) \in PlainText
    /\ <<>> \in PlainText
<1>1. \A S : \A t \in Seq(S) : t # <<>> => Head(t) \in S /\ Tail(t) \in Seq(S)
  OBVIOUS
<1>2. \A S : <<>> \in Seq(S)
  OBVIOUS
<1>3. QED
  BY <1>1, <1>2 DEF PlainText, IS_HEADER_CHAR

(* Both begin as the same parser. *)
LEMMA SplitBegins == SplitInit => SplitInv
<1> SUFFICES ASSUME SplitInit
             PROVE  SplitInv
  OBVIOUS
<1>1. PICK type \in {"HTTP_REQUEST", "HTTP_RESPONSE"} : parser = NewParser(type)
  BY DEF SplitInit, Init
<1>2. ParserInv /\ whole = parser /\ text = <<>>
  BY InitKeeps DEF SplitInit, Init
<1>3. /\ parser.marks = {} /\ ~parser.skipping /\ parser.nread = 0 /\ parser.passed = 0
      /\ parser.state \in {"s_start_req", "s_start_res"}
  BY <1>1 DEF NewParser
<1>4. Again(parser) /\ Skips(parser)
  BY <1>3 DEF Again, Skips, Remarked, UrlStates, UrlEnds
<1>5. Sound(parser) /\ Fields \subseteq DOMAIN parser
  BY <1>2, ParserFields DEF ParserInv, Sound
<1>6. Twins(parser, parser)
  BY <1>3, <1>5, ParserAssumption DEF Twins, Alike, Counting, Capped
<1>7. QED
  BY <1>2, <1>4, <1>5, <1>6, FirstAndRest DEF SplitInv, Near

(* Cuts, bytes, buffers and the end keep it. *)
LEMMA SplitKeeps == SplitInv /\ [SplitNext]_splitVars => SplitInv'
<1> SUFFICES ASSUME SplitInv, [SplitNext]_splitVars
             PROVE  SplitInv'
  OBVIOUS
<1>1. /\ ParserInv /\ Sound(parser) /\ Sound(whole) /\ Near(parser, whole)
      /\ Fields \subseteq DOMAIN parser /\ Fields \subseteq DOMAIN whole
  BY ParserFields DEF SplitInv, ParserInv, Sound
<1>2. ~Stopped(parser) => /\ Twins(parser, whole) /\ ~Stopped(whole) /\ ~Failed(parser)
                          /\ Skips(parser) /\ Skips(whole) /\ ~Failed(whole)
                          /\ whole.exited = FALSE
                          /\ parser.data = whole.data
  BY <1>1 DEF Near, Stricter, Stopped, Failed, SplitInv, Twins, Alike, Sound, Parser
<1>3. ASSUME text' = text \/ text' = <<>> \/ (text # <<>> /\ text' = Tail(text))
      PROVE  PlainWords => text' \in PlainText
  BY <1>3, FirstAndRest DEF SplitInv
<1>4. CASE Cut
  <2> DEFINE e == BufferEnds(parser)
             b == BufferBegins(e)
  <2>1. /\ ~Stopped(parser) /\ text # <<>>
        /\ parser' = IF Failed(e) THEN e ELSE b
        /\ text' = IF Failed(e) THEN <<>> ELSE text
        /\ pending' = pending /\ open' = open /\ whole' = whole
    BY <1>4 DEF Cut
  <2>2. Near(e, whole) /\ (~Failed(e) => e.data = parser.data)
    BY <1>2, <2>1, BufferEndsTwins
  <2>3. /\ Sound(e) /\ Fields \subseteq DOMAIN e
        /\ ~Failed(e) => ~Failed(parser) /\ Waits(e) = Waits(parser)
    BY <1>1, BufferEndsSound, ParserFields DEF Sound
  <2>4. ~Failed(e) => Skips(e)
    BY <1>1, <1>2, <2>1, BufferEndsSkips
  <2>5. PlainWords => text' \in PlainText
    BY <1>3, <2>1
  <2> HIDE DEF e
  <2>6. CASE Failed(e)
    <3>1. parser' = e /\ text' = <<>>
      BY <2>1, <2>6
    <3>2. ParserInv'
      BY <2>1, <2>3, <2>6, <3>1, <1>1 DEF ParserInv
    <3>3. QED
      BY <2>1, <2>2, <2>3, <2>5, <2>6, <3>1, <3>2 DEF SplitInv
  <2>7. CASE ~Failed(e)
    <3>1. parser' = b /\ text' = text
      BY <2>1, <2>7
    <3>2. Twins(e, whole) /\ ~Stopped(e)
      BY <1>2, <2>1, <2>2, <2>7 DEF Near, Stricter, Failed, Stopped, Twins, Alike
    <3>3. Sound(b) /\ Waits(b) = Waits(e) /\ ~Stopped(b)
      BY <2>3, <3>2, BufferBeginsSound
    <3>4. Twins(b, whole) /\ b.data = e.data
      BY <1>2, <2>1, <3>2, BufferBeginsTwins
    <3>5. Again(b) /\ Skips(b) = Skips(e)
      BY <2>3, BufferBeginsAgain
    <3> HIDE DEF b
    <3>6. ParserInv'
      BY <1>1, <1>2, <2>1, <2>3, <2>7, <3>1, <3>3 DEF ParserInv
    <3>7. QED
      BY <1>1, <1>2, <2>1, <2>2, <2>4, <2>5, <2>7, <3>1, <3>4, <3>5, <3>6 DEF SplitInv, Near
  <2>8. QED
    BY <2>6, <2>7
<1>5. CASE BothRead
  <2> DEFINE ch == Head(text)
             q == Read(parser, ch)
             v == Read(whole, ch)
             e == BufferEnds(q)
             last == Stopped(q) \/ Len(text) = 1
  <2>1. /\ text # <<>> /\ whole' = v /\ ~Stopped(parser)
        /\ parser' = IF last THEN e ELSE q
        /\ text' = IF last THEN <<>> ELSE Tail(text)
    BY <1>5, <1>1 DEF BothRead, Byte, ParserInv
  <2>2. ParserInv'
    BY <1>1, <1>5, NextKeeps DEF BothRead, Next
  <2>3. PlainWords => text' \in PlainText
    BY <1>3, <2>1
  <2>4. PlainWords => IS_HEADER_CHAR(ch)
    BY <2>1, FirstAndRest DEF SplitInv
  <2> HIDE DEF ch
  <2>5. Ready(parser) /\ Ready(whole)
    BY <1>1, <1>2, <2>1, Readiness DEF SplitInv, Again
  <2>6. Near(q, v)
    BY <1>1, <1>2, <2>1, <2>4, <2>5, ReadTwins
  <2>7. Sound(q) /\ Sound(v)
    BY <1>1, <1>2, <2>1, ReadStep DEF Step
  <2>8. Fields \subseteq DOMAIN q /\ Fields \subseteq DOMAIN v
    BY <2>7, ParserFields DEF Sound
  <2>9. /\ ~Failed(q) => Marked(parser.state, q) /\ q.data = DataAfter(parser.state, q.state)
        /\ ~Failed(v) => Marked(whole.state, v) /\ v.data = DataAfter(whole.state, v.state)
    BY <1>1, <1>2, <2>1, <2>5, ReadMarks
  <2> HIDE DEF q, v
  <2>10. /\ ~Failed(q) => Again(q) /\ Skips(q)
         /\ ~Failed(v) => Again(v) /\ Skips(v)
    <3>1. \A s, t : MarksAfter(s, t) \ {"body"} = Remarked(t)
      BY DEF MarksAfter, Remarked
    <3>2. QED
      BY <2>9, <3>1 DEF Marked, Again
  <2>11. ~Stricter(q) /\ ~Failed(q) => q.data = v.data
    <3>1. SUFFICES ASSUME ~Stricter(q), ~Failed(q)
                   PROVE  q.data = v.data
      OBVIOUS
    <3>2. q.state = v.state /\ ~Failed(v)
      BY <2>6, <3>1 DEF Near, Twins, Alike, Failed
    <3>3. parser.state = whole.state
      BY <1>2, <2>1 DEF Twins, Alike
    <3>4. QED
      BY <2>9, <3>1, <3>2, <3>3
  <2>12. CASE last
    <3>1. parser' = e /\ text' = <<>>
      BY <2>1, <2>12
    <3>2. ~Failed(e) => ~Failed(q)
      BY <2>7, BufferEndsSound
    <3>3. ~Failed(e) => Skips(e)
      BY <2>8, <2>10, BufferEndsSkips
    <3>4. CASE Stricter(q)
      <4>1. Stopped(q)
        BY <3>4 DEF Stricter, Stopped, Failed
      <4>2. e = q
        BY <4>1 DEF BufferEnds
      <4>3. QED
        BY <2>1, <2>2, <2>3, <2>7, <2>10, <3>1, <3>4, <4>2
           DEF SplitInv, Near, Stricter, Failed, Again
    <3>5. CASE Twins(q, v)
      <4>1. Near(e, v) /\ (~Failed(e) => e.data = q.data)
        BY <3>5, BufferEndsTwins
      <4>2. ~Stricter(e) /\ ~Failed(e) => e.data = v.data
        BY <2>11, <3>2, <4>1 DEF Stricter, Failed
      <4> HIDE DEF e
      <4>3. QED
        BY <2>1, <2>2, <2>3, <2>7, <2>10, <3>1, <3>3, <4>1, <4>2 DEF SplitInv, Again
    <3>6. QED
      BY <2>6, <3>4, <3>5 DEF Near
  <2>13. CASE ~last
    <3>1. parser' = q
      BY <2>1, <2>13
    <3>2. QED
      BY <2>1, <2>2, <2>3, <2>6, <2>7, <2>10, <2>11, <3>1 DEF SplitInv, Again
  <2>14. QED
    BY <2>12, <2>13
<1>6. CASE BothEnd
  <2>1. /\ text' = <<>> /\ ~Stopped(parser) /\ parser' = EndOfInput(parser)
        /\ whole' = EndOfInput(whole)
    BY <1>6 DEF BothEnd, Eof
  <2>2. ParserInv'
    BY <1>1, <1>6, NextKeeps DEF BothEnd, Next
  <2>3. /\ Twins(parser', whole') /\ parser'.data = {} /\ whole'.data = {}
        /\ Skips(parser') = Skips(parser)
    BY <1>2, <2>1, EndOfInputTwins
  <2>4. /\ whole'.marks = whole.marks /\ whole'.state = whole.state
        /\ Skips(whole') = Skips(whole) /\ Sound(whole')
    <3>1. Twins(whole, whole)
      BY <1>2, <2>1, ParserAssumption DEF Twins, Alike, Counting, Capped
    <3>2. QED
      BY <1>1, <2>1, <3>1, EndOfInputTwins, EndOfInputSound
  <2>5. PlainWords => text' \in PlainText
    BY <1>3, <2>1
  <2>6. QED
    BY <1>2, <2>1, <2>2, <2>3, <2>4, <2>5 DEF SplitInv, Near, Again
<1>7. CASE Execute /\ UNCHANGED whole
  <2> DEFINE b == BufferBegins(parser)
  <2>1. /\ ~Stopped(parser) /\ parser' = b /\ whole' = whole
        /\ \E word \in Words : text' = Text(word)
    BY <1>7 DEF Execute
  <2>2. ParserInv'
    BY <1>1, <1>7, NextKeeps DEF Next
  <2>3. Twins(b, whole) /\ b.data = parser.data
    BY <1>2, <2>1, BufferBeginsTwins
  <2>4. Again(b) /\ Skips(b) = Skips(parser)
    BY <1>1, BufferBeginsAgain
  <2>5. PlainWords => text' \in PlainText
    BY <2>1 DEF PlainWords
  <2> HIDE DEF b
  <2>6. QED
    BY <1>1, <1>2, <2>1, <2>2, <2>3, <2>4, <2>5 DEF SplitInv, Near
<1>8. CASE UNCHANGED splitVars
  BY <1>8 DEF splitVars, vars, SplitInv, ParserInv
<1>9. QED
  BY <1>4, <1>5, <1>6, <1>7, <1>8 DEF SplitNext

(* Cutting the input anywhere keeps what both parsers promise. *)
THEOREM CutInvariant == SplitSpec => []SplitInv
BY SplitBegins, SplitKeeps, PTL DEF SplitSpec

(* A parser whose input is cut keeps its ranges, its assertions, its lengths   *)
(* and its framing, and its callbacks alternate.                              *)
THEOREM CutPromises ==
    SplitSpec => [](TypeOK /\ AssertionsHold /\ LengthKnown /\ FramedOnce /\ CallbacksAlternate)
<1>1. SplitInv => TypeOK /\ AssertionsHold /\ LengthKnown /\ FramedOnce /\ CallbacksAlternate
  BY TypeOKKept, AssertionsHoldKept, LengthKnownKept, FramedOnceKept, CallbacksAlternateKept
     DEF SplitInv
<1>2. QED
  BY <1>1, CutInvariant, PTL

(* Twins look the same to a caller. *)
LEMMA TwinsSeenAlike == SplitInv => (~Stricter(parser) => SplitInvisible)
<1> SUFFICES ASSUME SplitInv, ~Stricter(parser)
             PROVE  SplitInvisible
  OBVIOUS
<1>1. Twins(parser, whole)
  BY DEF SplitInv, Near
<1>2. ~Failed(parser) => parser.data = whole.data
  BY DEF SplitInv
<1>3. ASSUME ~Failed(parser), NEW f \in Seen
      PROVE  parser[f] = whole[f]
  BY <1>1, <1>2, <1>3 DEF Seen, Twins, Alike
<1>4. QED
  BY <1>1, <1>3 DEF SplitInvisible, Twins, Alike

(* Wherever the input is cut, the parser does what one does that is never      *)
(* cut, or refuses the message: as too long by the bytes that are counted     *)
(* again after each cut of a name or a value, or for a byte in a value that   *)
(* an uncut loop does not look at.  It never accepts more, and never gives a  *)
(* byte to another callback.                                                  *)
THEOREM CutsStricterAtMost == SplitSpec => [](~Stricter(parser) => SplitInvisible)
BY CutInvariant, TwinsSeenAlike, PTL

(* While the limit of header bytes is out of reach, and no buffer holds a byte *)
(* that values may not have, no cut can be seen.                              *)
THEOREM CutsInvisible ==
    ASSUME HTTP_MAX_HEADER_SIZE >= MaxCount, PlainWords
    PROVE  SplitSpec => []SplitInvisible
<1>1. SplitInv => SplitInvisible
  BY TwinsSeenAlike, ParserAssumption DEF Stricter
<1>2. QED
  BY <1>1, CutInvariant, PTL
=============================================================================
