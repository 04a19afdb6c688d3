-------------------------- MODULE HttpServeProofs ---------------------------
(***************************************************************************)
(* What serialize writes is read back: no byte of it fails, for any        *)
(* message that does not frame itself.  ServeInv says beside CodecInv what *)
(* could refuse a byte and does not: the limit on header bytes, the path,  *)
(* and headers that look like one that frames a body.                      *)
(***************************************************************************)
EXTENDS HttpCodecProofs

-----------------------------------------------------------------------------
(* Walks over a path. *)

(* Where the parser is after each of the first characters of a path. *)
Walk(u, path, n) ==
    u = [i \in 1 .. n |-> parse_url_char(IF i = 1 THEN "s_req_spaces_before_url" ELSE u[i - 1], path[i])]

(* After one character, and after one more. *)
LEMMA WalkIs ==
    ASSUME NEW u, NEW path, NEW n \in Nat, Walk(u, path, n), NEW i \in 1 .. n
    PROVE  u[i] = parse_url_char(IF i = 1 THEN "s_req_spaces_before_url" ELSE u[i - 1], path[i])
<1> DEFINE g == [j \in 1 .. n |->
                    parse_url_char(IF j = 1 THEN "s_req_spaces_before_url" ELSE u[j - 1], path[j])]
<1>1. u = g
  BY DEF Walk
<1>2. g[i] = parse_url_char(IF i = 1 THEN "s_req_spaces_before_url" ELSE u[i - 1], path[i])
  OBVIOUS
<1> HIDE DEF g
<1>3. QED
  BY <1>1, <1>2

(* There is such a walk, of any length. *)
LEMMA WalkExists ==
    ASSUME NEW path, NEW n \in Nat
    PROVE  \E u : Walk(u, path, n)
<1> DEFINE A == {k \in Nat : \E u : Walk(u, path, k)}
<1>1. 0 \in A
  <2> DEFINE u == [i \in 1 .. 0 |-> path[i]]
  <2>1. Walk(u, path, 0)
    BY DEF Walk
  <2>2. QED
    BY <2>1
<1>2. ASSUME NEW k \in Nat, k \in A
      PROVE  k + 1 \in A
  <2>1. PICK u : Walk(u, path, k)
    BY <1>2
  <2> DEFINE Next1(h, i) == parse_url_char(IF i = 1 THEN "s_req_spaces_before_url" ELSE h[i - 1], path[i])
             g == [i \in 1 .. k + 1 |-> Next1(u, i)]
  <2>2. \A i \in 1 .. k : g[i] = u[i]
    BY <2>1, WalkIs
  <2>3. \A i \in 1 .. k + 1 : Next1(u, i) = Next1(g, i)
    <3>1. \A i \in 1 .. k + 1 : i # 1 => i - 1 \in 1 .. k
      OBVIOUS
    <3> HIDE DEF g
    <3>2. QED
      BY <2>2, <3>1
  <2>4. Walk(g, path, k + 1)
    <3>1. g = [i \in 1 .. k + 1 |-> Next1(g, i)]
      <4> HIDE DEF Next1
      <4>1. QED
        BY <2>3
    <3> HIDE DEF g
    <3>2. QED
      BY <3>1 DEF Walk
  <2>5. QED
    BY <2>4
<1>3. Nat \subseteq A
  <2> HIDE DEF A
  <2> QED BY <1>1, <1>2, Induction
<1>4. QED
  BY <1>3

(* Walked is that walk. *)
LEMMA WalkedIs ==
    ASSUME NEW path, Len(path) \in Nat, NEW i \in 1 .. Len(path)
    PROVE  Walked(path)[i] =
              parse_url_char(IF i = 1 THEN "s_req_spaces_before_url" ELSE Walked(path)[i - 1], path[i])
<1> DEFINE u == CHOOSE u : Walk(u, path, Len(path))
<1>1. Walk(u, path, Len(path))
  BY WalkExists
<1>2. Walked(path) = u
  BY DEF Walked, Walk
<1> HIDE DEF u
<1>3. QED
  BY <1>1, <1>2, WalkIs

(* Where a parser is on the path. *)
OnPath(q, m, r) ==
    m.type = "HTTP_REQUEST" =>
        \A i \in 1 .. Len(m.path) : r = Len(m.method) + 1 + i => q.state = Walked(m.path)[i]

(* Serving, by the places. *)
Served(p, st, m, last, e, r) ==
    /\ Load(p) <= r /\ Load(p) <= e + 2
    /\ "CHUNKED" \notin p.flags
    /\ r <= last + Length(LengthName) + 2 => "CONTENTLENGTH" \notin p.flags
    /\ m.type = "HTTP_RESPONSE" => p.method = "DELETE"
    /\ OnPath(p, m, r)
    /\ IF p.state = "s_header_field" THEN Spelled(p, st["header_field"])
       ELSE /\ p.header_state \notin Chunking
            /\ r < last => p.header_state # "h_content_length"

LEMMA ServingIs ==
    ASSUME NEW p, NEW st, NEW m, NEW c, NEW r, NEW last, last = Start(m, c, Count(m)),
           NEW e, e = Start(m, c, Count(m) + 1)
    PROVE  Serving(p, st, m, c, r) <=> Served(p, st, m, last, e, r)
BY Zenon DEF Serving, Served, OnPath

(* A byte is read of a message that can be read, and has been. *)
Eats(m, c, p, st, f, w, r) ==
    /\ Reads(m, c, p, f, w) /\ Readable(m) /\ ~FramesItself(m)
    /\ c = Len(m.body) + SerializeExtra /\ r \in Nat /\ Serving(p, st, m, c, r)
Eaten(q, st, m, c, r) == ~Failed(q) /\ ~q.exited /\ Serving(q, st, m, c, r)

(* The bytes before the body are as few as the parser counts. *)
LEMMA RoomIs ==
    ASSUME NEW m, Sendable(m), NEW c \in 0 .. MaxLength, c = Len(m.body) + SerializeExtra, Readable(m)
    PROVE  Start(m, c, Count(m) + 1) + 2 <= HTTP_MAX_HEADER_SIZE
<1> DEFINE e == Start(m, c, Count(m) + 1)
           bytes == Bytes(m, c)
<1>1. e \in Nat /\ Len(m.body) \in Nat /\ Len(bytes) = e + 2 + Len(m.body)
  BY WireIs DEF WireLayout
<1>2. Len(bytes) - Len(m.body) <= HTTP_MAX_HEADER_SIZE
  BY DEF Readable, serialize
<1>3. HTTP_MAX_HEADER_SIZE \in Nat
  BY ParserAssumption
<1> HIDE DEF e, bytes
<1>4. e + 2 <= HTTP_MAX_HEADER_SIZE
  BY <1>1, <1>2, <1>3
<1>5. QED
  BY <1>4 DEF e

(* What is counted is a number. *)
LEMMA LoadIs ==
    ASSUME NEW p \in Parser
    PROVE  Load(p) \in Int
BY ParserAssumption DEF Parser, Load

(* Lines begin one after the other. *)
LEMMA StartsRise ==
    ASSUME NEW m, Sendable(m), NEW c \in 0 .. MaxLength, NEW i \in 1 .. Count(m) + 1,
           NEW j \in i .. Count(m) + 1
    PROVE  Start(m, c, i) <= Start(m, c, j)
<1> DEFINE n == Count(m)
           S1(k) == Start(m, c, k)
           L(k) == Len(HeaderLines(m, c)[k])
           A == {k \in Nat : i + k \in 1 .. n + 1 => S1(i) <= S1(i + k)}
<1>1. n \in Nat
  BY HeadersAre, Zenon
<1>2. /\ \A k \in 1 .. n + 1 : S1(k) \in Nat /\ S1(k) > 0
      /\ \A k \in 1 .. n : S1(k + 1) = S1(k) + L(k)
  BY StartIs, Zenon
<1>3. ASSUME NEW k \in 1 .. n PROVE L(k) \in Nat
  <2>1. HeaderLines(m, c) \in Seq(Seq(Letters(m))) /\ Len(HeaderLines(m, c)) = n
    BY LinesAre, Zenon DEF n
  <2>2. HeaderLines(m, c)[k] \in Seq(Letters(m))
    BY <2>1
  <2>3. QED
    BY <2>2
<1>4. i \in 1 .. n + 1 /\ i \in Nat
  BY <1>1
<1>5. j - i \in Nat /\ i + (j - i) = j /\ j \in 1 .. n + 1
  BY <1>1
<1> HIDE DEF n, S1, L
<1>6. 0 \in A
  <2>1. S1(i) \in Nat /\ i + 0 = i
    BY <1>2, <1>4
  <2>2. QED
    BY <2>1
<1>7. ASSUME NEW k \in Nat, k \in A PROVE k + 1 \in A
  <2>1. CASE i + (k + 1) \in 1 .. n + 1
    <3>1. i + k \in 1 .. n /\ i + k \in 1 .. n + 1 /\ i + (k + 1) = (i + k) + 1
      BY <1>1, <1>4, <2>1
    <3>2. S1((i + k) + 1) = S1(i + k) + L(i + k) /\ L(i + k) \in Nat /\ S1(i + k) \in Nat /\ S1(i) \in Nat
      BY <1>2, <1>3, <1>4, <3>1, Zenon
    <3>3. S1(i) <= S1(i + k)
      BY <1>7, <3>1
    <3>4. S1(i) <= S1(i + (k + 1))
      BY <3>1, <3>2, <3>3
    <3>5. QED
      BY <3>4
  <2>2. QED
    BY <2>1
<1>8. Nat \subseteq A
  <2> HIDE DEF A
  <2> QED BY <1>6, <1>7, Induction
<1>9. S1(i) <= S1(j)
  BY <1>5, <1>8
<1>10. QED
  BY <1>9 DEF S1

(* The places of a message. *)
LEMMA PlacesAre ==
    ASSUME NEW m, NEW c, NEW p, NEW st, NEW f, NEW w, NEW r, Eats(m, c, p, st, f, w, r),
           NEW last, last = Start(m, c, Count(m)), NEW e, e = Start(m, c, Count(m) + 1)
    PROVE  /\ r \in Nat /\ last \in Nat /\ e \in Nat /\ last <= e /\ Len(StartLine(m)) \in Nat
           /\ Len(StartLine(m)) <= last /\ e + 2 <= HTTP_MAX_HEADER_SIZE /\ HTTP_MAX_HEADER_SIZE \in Nat
           /\ Load(p) \in Int /\ Load(p) <= r /\ Load(p) <= e + 2
<1>1. /\ Sendable(m) /\ c \in 0 .. MaxLength /\ Sound(p) /\ Readable(m)
      /\ c = Len(m.body) + SerializeExtra /\ r \in Nat /\ Serving(p, st, m, c, r)
  BY Zenon DEF Eats, Reads
<1>2. Count(m) \in Nat /\ Len(m.headers) \in Nat /\ Count(m) = Len(m.headers) + 1
  BY <1>1, HeadersAre, Zenon DEF Count
<1> DEFINE n == Count(m)
           S1(i) == Start(m, c, i)
<1>3. n \in Nat /\ n >= 1 /\ 1 \in 1 .. n + 1 /\ n \in 1 .. n + 1 /\ n + 1 \in 1 .. n + 1 /\ n \in 1 .. n
  BY <1>2
<1>4. /\ S1(1) = Len(StartLine(m))
      /\ \A i \in 1 .. n + 1 : S1(i) \in Nat /\ S1(i) > 0
  BY <1>1, StartIs, Zenon
<1>7. S1(n) <= S1(n + 1) /\ S1(1) <= S1(n)
  <2>1. n \in 1 .. n + 1 /\ n + 1 \in n .. n + 1 /\ n \in 1 .. n + 1
    BY <1>3
  <2>2. QED
    BY <1>1, <1>3, <2>1, StartsRise, Zenon
<1> HIDE DEF n, S1
<1>8. last = S1(n) /\ e = S1(n + 1)
  BY DEF S1, n
<1>9. last \in Nat /\ e \in Nat /\ last <= e /\ Len(StartLine(m)) <= last /\ Len(StartLine(m)) \in Nat
  BY <1>3, <1>4, <1>7, <1>8
<1>10. e + 2 <= HTTP_MAX_HEADER_SIZE
  BY <1>1, RoomIs, Zenon
<1>11. p \in Parser
  BY <1>1 DEF Sound
<1>12. Served(p, st, m, last, e, r)
  BY <1>1, ServingIs, Zenon
<1>13. Load(p) <= r /\ Load(p) <= e + 2
  BY <1>12, Zenon DEF Served
<1>14. QED
  BY <1>1, <1>9, <1>10, <1>11, <1>13, LoadIs, ParserAssumption, Zenon

(* There is room for a byte before the body. *)
LEMMA Uncrowded ==
    ASSUME NEW m, NEW c, NEW p, NEW st, NEW f, NEW w, NEW r, Eats(m, c, p, st, f, w, r),
           NEW e, e = Start(m, c, Count(m) + 1), r < e + 2
    PROVE  ~Crowded(p)
<1>1. /\ r \in Nat /\ e \in Nat /\ e + 2 <= HTTP_MAX_HEADER_SIZE /\ HTTP_MAX_HEADER_SIZE \in Nat
      /\ Load(p) \in Int /\ Load(p) <= r
  BY PlacesAre, Zenon
<1>2. QED
  BY <1>1 DEF Crowded

(* A byte that neither fails nor changes what Serving is about. *)
Plain(p, q) ==
    /\ ~Failed(q) /\ ~q.exited /\ q \in Parser /\ Load(q) <= Load(p) + 1
    /\ \A x \in {"CHUNKED", "CONTENTLENGTH"} : x \in q.flags => x \in p.flags
    /\ q.header_state = p.header_state
    /\ p.type = "HTTP_RESPONSE" => q.method = p.method

LEMMA GotPlain ==
    ASSUME NEW p, ~Stopped(p), NEW q, NEW D, NEW s, NEW marks, NEW data, NEW calls,
           Got(p, q, D, s, marks, data, calls), {"http_errno", "exited", "header_state"} \cap D = {},
           "method" \in D => p.type = "HTTP_REQUEST",
           "flags" \in D => \A x \in {"CHUNKED", "CONTENTLENGTH"} : x \in q.flags => x \in p.flags
    PROVE  Plain(p, q) /\ q.state = s
<1>1. /\ q \in Parser /\ Load(q) <= Load(p) + 1 /\ q.state = s
      /\ q.http_errno = p.http_errno /\ q.exited = p.exited /\ q.header_state = p.header_state
      /\ "method" \notin D => q.method = p.method
      /\ "flags" \notin D => q.flags = p.flags
  BY DEF Got, Like
<1>2. ~Failed(q) /\ ~q.exited
  BY <1>1 DEF Stopped, Failed
<1>3. QED
  BY <1>1, <1>2 DEF Plain

(* Outside a name it leaves the parser as it has to be. *)
LEMMA PlainServes ==
    ASSUME NEW m, NEW c, NEW p, NEW st, NEW f, NEW w, NEW r, Eats(m, c, p, st, f, w, r),
           NEW q, Plain(p, q), p.state # "s_header_field", q.state # "s_header_field",
           r < Start(m, c, Count(m) + 1) + 2 \/ Load(q) = Load(p), OnPath(q, m, r + 1), NEW st2
    PROVE  Eaten(q, st2, m, c, r + 1)
<1> DEFINE last == Start(m, c, Count(m))
           e == Start(m, c, Count(m) + 1)
<1>1. /\ r \in Nat /\ last \in Nat /\ e \in Nat /\ Load(p) \in Int /\ Load(p) <= r /\ Load(p) <= e + 2
  BY PlacesAre, Zenon
<1>2. Served(p, st, m, last, e, r) /\ p.type = m.type
  BY ServingIs, Zenon DEF Eats, Reads
<1>3. /\ ~Failed(q) /\ ~q.exited /\ q \in Parser /\ Load(q) <= Load(p) + 1
      /\ \A x \in {"CHUNKED", "CONTENTLENGTH"} : x \in q.flags => x \in p.flags
      /\ q.header_state = p.header_state
      /\ p.type = "HTTP_RESPONSE" => q.method = p.method
  BY Zenon DEF Plain
<1>4. Load(q) \in Int
  BY <1>3, LoadIs
<1>5. r < e + 2 \/ Load(q) = Load(p)
  OBVIOUS
<1> HIDE DEF last, e
<1>6. Load(q) <= r + 1 /\ Load(q) <= e + 2
  BY <1>1, <1>3, <1>4, <1>5
<1>7. Length(LengthName) \in Int
  BY LengthNameIs DEF Length
<1>8. r + 1 <= last + Length(LengthName) + 2 => r <= last + Length(LengthName) + 2
  BY <1>1, <1>7
<1>9. r + 1 < last => r < last
  BY <1>1
<1>10. Served(q, st2, m, last, e, r + 1)
  BY <1>2, <1>3, <1>6, <1>8, <1>9, Zenon DEF Served
<1>11. Serving(q, st2, m, c, r + 1)
  BY <1>10, ServingIs, Zenon DEF last, e
<1>12. QED
  BY <1>3, <1>11, Zenon DEF Eaten

(* Neither before the path nor after it is anything said of it. *)
LEMMA OffPath ==
    ASSUME NEW m, Sendable(m), NEW q, NEW r \in Nat,
           m.type = "HTTP_REQUEST" => r <= Len(m.method) + 1 \/ r > Len(m.method) + 1 + Len(m.path)
    PROVE  OnPath(q, m, r)
<1>1. CASE m.type = "HTTP_REQUEST"
  <2> DEFINE ml == Len(m.method)
             pl == Len(m.path)
  <2>1. ml \in 1 .. 16 /\ pl \in Nat \ {0}
    BY <1>1, RequestBytes, Zenon
  <2>2. r <= ml + 1 \/ r > ml + 1 + pl
    BY <1>1
  <2> HIDE DEF ml, pl
  <2>3. \A i \in 1 .. pl : r # ml + 1 + i
    BY <2>1, <2>2
  <2>4. QED
    BY <2>3, Zenon DEF OnPath, ml, pl
<1>2. QED
  BY <1>1, Zenon DEF OnPath

(* A byte of a start line that changes nothing of this. *)
LEMMA HeadServes ==
    ASSUME NEW m, NEW c, NEW p, NEW st, NEW f, NEW w, NEW r, Eats(m, c, p, st, f, w, r),
           r < Len(StartLine(m)), p.state # "s_header_field",
           NEW q, Plain(p, q), q.state # "s_header_field", OnPath(q, m, r + 1), NEW st2
    PROVE  Eaten(q, st2, m, c, r + 1)
<1> DEFINE last == Start(m, c, Count(m))
           e == Start(m, c, Count(m) + 1)
           n == Len(StartLine(m))
<1>1. r \in Nat /\ last \in Nat /\ e \in Nat /\ last <= e /\ n \in Nat /\ n <= last
  BY PlacesAre, Zenon
<1>2. r < n
  OBVIOUS
<1> HIDE DEF last, e, n
<1>3. r < e + 2
  BY <1>1, <1>2
<1>4. QED
  BY <1>3, PlainServes, Zenon DEF e

(* In a start line there is room. *)
LEMMA HeadUncrowded ==
    ASSUME NEW m, NEW c, NEW p, NEW st, NEW f, NEW w, NEW r, Eats(m, c, p, st, f, w, r),
           r < Len(StartLine(m))
    PROVE  ~Crowded(p)
<1> DEFINE last == Start(m, c, Count(m))
           e == Start(m, c, Count(m) + 1)
           n == Len(StartLine(m))
<1>1. r \in Nat /\ last \in Nat /\ e \in Nat /\ last <= e /\ n \in Nat /\ n <= last
  BY PlacesAre, Zenon
<1>2. r < n
  OBVIOUS
<1> HIDE DEF last, e, n
<1>3. r < e + 2
  BY <1>1, <1>2
<1>4. QED
  BY <1>3, Uncrowded, Zenon DEF e

(* The name of a method is read to its end. *)
LEMMA ServesMethod ==
    ASSUME NEW m, NEW c, NEW p, NEW st, NEW f, NEW w, NEW r, Eats(m, c, p, st, f, w, r),
           m.type = "HTTP_REQUEST", r \in 0 .. Len(m.method), OnRequestLine(p, st, f, m, r), NEW st2
    PROVE  Eaten(Read(p, w[r + 1]), st2, m, c, r + 1)
<1> DEFINE ml == Len(m.method)
           pl == Len(m.path)
           line == StartLine(m)
           n == Len(line)
           methods == Tried[m.method]
           ch == w[r + 1]
           q  == Read(p, ch)
<1>1. Reads(m, c, p, f, w) /\ Sendable(m) /\ Sound(p) /\ ~Stopped(p) /\ p.type = m.type
  BY Zenon DEF Eats, Reads
<1>2. /\ n = ml + pl + 11 /\ ml \in 1 .. 16 /\ pl \in Nat \ {0}
      /\ \A i \in 1 .. ml : line[i] = Nth(m.method, i - 1)
      /\ line[ml + 1] = SPACE
  BY <1>1, RequestBytes, Zenon
<1>3. \A k \in 1 .. n : w[k] = line[k]
  BY <1>1, HeadByte, ZenonT(40)
<1>4. r \in 0 .. ml
  OBVIOUS
<1> HIDE DEF line, n, ml, pl
<1>5. ml \in Nat /\ ml > 0 /\ pl \in Nat /\ pl > 0 /\ n = ml + pl + 11 /\ r \in Nat
  BY <1>2, <1>4
<1>6. r + 1 \in Nat /\ r < n /\ r + 1 \in 1 .. n /\ r + 1 <= ml + 1
  BY <1>4, <1>5
<1>7. /\ r < ml => ch = Nth(m.method, r)
      /\ r = ml => ch = SPACE
  <2>1. r < ml => r + 1 \in 1 .. ml /\ (r + 1) - 1 = r
    BY <1>5
  <2>2. w[r + 1] = line[r + 1]
    BY <1>3, <1>6, Zenon
  <2>3. r < ml => line[r + 1] = Nth(m.method, (r + 1) - 1)
    BY <1>2, <2>1, Zenon
  <2>4. r = ml => line[r + 1] = SPACE
    BY <1>2, Zenon
  <2>5. QED
    BY <2>1, <2>2, <2>3, <2>4, Zenon
<1>8. /\ r = 0 => p.state = "s_start_req"
      /\ r \in 1 .. ml => p.state = "s_req_method" /\ p.index = r /\ p.method = methods[r]
      /\ r \in 0 .. ml => p.marks = {}
  <2>1. Len(m.method) \in Nat \ {0} /\ Len(m.path) \in Nat \ {0}
    BY <1>5 DEF ml, pl
  <2>2. RequestPlace(p, st, f, m, r)
    BY <2>1, RequestAt, Zenon
  <2>3. r = 0 \/ r \in 1 .. ml
    BY <1>4, <1>5
  <2>4. QED
    BY <2>2, <2>3, Zenon DEF RequestPlace, ml
<1>9. m.method \in MethodNames
  BY <1>1, SendableParts
<1>10. /\ \A i \in 0 .. ml - 1 : Nth(m.method, i) \in ALPHA \cup {"-"}
       /\ Nth(m.method, 0) \in ALPHA
       /\ {x \in FirstMethods : Nth(x, 0) = Nth(m.method, 0)} = {methods[1]}
       /\ \A i \in 1 .. ml - 1 :
             \/ Nth(methods[i], i) = Nth(m.method, i) /\ methods[i + 1] = methods[i]
             \/ /\ Nth(methods[i], i) # Nth(m.method, i)
                /\ \E o \in OtherMethods :
                      /\ {x \in OtherMethods : x[1] = methods[i] /\ x[2] = i /\ x[3] = Nth(m.method, i)} = {o}
                      /\ methods[i + 1] = o[4]
       /\ methods[ml] = m.method
  BY <1>9, MethodsAssumption, Zenon DEF ml
<1>11. ~Crowded(p)
  BY <1>6, HeadUncrowded, Zenon DEF n, line
<1> HIDE DEF q, ch, methods
(* The next byte of a line that has begun. *)
<1>12. ASSUME NEW D, NEW s, s # "s_header_field", Got(p, q, D, s, {}, {}, {}), p.state # "s_header_field",
              {"http_errno", "exited", "header_state"} \cap D = {}, "flags" \in D => q.flags = {}
       PROVE  Eaten(q, st2, m, c, r + 1)
  <2>1. "flags" \in D => \A x \in {"CHUNKED", "CONTENTLENGTH"} : x \in q.flags => x \in p.flags
    BY <1>12
  <2>2. Plain(p, q) /\ q.state = s
    BY <1>1, <1>12, <2>1, GotPlain, Zenon
  <2>3. OnPath(q, m, r + 1)
    BY <1>1, <1>6, OffPath, Zenon DEF ml
  <2>4. QED
    BY <1>6, <1>12, <2>2, <2>3, HeadServes, Zenon DEF n, line
<1>13. CASE r = 0
  <2>1. p.state = "s_start_req" /\ p.marks = {} /\ ch \in ALPHA
        /\ {x \in FirstMethods : Nth(x, 0) = ch} = {methods[1]}
    BY <1>4, <1>5, <1>7, <1>8, <1>10, <1>13
  <2>2. Got(p, q, {"method", "index", "flags", "content_length"}, "s_req_method", {}, {}, {}) /\ q.flags = {}
    BY <1>1, <1>11, <2>1, ReadStartRequest, Zenon DEF q
  <2>3. {"http_errno", "exited", "header_state"} \cap {"method", "index", "flags", "content_length"} = {}
    OBVIOUS
  <2>4. QED
    BY <1>12, <2>1, <2>2, <2>3, Zenon DEF q, ch
<1>14. CASE r \in 1 .. ml - 1
  <2>1. r \in 1 .. ml /\ r < ml /\ r \in 0 .. ml - 1 /\ r \in 0 .. ml
    BY <1>5, <1>14
  <2>2. p.state = "s_req_method" /\ p.marks = {} /\ p.index = r /\ p.method = methods[r]
    BY <1>8, <2>1, Zenon
  <2>3. ch = Nth(m.method, r) /\ ch \in ALPHA \cup {"-"}
    BY <1>7, <1>10, <2>1, Zenon
  <2>4. ch # NUL /\ ch # SPACE
    <3>1. ALPHA \subseteq TOKEN /\ SPACE \notin TOKEN
      BY LetterApart, Zenon
    <3>2. SPACE # "-"
      BY Zenon DEF SPACE
    <3>3. QED
      BY <2>3, <3>1, <3>2, LettersAssumption, Zenon
  <2>5. {"http_errno", "exited", "header_state"} \cap {"index"} = {} /\ "flags" \notin {"index"}
        /\ {"http_errno", "exited", "header_state"} \cap {"index", "method"} = {}
        /\ "flags" \notin {"index", "method"}
    OBVIOUS
  <2>6. CASE Nth(methods[r], r) = Nth(m.method, r)
    <3>1. Got(p, q, {"index"}, "s_req_method", {}, {}, {})
      BY <1>1, <1>11, <2>2, <2>3, <2>4, <2>6, ReadMethodNext, Zenon DEF q, ch
    <3>2. QED
      BY <1>12, <2>2, <2>5, <3>1, Zenon DEF q, ch
  <2>7. CASE Nth(methods[r], r) # Nth(m.method, r)
    <3>1. PICK o \in OtherMethods :
                     {x \in OtherMethods : x[1] = methods[r] /\ x[2] = r /\ x[3] = Nth(m.method, r)} = {o}
      BY <1>10, <1>14, <2>7, Zenon
    <3>2. {x \in OtherMethods : x[1] = p.method /\ x[2] = p.index /\ x[3] = ch} = {o}
      BY <2>2, <2>3, <3>1
    <3>3. ch # Nth(p.method, p.index)
      BY <2>2, <2>3, <2>7, Zenon
    <3>4. Got(p, q, {"index", "method"}, "s_req_method", {}, {}, {})
      BY <1>1, <1>11, <2>2, <2>4, <3>2, <3>3, ReadMethodOther, Zenon DEF q
    <3>5. QED
      BY <1>12, <2>2, <2>5, <3>4, Zenon DEF q, ch
  <2>8. QED
    BY <2>6, <2>7
<1>15. CASE r = ml
  <2>1. r \in 1 .. ml /\ r \in 0 .. ml
    BY <1>5, <1>15
  <2>2. p.state = "s_req_method" /\ p.marks = {} /\ p.index = ml /\ p.method = m.method
    BY <1>8, <1>10, <1>15, <2>1, Zenon
  <2>3. ch = SPACE
    BY <1>7, <1>15, Zenon
  <2>4. Nth(p.method, p.index) = NUL
    BY <1>5, <2>2 DEF Nth, ml
  <2>5. Got(p, q, {"index"}, "s_req_spaces_before_url", {}, {}, {})
    BY <1>1, <1>11, <2>2, <2>3, <2>4, ReadMethodEnd, Zenon DEF q, ch
  <2>6. {"http_errno", "exited", "header_state"} \cap {"index"} = {} /\ "flags" \notin {"index"}
    OBVIOUS
  <2>7. QED
    BY <1>12, <2>2, <2>5, <2>6, Zenon DEF q, ch
<1>16. r = 0 \/ r \in 1 .. ml - 1 \/ r = ml
  BY <1>4, <1>5
<1>17. QED
  BY <1>13, <1>14, <1>15, <1>16, Zenon DEF q, ch


(* What a byte of a start line has made of the parser serves. *)
LEMMA HeadTurns ==
    ASSUME NEW m, NEW c, NEW p, NEW st, NEW f, NEW w, NEW r, Eats(m, c, p, st, f, w, r),
           r < Len(StartLine(m)), p.state # "s_header_field", NEW q, NEW D, NEW s, s # "s_header_field",
           NEW marks, NEW data, NEW calls, Got(p, q, D, s, marks, data, calls),
           {"http_errno", "exited", "header_state"} \cap D = {}, "method" \notin D,
           "flags" \in D => q.flags = {}, OnPath(q, m, r + 1), NEW st2
    PROVE  Eaten(q, st2, m, c, r + 1)
<1>1. ~Stopped(p)
  BY Zenon DEF Eats, Reads
<1>2. "flags" \in D => \A x \in {"CHUNKED", "CONTENTLENGTH"} : x \in q.flags => x \in p.flags
  OBVIOUS
<1>3. Plain(p, q) /\ q.state = s
  BY <1>1, <1>2, GotPlain, Zenon
<1>4. QED
  BY <1>3, HeadServes, Zenon

(* A path that the parser can walk is walked. *)
LEMMA ServesUrl ==
    ASSUME NEW m, NEW c, NEW p, NEW st, NEW f, NEW w, NEW r, Eats(m, c, p, st, f, w, r),
           m.type = "HTTP_REQUEST", NEW d \in 0 .. Len(m.path), At(r, Len(m.method) + 1 + d),
           OnRequestLine(p, st, f, m, r), NEW st2
    PROVE  Eaten(Read(p, w[r + 1]), st2, m, c, r + 1)
<1> DEFINE ml == Len(m.method)
           path == m.path
           pl == Len(path)
           line == StartLine(m)
           n == Len(line)
           ch == w[r + 1]
           q  == Read(p, ch)
           walk == Walked(path)
<1>1. /\ Reads(m, c, p, f, w) /\ Sendable(m) /\ Sound(p) /\ ~Stopped(p) /\ p.type = m.type
      /\ Readable(m) /\ ~FramesItself(m) /\ Serving(p, st, m, c, r)
  BY Zenon DEF Eats, Reads
<1>2. /\ n = ml + pl + 11 /\ ml \in 1 .. 16 /\ pl \in Nat \ {0}
      /\ \A i \in 1 .. pl : line[ml + 1 + i] = path[i]
      /\ \A i \in 1 .. 10 : line[ml + 1 + pl + i] = VersionLetters[i]
  BY <1>1, RequestBytes, Zenon
<1>3. \A k \in 1 .. n : w[k] = line[k]
  BY <1>1, HeadByte, ZenonT(40)
<1>4. d \in 0 .. pl /\ r = ml + 1 + d
  BY Zenon DEF At
<1>5. path \in Seq(STRING) /\ \A i \in 1 .. pl : path[i] \notin {SPACE, CR, LF}
  BY <1>1, SendableParts
<1>6. n = ml + pl + 11 /\ ml \in 1 .. 16 /\ pl \in Nat \ {0}
  BY <1>2, Zenon
<1>7. /\ \A i \in 1 .. pl : walk[i] # "s_dead"
      /\ walk[pl] \in UrlEnds
  BY <1>1, Zenon DEF Readable
<1>8. \A i \in 1 .. pl : r = ml + 1 + i => p.state = walk[i]
  BY <1>1, Zenon DEF Serving
<1>9. \A i \in 1 .. pl : walk[i] = parse_url_char(IF i = 1 THEN "s_req_spaces_before_url" ELSE walk[i - 1], path[i])
  <2>1. Len(path) \in Nat
    BY <1>6
  <2>2. QED
    BY <2>1, WalkedIs, Zenon
<1>10. m.method # "CONNECT"
  BY <1>1, Zenon DEF FramesItself
<1>11. RequestPlace(p, st, f, m, r)
  <2> HIDE DEF n, ml, pl
  <2>1. ml \in Nat \ {0} /\ pl \in Nat \ {0}
    BY <1>6
  <2>2. QED
    BY <2>1, RequestAt, Zenon DEF ml, pl, path
<1>12. /\ r = ml + 1 => p.state = "s_req_spaces_before_url" /\ p.method = m.method /\ p.marks = {}
       /\ r \in ml + 2 .. ml + pl + 1 => p.state \in UrlStates /\ p.method = m.method /\ p.marks = {"url"}
  BY <1>11, Zenon DEF RequestPlace
<1> HIDE DEF line, n, ml, pl, q, ch, path, walk
<1>13. ml \in Nat /\ ml > 0 /\ pl \in Nat /\ pl > 0 /\ n = ml + pl + 11
  BY <1>6
<1>14. r + 1 \in 1 .. n
  BY <1>4, <1>13
<1>15. r < n
  BY <1>4, <1>13
<1>16. d = 0 => r = ml + 1
  BY <1>4, <1>13
<1>17. d > 0 => r \in ml + 2 .. ml + pl + 1 /\ d \in 1 .. pl
  BY <1>4, <1>13
<1>18. d < pl => d + 1 \in 1 .. pl /\ r + 1 = ml + 1 + (d + 1)
  BY <1>4, <1>13
<1>19. d = pl => 1 \in 1 .. 10 /\ r + 1 = ml + 1 + pl + 1 /\ d > 0 /\ r + 1 > ml + 1 + pl
  BY <1>4, <1>13
<1>20. d = 0 \/ d > 0
  BY <1>4, <1>13
<1>21. d < pl \/ d = pl
  BY <1>4, <1>13
<1>22. ch = line[r + 1]
  BY <1>3, <1>14, Zenon DEF ch
<1>23. ~Crowded(p)
  BY <1>15, HeadUncrowded, Zenon DEF n, line
<1>24. /\ p.method = m.method
       /\ d = 0 => p.state = "s_req_spaces_before_url" /\ p.marks = {}
       /\ d > 0 => p.state \in UrlStates /\ p.marks = {"url"} /\ p.state = walk[d]
  BY <1>4, <1>8, <1>12, <1>16, <1>17, <1>20, Zenon
<1>25. \/ p.state = "s_req_spaces_before_url" /\ p.marks = {}
       \/ p.state \in UrlStates /\ p.marks = {"url"}
  BY <1>20, <1>24, Zenon
<1>26. p.state # "s_header_field"
  <2>1. "s_header_field" \notin UrlStates
    BY DEF UrlStates, UrlEnds
  <2>2. QED
    BY <1>25, <2>1
<1>27. {"http_errno", "exited", "header_state"} \cap {} = {} /\ "method" \notin {} /\ "flags" \notin {}
  OBVIOUS
<1>28. CASE d < pl
  <2> DEFINE to == UrlTo(p.state, p.method, ch)
  <2>1. ch = path[d + 1] /\ ch \notin {SPACE, CR, LF}
    BY <1>2, <1>5, <1>18, <1>22, <1>28, Zenon
  <2>2. to = parse_url_char(p.state, ch)
    BY <1>10, <1>24, Zenon DEF UrlTo
  <2>3. walk[d + 1] = parse_url_char(p.state, ch)
    <3>1. walk[d + 1] = parse_url_char(IF d + 1 = 1 THEN "s_req_spaces_before_url" ELSE walk[(d + 1) - 1], path[d + 1])
      BY <1>9, <1>18, <1>28, Zenon
    <3>2. d = 0 => d + 1 = 1
      OBVIOUS
    <3>3. d > 0 => d + 1 # 1 /\ (d + 1) - 1 = d
      OBVIOUS
    <3>4. QED
      BY <1>20, <1>24, <2>1, <3>1, <3>2, <3>3, Zenon
  <2>4. to = walk[d + 1] /\ to # "s_dead"
    BY <1>7, <1>18, <1>28, <2>2, <2>3, Zenon
  <2>5. to \in UrlStates /\ Got(p, q, {}, to, {"url"}, {"url"}, {})
    BY <1>1, <1>23, <1>25, <2>1, <2>4, ReadUrl, Zenon DEF q
  <2>6. q.state = walk[d + 1]
    BY <2>4, <2>5 DEF Got
  <2>7. OnPath(q, m, r + 1)
    <3>1. \A i \in 1 .. pl : r + 1 = ml + 1 + i => i = d + 1
      BY <1>4, <1>13
    <3>2. \A i \in 1 .. pl : r + 1 = ml + 1 + i => q.state = walk[i]
      BY <2>6, <3>1, Zenon
    <3>3. QED
      BY <3>2, Zenon DEF OnPath, ml, pl, path, walk
  <2>8. to # "s_header_field"
    <3>1. "s_header_field" \notin UrlStates
      BY DEF UrlStates, UrlEnds
    <3>2. QED
      BY <2>5, <3>1, Zenon
  <2> HIDE DEF to
  <2>9. Eaten(q, st2, m, c, r + 1)
    BY <1>15, <1>26, <1>27, <2>5, <2>7, <2>8, HeadTurns, Zenon DEF n, line
  <2>10. QED
    BY <2>9, Zenon DEF q, ch
<1>29. CASE d = pl
  <2>1. ch = SPACE
    <3>1. line[ml + 1 + pl + 1] = VersionLetters[1]
      BY <1>2, <1>19, <1>29, Zenon
    <3>2. QED
      BY <1>19, <1>22, <1>29, <3>1, VersionText, Zenon DEF VersionLetters
  <2>2. p.state \in UrlStates /\ p.marks = {"url"} /\ p.state \in UrlEnds
    BY <1>7, <1>19, <1>24, <1>29, Zenon
  <2>3. Got(p, q, {}, "s_req_http_start", {}, {}, {})
    BY <1>1, <1>23, <2>1, <2>2, ReadUrlEnd, Zenon DEF q
  <2>4. r + 1 \in Nat /\ r + 1 > ml + 1 + pl
    BY <1>4, <1>13, <1>29
  <2>5. OnPath(q, m, r + 1)
    BY <1>1, <2>4, OffPath, Zenon DEF ml, pl, path
  <2>6. Eaten(q, st2, m, c, r + 1)
    BY <1>15, <1>26, <1>27, <2>3, <2>5, HeadTurns, Zenon DEF n, line
  <2>7. QED
    BY <2>6, Zenon DEF q, ch
<1>30. QED
  BY <1>21, <1>28, <1>29, Zenon

(* The end of a request line is read. *)
LEMMA ServesVersion ==
    ASSUME NEW m, NEW c, NEW p, NEW st, NEW f, NEW w, NEW r, Eats(m, c, p, st, f, w, r),
           m.type = "HTTP_REQUEST", NEW k \in 1 .. 9, At(r, Len(m.method) + Len(m.path) + 1 + k),
           OnRequestLine(p, st, f, m, r), NEW st2
    PROVE  Eaten(Read(p, w[r + 1]), st2, m, c, r + 1)
<1> DEFINE ml == Len(m.method)
           pl == Len(m.path)
           line == StartLine(m)
           n == Len(line)
           ch == w[r + 1]
           q  == Read(p, ch)
<1>1. Reads(m, c, p, f, w) /\ Sendable(m) /\ Sound(p) /\ ~Stopped(p) /\ p.type = m.type
  BY Zenon DEF Eats, Reads
<1>2. /\ n = ml + pl + 11 /\ ml \in 1 .. 16 /\ pl \in Nat \ {0}
      /\ \A i \in 1 .. 10 : line[ml + 1 + pl + i] = VersionLetters[i]
  BY <1>1, RequestBytes, Zenon
<1>3. \A j \in 1 .. n : w[j] = line[j]
  BY <1>1, HeadByte
<1>4. r = ml + pl + 1 + k
  BY Zenon DEF At
<1>5. n = ml + pl + 11 /\ ml \in 1 .. 16 /\ pl \in Nat \ {0}
  BY <1>2, Zenon
<1>6. RequestPlace(p, st, f, m, r)
  <2> HIDE DEF n, ml, pl
  <2>1. ml \in Nat \ {0} /\ pl \in Nat \ {0}
    BY <1>5
  <2>2. QED
    BY <2>1, RequestAt, Zenon DEF ml, pl
<1>7. r \in ml + pl + 2 .. ml + pl + 10 => p.state = VersionStates[r - ml - pl - 1] /\ p.marks = {}
  BY <1>6, Zenon DEF RequestPlace
<1> HIDE DEF line, n, ml, pl, q, ch
<1>8. ml \in Nat /\ ml > 0 /\ pl \in Nat /\ pl > 0 /\ n = ml + pl + 11
  BY <1>5
<1>9. r \in ml + pl + 2 .. ml + pl + 10 /\ r - ml - pl - 1 = k
  BY <1>4, <1>8
<1>10. r + 1 \in 1 .. n /\ r < n
  BY <1>4, <1>8
<1>11. k + 1 \in 1 .. 10 /\ r + 1 = ml + 1 + pl + (k + 1)
  BY <1>4, <1>8
<1>12. r + 1 \in Nat /\ r + 1 > ml + 1 + pl
  BY <1>4, <1>8
<1>13. p.state = VersionStates[k] /\ p.marks = {}
  BY <1>7, <1>9
<1>14. ch = VersionLetters[k + 1]
  <2>1. line[ml + 1 + pl + (k + 1)] = VersionLetters[k + 1]
    BY <1>2, <1>11, Zenon
  <2>2. w[r + 1] = line[r + 1]
    BY <1>3, <1>10, Zenon
  <2>3. QED
    BY <1>11, <2>1, <2>2, Zenon DEF ch
<1>15. ~Crowded(p)
  BY <1>10, HeadUncrowded, Zenon DEF n, line
<1>16. \/ k < 9 /\ Got(p, q, {}, VersionStates[k + 1], {}, {}, {})
       \/ Got(p, q, {}, "s_header_field_start", {}, {}, {})
  <2>1. k < 9 \/ k = 9
    OBVIOUS
  <2>2. QED
    BY <1>1, <1>13, <1>14, <1>15, <2>1, VersionByte, Zenon DEF q
<1>17. PICK s : s # "s_header_field" /\ Got(p, q, {}, s, {}, {}, {})
  <2>1. \A i \in 1 .. 9 : VersionStates[i] # "s_header_field"
    BY DEF VersionStates
  <2>2. k < 9 => k + 1 \in 1 .. 9
    OBVIOUS
  <2>3. QED
    BY <1>16, <2>1, <2>2, Zenon
<1>18. p.state # "s_header_field"
  BY <1>13 DEF VersionStates
<1>19. {"http_errno", "exited", "header_state"} \cap {} = {} /\ "method" \notin {} /\ "flags" \notin {}
  OBVIOUS
<1>20. OnPath(q, m, r + 1)
  BY <1>1, <1>12, OffPath, Zenon DEF ml, pl
<1>21. Eaten(q, st2, m, c, r + 1)
  BY <1>10, <1>17, <1>18, <1>19, <1>20, HeadTurns, Zenon DEF n, line
<1>22. QED
  BY <1>21, Zenon DEF q, ch

(* A request's line is read. *)
LEMMA ServesRequestLine ==
    ASSUME NEW m, NEW c, NEW p, NEW st, NEW f, NEW w, NEW r, Eats(m, c, p, st, f, w, r),
           m.type = "HTTP_REQUEST", r < Len(StartLine(m)), OnRequestLine(p, st, f, m, r), NEW st2
    PROVE  Eaten(Read(p, w[r + 1]), st2, m, c, r + 1)
<1> DEFINE ml == Len(m.method)
           pl == Len(m.path)
           n  == Len(StartLine(m))
<1>1. Sendable(m) /\ r \in Nat
  BY Zenon DEF Eats, Reads
<1>2. n = ml + pl + 11 /\ ml \in 1 .. 16 /\ pl \in Nat \ {0}
  BY <1>1, RequestBytes, Zenon
<1>3. r < n
  OBVIOUS
<1> HIDE DEF ml, pl, n
<1>4. ml \in Nat /\ pl \in Nat
  BY <1>2
<1>5. \/ r \in 0 .. ml
      \/ r - ml - 1 \in 0 .. pl /\ r = ml + 1 + (r - ml - 1)
      \/ r - ml - pl - 1 \in 1 .. 9 /\ r = ml + pl + 1 + (r - ml - pl - 1)
  BY <1>1, <1>2, <1>3, <1>4
<1>6. CASE r \in 0 .. ml
  BY <1>6, ServesMethod, Zenon DEF ml
<1>7. ASSUME NEW d \in 0 .. pl, r = ml + 1 + d
      PROVE  Eaten(Read(p, w[r + 1]), st2, m, c, r + 1)
  BY <1>7, ServesUrl, Zenon DEF ml, pl, At
<1>8. ASSUME NEW k \in 1 .. 9, r = ml + pl + 1 + k
      PROVE  Eaten(Read(p, w[r + 1]), st2, m, c, r + 1)
  BY <1>8, ServesVersion, Zenon DEF ml, pl, At
<1>9. QED
  BY <1>5, <1>6, <1>7, <1>8, Zenon


(* A response's line is read. *)
LEMMA ServesStatusLine ==
    ASSUME NEW m, NEW c, NEW p, NEW st, NEW f, NEW w, NEW r, Eats(m, c, p, st, f, w, r),
           m.type = "HTTP_RESPONSE", r < Len(StartLine(m)), OnStatusLine(p, st, f, m, r), NEW st2
    PROVE  Eaten(Read(p, w[r + 1]), st2, m, c, r + 1)
<1> DEFINE line == StartLine(m)
           n == Len(line)
           v == m.status
           ch == w[r + 1]
           q  == Read(p, ch)
<1>1. Reads(m, c, p, f, w) /\ Sendable(m) /\ Sound(p) /\ ~Stopped(p) /\ p.type = m.type
  BY Zenon DEF Eats, Reads
<1>2. /\ n = 16 /\ \A i \in 1 .. 9 : line[i] = StatusLetters[i]
      /\ line[10] \in NUM /\ Digit[line[10]] = v \div 100
      /\ line[11] \in NUM /\ v \div 10 = 10 * (v \div 100) + Digit[line[11]]
      /\ line[12] \in NUM /\ v = 10 * (v \div 10) + Digit[line[12]]
      /\ line[13] = SPACE /\ line[14] = "O" /\ line[15] = "K" /\ line[16] = LF /\ v \in 100 .. 999
  <2>1. StatusLine(Letters(m), line, v)
    BY <1>1, StatusLineIs, Zenon
  <2> HIDE DEF line, v
  <2>2. QED
    BY <2>1, ZenonT(40) DEF StatusLine, n
<1>3. \A k \in 1 .. n : w[k] = line[k]
  BY <1>1, HeadByte
<1>4. /\ r \in 0 .. 15 /\ p.state = StatusStates[r + 1]
      /\ r = 10 => p.status_code = v \div 100
      /\ r = 11 => p.status_code = v \div 10
      /\ r = 12 => p.status_code = v
      /\ r < 14 => p.marks = {}
      /\ ~(r < 14) => p.marks = {"status"}
  <2>1. /\ r \in 0 .. 15 /\ p.state = StatusStates[r + 1]
        /\ r = 10 => p.status_code = v \div 100
        /\ r = 11 => p.status_code = v \div 10
        /\ r \in 12 .. 15 => p.status_code = v
        /\ r < 14 => p.marks = {}
        /\ ~(r < 14) => p.marks = {"status"}
    BY Zenon DEF OnStatusLine
  <2>2. 12 \in 12 .. 15
    OBVIOUS
  <2>3. QED
    BY <2>1, <2>2, Zenon
<1>5. ~Crowded(p)
  BY HeadUncrowded, Zenon
<1>6. p.state # "s_header_field"
  BY <1>4 DEF StatusStates
<1>7. OnPath(q, m, r + 1)
  <2>1. m.type # "HTTP_REQUEST"
    OBVIOUS
  <2>2. QED
    BY <2>1, Zenon DEF OnPath
<1> HIDE DEF q, ch, line, n, v
<1>8. ch = line[r + 1]
  <2>1. r \in 0 .. 15 /\ n = 16
    BY <1>2, <1>4, Zenon
  <2>2. r + 1 \in 1 .. n
    BY <2>1
  <2>3. QED
    BY <1>3, <2>2, Zenon DEF ch
<1>9. ASSUME NEW D \in {{}, {"flags", "content_length"}, {"status_code"}, {"index"}}, NEW s,
             s # "s_header_field", NEW marks, NEW data, Got(p, q, D, s, marks, data, {}),
             "flags" \in D => q.flags = {}
      PROVE  Eaten(Read(p, w[r + 1]), st2, m, c, r + 1)
  <2>1. {"http_errno", "exited", "header_state"} \cap D = {} /\ "method" \notin D
    BY <1>9
  <2>2. Eaten(q, st2, m, c, r + 1)
    BY <1>6, <1>7, <1>9, <2>1, HeadTurns, Zenon DEF n, line
  <2>3. QED
    BY <2>2, Zenon DEF q, ch
<1>10. /\ StatusStates[10] = "s_res_first_status_code" /\ StatusStates[11] = "s_res_status_code"
       /\ StatusStates[12] = "s_res_status_code" /\ StatusStates[13] = "s_res_status_code"
       /\ StatusStates[14] = "s_res_status_start" /\ StatusStates[15] = "s_res_status"
       /\ StatusStates[16] = "s_res_status"
       /\ \A i \in 1 .. 16 : StatusStates[i] # "s_header_field"
  BY DEF StatusStates
<1>11. CASE r \in 0 .. 8
  <2>1. r + 1 \in 1 .. 9 /\ r < 14 /\ (r + 1) + 1 \in 1 .. 16
    BY <1>11
  <2>2. ch = StatusLetters[r + 1]
    <3>1. line[r + 1] = StatusLetters[r + 1]
      BY <1>2, <2>1, Zenon
    <3>2. QED
      BY <1>8, <3>1, Zenon
  <2>3. Headway(p, q, StatusStates[(r + 1) + 1])
    BY <1>1, <1>4, <1>5, <2>1, <2>2, StatusByte, Zenon DEF q
  <2>4. StatusStates[(r + 1) + 1] # "s_header_field"
    BY <1>10, <2>1, Zenon
  <2>5. PICK D \in {{}, {"flags", "content_length"}} :
              ("flags" \in D => q.flags = {}) /\ Got(p, q, D, StatusStates[(r + 1) + 1], {}, {}, {})
    BY <2>3, Zenon DEF Headway
  <2>6. D \in {{}, {"flags", "content_length"}, {"status_code"}, {"index"}}
    OBVIOUS
  <2>7. QED
    BY <1>9, <2>4, <2>5, <2>6, Zenon
<1>12. CASE r \in 9 .. 11
  <2> DEFINE x == IF r = 9 THEN v \div 100 ELSE IF r = 10 THEN v \div 10 ELSE v
  <2>1. /\ p.state \in {"s_res_first_status_code", "s_res_status_code"} /\ ch \in NUM
        /\ x = StatusWith(p, ch)
    <3>1. CASE r = 9
      BY <1>2, <1>4, <1>8, <1>10, <3>1, SMTT(40) DEF StatusWith
    <3>2. CASE r = 10
      BY <1>2, <1>4, <1>8, <1>10, <3>2, SMTT(40) DEF StatusWith
    <3>3. CASE r = 11
      BY <1>2, <1>4, <1>8, <1>10, <3>3, SMTT(40) DEF StatusWith
    <3>4. QED
      BY <1>12, <3>1, <3>2, <3>3
  <2>2. x <= 999
    <3>1. v \in 100 .. 999
      BY <1>2
    <3>2. v \div 100 <= 999 /\ v \div 10 <= 999 /\ v <= 999
      BY <3>1
    <3>3. QED
      BY <3>2
  <2> HIDE DEF x
  <2>3. Got(p, q, {"status_code"}, "s_res_status_code", p.marks, p.marks, {})
    BY <1>1, <1>5, <2>1, <2>2, ReadStatus, Zenon DEF q
  <2>4. QED
    BY <1>9, <2>3
<1>13. CASE r = 12
  <2>1. ch = SPACE /\ p.state = "s_res_status_code" /\ "s_res_status_start" \in States
    BY <1>2, <1>4, <1>8, <1>10, <1>13 DEF States, Lasting, Lines
  <2>2. p.passed = 0 /\ p.state \notin ChunkStates /\ p.state # "s_body_identity"
    BY <1>1, <2>1, Outside DEF Loops, ChunkStates
  <2>3. Moved(p.state, ch) = {<<p.state, ch, "s_res_status_start">>}
    BY <2>1, ResponseMoves
  <2>4. Got(p, q, {}, "s_res_status_start", p.marks, p.marks, {})
    BY <1>1, <1>5, <2>1, <2>2, <2>3, MoveRead, Zenon DEF q
  <2>5. QED
    BY <1>9, <2>4
<1>14. CASE r \in 13 .. 15
  <2>1. /\ ch \in {"O", "K", LF} /\ (r = 13 => ch = "O")
        /\ p.state = IF r = 13 THEN "s_res_status_start" ELSE "s_res_status"
        /\ p.marks = IF r = 13 THEN {} ELSE {"status"}
    <3>1. r = 13 \/ r = 14 \/ r = 15
      BY <1>14
    <3>2. CASE r = 13
      BY <1>2, <1>4, <1>8, <1>10, <3>2
    <3>3. CASE r = 14
      BY <1>2, <1>4, <1>8, <1>10, <3>3
    <3>4. CASE r = 15
      BY <1>2, <1>4, <1>8, <1>10, <3>4
    <3>5. QED
      BY <3>1, <3>2, <3>3, <3>4, Zenon
  <2>2. \/ p.state = "s_res_status_start" /\ p.marks = {} /\ ch # LF
        \/ p.state = "s_res_status" /\ p.marks = {"status"}
    BY <2>1 DEF LF
  <2>3. \/ Got(p, q, {"index"}, "s_res_status", {"status"}, {"status"}, {})
        \/ Got(p, q, {"index"}, "s_header_field_start", {}, {}, {})
    BY <1>1, <1>5, <2>1, <2>2, ReadReason, Zenon DEF q
  <2>4. QED
    BY <1>9, <2>3
<1>15. r \in 0 .. 8 \/ r \in 9 .. 11 \/ r = 12 \/ r \in 13 .. 15
  BY <1>4
<1>16. QED
  BY <1>11, <1>12, <1>13, <1>14, <1>15, Zenon


(* A byte of a line is read: d bytes of line i have been. *)
Runs(m, c, p, st, f, w, r, i, d) ==
    /\ Eats(m, c, p, st, f, w, r) /\ i \in 1 .. Count(m) /\ ~Skipped(m, i)
    /\ d \in 0 .. Len(HeaderLines(m, c)[i]) - 1 /\ At(r, Start(m, c, i) + d)
    /\ OnLine(p, st, f, m, c, i, d)

(* What is known of the parser after so much of a line, besides. *)
Quiet(p, st, m, i, d) ==
    /\ "CHUNKED" \notin p.flags
    /\ i < Count(m) \/ d <= Length(LengthName) + 2 => "CONTENTLENGTH" \notin p.flags
    /\ IF p.state = "s_header_field" THEN Spelled(p, st["header_field"])
       ELSE p.header_state \notin Chunking /\ (i < Count(m) => p.header_state # "h_content_length")

(* The places of a line. *)
RunsAt(last, e, k, n, r, i, d) ==
    /\ r \in Nat /\ last \in Nat /\ e \in Nat /\ d \in Nat /\ r < e
    /\ i \in Nat /\ k \in Nat /\ i <= k
    /\ i < k => r < last
    /\ i = k => r = last + d
    /\ n \in Nat /\ n <= r

LEMMA RunPlaces ==
    ASSUME NEW m, NEW c, NEW p, NEW st, NEW f, NEW w, NEW r, NEW i, NEW d, Runs(m, c, p, st, f, w, r, i, d),
           NEW last, last = Start(m, c, Count(m)), NEW e, e = Start(m, c, Count(m) + 1)
    PROVE  RunsAt(last, e, Count(m), Len(StartLine(m)), r, i, d)
<1>1. /\ Eats(m, c, p, st, f, w, r) /\ i \in 1 .. Count(m)
      /\ d \in 0 .. Len(HeaderLines(m, c)[i]) - 1 /\ r = Start(m, c, i) + d
      /\ Sendable(m) /\ c \in 0 .. MaxLength /\ ~Skipped(m, i)
  BY Zenon DEF Runs, At, Eats, Reads
<1> DEFINE k == Count(m)
           S1(j) == Start(m, c, j)
           n == Len(HeaderLines(m, c)[i])
<1>2. k \in Nat
  BY <1>1, HeadersAre, Zenon
<1>3. LineLayout(Append(Bytes(m, c), NUL), S1(i), n, S1(i + 1), Name(m, c, i), Value(m, c, i))
  BY <1>1, LineLaid, Zenon
<1>4. /\ S1(1) = Len(StartLine(m))
      /\ \A j \in 1 .. k + 1 : S1(j) \in Nat /\ S1(j) > 0
      /\ \A j \in 1 .. k : S1(j + 1) = S1(j) + Len(HeaderLines(m, c)[j])
  BY <1>1, StartIs, Zenon
<1>5. \A a \in 1 .. k + 1 : \A b \in a .. k + 1 : S1(a) <= S1(b)
  BY <1>1, StartsRise, Zenon
<1>6. n \in Nat
  <2> HIDE DEF n, S1
  <2>1. QED
    BY <1>3 DEF LineLayout
<1>7. S1(i + 1) = S1(i) + n
  BY <1>1, <1>4, Zenon
<1>8. last = S1(k) /\ e = S1(k + 1) /\ S1(1) = Len(StartLine(m))
  BY <1>4, Zenon
<1>9. i \in 1 .. k /\ d \in 0 .. n - 1 /\ r = S1(i) + d
  BY <1>1, Zenon
<1> HIDE DEF k, S1, n
<1>10. /\ i \in 1 .. k + 1 /\ i + 1 \in 1 .. k + 1 /\ k \in 1 .. k + 1 /\ k + 1 \in 1 .. k + 1
       /\ 1 \in 1 .. k + 1 /\ i \in 1 .. k + 1 /\ k + 1 \in i + 1 .. k + 1 /\ i \in Nat /\ i <= k
       /\ i < k => k \in i + 1 .. k + 1
  BY <1>2, <1>9
<1>11. S1(i) \in Nat /\ S1(i + 1) \in Nat /\ S1(k) \in Nat /\ S1(k + 1) \in Nat /\ S1(1) \in Nat
  BY <1>4, <1>10, Zenon
<1>12. S1(i + 1) <= S1(k + 1) /\ S1(1) <= S1(i) /\ (i < k => S1(i + 1) <= S1(k))
  BY <1>5, <1>10, Zenon
<1>13. r \in Nat /\ d \in Nat /\ r < S1(i + 1) /\ S1(1) <= r
  BY <1>6, <1>7, <1>9, <1>11, <1>12
<1>14. r < e /\ (i < k => r < last)
  BY <1>8, <1>11, <1>12, <1>13
<1>15. i = k => r = last + d
  BY <1>8, <1>9
<1>16. QED
  BY <1>2, <1>8, <1>10, <1>11, <1>12, <1>13, <1>14, <1>15, Zenon DEF k, RunsAt

(* There is room for a line, and the path is behind. *)
LEMMA RunRoom ==
    ASSUME NEW m, NEW c, NEW p, NEW st, NEW f, NEW w, NEW r, NEW i, NEW d, Runs(m, c, p, st, f, w, r, i, d)
    PROVE  ~Crowded(p) /\ \A q : OnPath(q, m, r + 1)
<1> DEFINE last == Start(m, c, Count(m))
           e == Start(m, c, Count(m) + 1)
           n == Len(StartLine(m))
<1>0. last = Start(m, c, Count(m)) /\ e = Start(m, c, Count(m) + 1) /\ n = Len(StartLine(m))
  OBVIOUS
<1> HIDE DEF last, e, n
<1>1. r \in Nat /\ e \in Nat /\ r < e /\ n \in Nat /\ n <= r
  <2>1. RunsAt(last, e, Count(m), n, r, i, d)
    BY <1>0, RunPlaces, Zenon
  <2>2. QED
    BY <2>1, Zenon DEF RunsAt
<1>2. Eats(m, c, p, st, f, w, r)
  BY Zenon DEF Runs
<1>3. Sendable(m)
  BY <1>2, Zenon DEF Eats, Reads
<1> HIDE DEF last, e, n
<1>4. r < e + 2 /\ r + 1 \in Nat
  BY <1>1
<1>5. ~Crowded(p)
  BY <1>2, <1>4, Uncrowded, Zenon DEF e
<1>6. ASSUME NEW q PROVE OnPath(q, m, r + 1)
  <2>1. ASSUME m.type = "HTTP_REQUEST"
        PROVE  r + 1 > Len(m.method) + 1 + Len(m.path)
    <3> DEFINE ml == Len(m.method)
               pl == Len(m.path)
    <3>1. n = ml + pl + 11 /\ ml \in 1 .. 16 /\ pl \in Nat \ {0}
      BY <1>3, <2>1, RequestBytes, Zenon DEF n
    <3> HIDE DEF ml, pl
    <3>2. r + 1 > ml + 1 + pl
      BY <1>1, <3>1
    <3>3. QED
      BY <3>2 DEF ml, pl
  <2>2. QED
    BY <1>3, <1>4, <2>1, OffPath, Zenon
<1>7. QED
  BY <1>5, <1>6, Zenon

(* What is known of a line. *)
LEMMA RunQuiet ==
    ASSUME NEW m, NEW c, NEW p, NEW st, NEW f, NEW w, NEW r, NEW i, NEW d, Runs(m, c, p, st, f, w, r, i, d)
    PROVE  Quiet(p, st, m, i, d)
<1> DEFINE last == Start(m, c, Count(m))
           e == Start(m, c, Count(m) + 1)
           k == Count(m)
           l == Length(LengthName)
<1>0. last = Start(m, c, Count(m)) /\ e = Start(m, c, Count(m) + 1) /\ k = Count(m)
  OBVIOUS
<1> HIDE DEF last, e, k
<1>1. /\ r \in Nat /\ last \in Nat /\ e \in Nat /\ r < e /\ d \in Nat
      /\ i \in Nat /\ k \in Nat /\ i <= k
      /\ i < k => r < last
      /\ i = k => r = last + d
  <2>1. RunsAt(last, e, k, Len(StartLine(m)), r, i, d)
    BY <1>0, RunPlaces, Zenon
  <2>2. QED
    BY <2>1, Zenon DEF RunsAt
<1>2. Served(p, st, m, last, e, r)
  <2>1. Serving(p, st, m, c, r)
    BY Zenon DEF Runs, Eats
  <2>2. QED
    BY <1>0, <2>1, ServingIs, Zenon
<1>3. l \in Nat
  BY LengthNameIs DEF Length
<1> HIDE DEF last, e, k, l
<1>4. i < k \/ d <= l + 2 => r <= last + l + 2
  BY <1>1, <1>3
<1>5. i < k => r < last
  BY <1>1
<1>6. QED
  BY <1>2, <1>4, <1>5, Zenon DEF Served, Quiet, k, l

(* A byte of a line that leaves what has to be known. *)
LEMMA RunServes ==
    ASSUME NEW m, NEW c, NEW p, NEW st, NEW f, NEW w, NEW r, NEW i, NEW d, Runs(m, c, p, st, f, w, r, i, d),
           NEW q, NEW D, NEW s, NEW marks, NEW data, NEW calls, Got(p, q, D, s, marks, data, calls),
           {"http_errno", "exited", "method"} \cap D = {}, NEW st2, Quiet(q, st2, m, i, d + 1)
    PROVE  Eaten(q, st2, m, c, r + 1)
<1> DEFINE last == Start(m, c, Count(m))
           e == Start(m, c, Count(m) + 1)
           k == Count(m)
           l == Length(LengthName)
<1>0. last = Start(m, c, Count(m)) /\ e = Start(m, c, Count(m) + 1) /\ k = Count(m)
  OBVIOUS
<1> HIDE DEF last, e, k
<1>1. /\ r \in Nat /\ last \in Nat /\ e \in Nat /\ r < e /\ d \in Nat
      /\ i \in Nat /\ k \in Nat /\ i <= k
      /\ i < k => r < last
      /\ i = k => r = last + d
  <2>1. RunsAt(last, e, k, Len(StartLine(m)), r, i, d)
    BY <1>0, RunPlaces, Zenon
  <2>2. QED
    BY <2>1, Zenon DEF RunsAt
<1>2. Eats(m, c, p, st, f, w, r)
  BY Zenon DEF Runs
<1>3. Served(p, st, m, last, e, r) /\ p.type = m.type /\ ~Stopped(p)
  <2>1. Serving(p, st, m, c, r) /\ p.type = m.type /\ ~Stopped(p)
    BY <1>2, Zenon DEF Eats, Reads
  <2>2. QED
    BY <1>0, <2>1, ServingIs, Zenon
<1>4. l \in Nat
  BY LengthNameIs DEF Length
<1>5. /\ q \in Parser /\ Load(q) <= Load(p) + 1
      /\ q.http_errno = p.http_errno /\ q.exited = p.exited /\ q.method = p.method
  BY DEF Got, Like
<1>6. ~Failed(q) /\ ~q.exited
  BY <1>3, <1>5 DEF Stopped, Failed
<1>7. Load(q) \in Int /\ Load(p) \in Int /\ Load(p) <= r
  BY <1>2, <1>5, LoadIs, PlacesAre, Zenon
<1>8. OnPath(q, m, r + 1)
  BY RunRoom, Zenon
<1> HIDE DEF last, e, k, l
<1>9. Load(q) <= r + 1 /\ Load(q) <= e + 2
  BY <1>1, <1>5, <1>7
<1>10. r + 1 <= last + l + 2 => i < k \/ d + 1 <= l + 2
  BY <1>1, <1>4
<1>11. r + 1 < last => i < k
  BY <1>1
<1>12. Served(q, st2, m, last, e, r + 1)
  BY <1>3, <1>5, <1>8, <1>9, <1>10, <1>11, Zenon DEF Served, Quiet, k, l
<1>13. Serving(q, st2, m, c, r + 1)
  BY <1>12, ServingIs, Zenon DEF last, e
<1>14. QED
  BY <1>6, <1>13, Zenon DEF Eaten

(* The byte that is read, and where the parser is. *)
RunByte(p, st, ch, name, val, d) ==
    LET nl == Len(name)
        vl == Len(val)
    IN  /\ nl \in Nat \ {0} /\ vl \in Nat /\ d \in 0 .. nl + vl + 2
        /\ d = 0 => p.state \in LineStates /\ p.marks = {}
        /\ d \in 0 .. nl - 1 => ch = name[d + 1] /\ ch \in TOKEN
        /\ d \in 1 .. nl => /\ p.state = "s_header_field" /\ p.marks = {"header_field"}
                            /\ st = Only("header_field", First(name, d))
        /\ d = nl => ch = ":"
        /\ d \in nl + 1 .. nl + 2 => p.state = "s_header_value_discard_ws" /\ p.marks = {}
        /\ d = nl + 1 => ch = SPACE
        /\ d \in nl + 2 .. nl + vl + 1 => ch = val[d - nl - 1] /\ ch \notin {CR, LF}
        /\ d = nl + 2 /\ vl > 0 => ch \notin {SPACE, TAB}
        /\ d \in nl + 3 .. nl + vl + 2 => p.state = "s_header_value" /\ p.marks = {"header_value"}
        /\ d = nl + vl + 2 => ch = LF

LEMMA RunByteIs ==
    ASSUME NEW m, NEW c, NEW p, NEW st, NEW f, NEW w, NEW r, NEW i, NEW d, Runs(m, c, p, st, f, w, r, i, d)
    PROVE  RunByte(p, st, w[r + 1], Name(m, c, i), Value(m, c, i), d)
<1> DEFINE name == Name(m, c, i)
           val == Value(m, c, i)
           nl == Len(name)
           vl == Len(val)
           s == Start(m, c, i)
           n == Len(HeaderLines(m, c)[i])
           ch == w[r + 1]
<1>1. /\ Sendable(m) /\ c \in 0 .. MaxLength /\ i \in 1 .. Count(m) /\ ~Skipped(m, i)
      /\ w = Append(Bytes(m, c), NUL) /\ d \in 0 .. n - 1 /\ r = s + d /\ OnLine(p, st, f, m, c, i, d)
  BY Zenon DEF Runs, Eats, Reads, At
<1>2. /\ nl \in Nat \ {0} /\ vl \in Nat /\ s \in Nat /\ n = nl + vl + 3
      /\ \A k \in 0 .. nl - 1 : w[s + k + 1] = name[k + 1] /\ w[s + k + 1] \in TOKEN
      /\ w[s + nl + 1] = ":" /\ w[s + nl + 2] = SPACE
      /\ \A k \in 1 .. vl : w[s + nl + 2 + k] = val[k] /\ w[s + nl + 2 + k] \notin {CR, LF}
      /\ vl > 0 => w[s + nl + 3] \notin {SPACE, TAB}
      /\ w[s + nl + vl + 3] = LF
  <2>1. LineLayout(w, s, n, Start(m, c, i + 1), name, val)
    BY <1>1, LineLaid, Zenon
  <2> HIDE DEF s, n, name, val
  <2>2. QED
    BY <2>1, Zenon DEF LineLayout, name, val
<1>3. nl \in Nat \ {0} /\ vl \in Nat /\ s \in Nat /\ n = nl + vl + 3 /\ d \in 0 .. n - 1 /\ r = s + d
  BY <1>1, <1>2, Zenon
<1>4. /\ d = 0 => p.state \in LineStates /\ p.marks = {}
      /\ d \in 1 .. nl => /\ p.state = "s_header_field" /\ p.marks = {"header_field"}
                          /\ st = Only("header_field", First(name, d))
      /\ d \in nl + 1 .. nl + 2 => p.state = "s_header_value_discard_ws" /\ p.marks = {}
      /\ d \in nl + 3 .. nl + 2 + vl => p.state = "s_header_value" /\ p.marks = {"header_value"}
  <2>1. nl \in Nat /\ nl > 0 /\ vl \in Nat
    <3> HIDE DEF nl, vl
    <3>1. QED
      BY <1>3
  <2>2. OnLine(p, st, f, m, c, i, d)
    BY <1>1, Zenon
  <2>3. d = 0 => p.state \in LineStates /\ p.marks = {}
    BY <2>1, <2>2, LineAt, Zenon
  <2>4. d \in 1 .. nl => /\ p.state = "s_header_field" /\ p.marks = {"header_field"}
                         /\ st = Only("header_field", First(name, d))
                         /\ f.headers = HeadersBefore(m, c, i)
    BY <2>1, <2>2, LineAt, Zenon
  <2>5. d \in nl + 1 .. nl + 2 => p.state = "s_header_value_discard_ws" /\ p.marks = {}
    BY <2>1, <2>2, LineAt, Zenon
  <2>6. d \in nl + 3 .. nl + 2 + vl => p.state = "s_header_value" /\ p.marks = {"header_value"}
    BY <2>1, <2>2, LineAt, Zenon
  <2>7. QED
    BY <2>3, <2>4, <2>5, <2>6, Zenon
<1> HIDE DEF name, val, nl, vl, s, n, ch
<1>5. nl \in Nat /\ nl > 0 /\ vl \in Nat /\ s \in Nat /\ d \in Nat /\ d \in 0 .. nl + vl + 2
  BY <1>3
<1>6. d \in 0 .. nl - 1 => ch = name[d + 1] /\ ch \in TOKEN
  <2>1. s + d + 1 = r + 1
    BY <1>3
  <2>2. QED
    BY <1>2, <2>1, Zenon DEF ch
<1>7. d = nl => ch = ":"
  <2>1. d = nl => s + nl + 1 = r + 1
    BY <1>3
  <2>2. QED
    BY <1>2, <2>1, Zenon DEF ch
<1>8. d = nl + 1 => ch = SPACE
  <2>1. d = nl + 1 => s + nl + 2 = r + 1
    BY <1>3
  <2>2. QED
    BY <1>2, <2>1, Zenon DEF ch
<1>9. d \in nl + 2 .. nl + vl + 1 => ch = val[d - nl - 1] /\ ch \notin {CR, LF}
  <2>1. d \in nl + 2 .. nl + vl + 1 => d - nl - 1 \in 1 .. vl /\ s + nl + 2 + (d - nl - 1) = r + 1
    BY <1>3
  <2>2. QED
    BY <1>2, <2>1, Zenon DEF ch
<1>10. d = nl + 2 /\ vl > 0 => ch \notin {SPACE, TAB}
  <2>1. d = nl + 2 => s + nl + 3 = r + 1
    BY <1>3
  <2>2. QED
    BY <1>2, <2>1, Zenon DEF ch
<1>11. d = nl + vl + 2 => ch = LF
  <2>1. d = nl + vl + 2 => s + nl + vl + 3 = r + 1
    BY <1>3
  <2>2. QED
    BY <1>2, <2>1, Zenon DEF ch
<1>12. nl + vl + 2 = nl + 2 + vl
  BY <1>3
<1>13. QED
  BY <1>3, <1>4, <1>5, <1>6, <1>7, <1>8, <1>9, <1>10, <1>11, <1>12, Zenon DEF RunByte, name, val, nl, vl, ch

(* What is known before a byte of a line. *)
LEMMA RunKnown ==
    ASSUME NEW m, NEW c, NEW p, NEW st, NEW f, NEW w, NEW r, NEW i, NEW d, Runs(m, c, p, st, f, w, r, i, d)
    PROVE  /\ Sound(p) /\ ~Stopped(p) /\ p \in Parser /\ ~Crowded(p) /\ Quiet(p, st, m, i, d)
           /\ Sendable(m) /\ c \in 0 .. MaxLength /\ i \in 1 .. Count(m) /\ ~Skipped(m, i)
           /\ RunByte(p, st, w[r + 1], Name(m, c, i), Value(m, c, i), d)
           /\ ~FramesItself(m) /\ Readable(m)
<1>1. Sound(p) /\ ~Stopped(p) /\ Sendable(m) /\ c \in 0 .. MaxLength /\ ~FramesItself(m) /\ Readable(m)
      /\ i \in 1 .. Count(m) /\ ~Skipped(m, i)
  BY Zenon DEF Runs, Eats, Reads
<1>2. p \in Parser
  BY <1>1, Zenon DEF Sound
<1>3. QED
  BY <1>1, <1>2, RunRoom, RunQuiet, RunByteIs, Zenon

(* The string of a name grows with its byte. *)
NameByte(q) == q.marks = {"header_field"} /\ q.data = {"header_field"} /\ q.calls \subseteq {"header_value"}

LEMMA FieldGathers ==
    ASSUME NEW p, NEW q, NEW s, NEW st, st = Only("header_field", s), NEW ch, NameByte(q)
    PROVE  StringsAfter(p, q, st, ch)["header_field"] = Append(s, ch)
<1>0. q.marks = {"header_field"} /\ q.data = {"header_field"} /\ q.calls \subseteq {"header_value"}
  BY DEF NameByte
<1>1. DOMAIN st = Names /\ "header_field" \in Names /\ st["header_field"] = s
  BY OnlyIs DEF Names
<1>2. "header_field" \notin MadeBy(p, q, st)
  BY <1>0 DEF MadeBy
<1>3. GivenTo(q, st, ch)["header_field"] = Append(s, ch) /\ DOMAIN GivenTo(q, st, ch) = Names
  BY <1>0, <1>1 DEF GivenTo
<1>4. QED
  BY <1>1, <1>2, <1>3 DEF StringsAfter

(* One more letter of a word has been read. *)
LEMMA SpellsOn ==
    ASSUME NEW T, NEW s \in Seq(T), NEW ch \in T, NEW word, Spells(word, s), Lowered(ch) = Nth(word, Len(s))
    PROVE  Spells(word, Append(s, ch))
<1> DEFINE a == Append(s, ch)
           n == Len(s)
<1>1. n \in Nat /\ Len(a) = n + 1 /\ (\A j \in 1 .. n : a[j] = s[j]) /\ a[n + 1] = ch
  OBVIOUS
<1> HIDE DEF a, n
<1>2. \A j \in 1 .. n : Lowered(s[j]) = Nth(word, j - 1)
  BY Zenon DEF Spells, n
<1>3. (n + 1) - 1 = n /\ \A j \in 1 .. n + 1 : j \in 1 .. n \/ j = n + 1
  BY <1>1
<1>4. Lowered(ch) = Nth(word, n)
  BY Zenon DEF n
<1>5. \A j \in 1 .. n + 1 : Lowered(a[j]) = Nth(word, j - 1)
  <2> TAKE j \in 1 .. n + 1
  <2>1. CASE j \in 1 .. n
    BY <1>1, <1>2, <2>1, Zenon
  <2>2. CASE j = n + 1
    BY <1>1, <1>3, <1>4, <2>2, Zenon
  <2>3. QED
    BY <1>3, <2>1, <2>2, Zenon
<1>6. QED
  BY <1>1, <1>5, Zenon DEF Spells, a

(* A word is matched one letter further, or not. *)
LEMMA MatchSpelled ==
    ASSUME NEW t \in Parser, t.header_state \in FieldMatching, Indexed(t), NEW T, NEW s \in Seq(T), NEW ch \in T,
           Spelled(t, s), NEW q, q.header_state = Match(t, Lowered(ch), "h_general").header_state,
           q.index = Match(t, Lowered(ch), "h_general").index
    PROVE  Spelled(q, Append(s, ch))
<1> DEFINE h == t.header_state
           w == Word[h]
           j == t.index + 1
           a == Append(s, ch)
<1>1. h \in DOMAIN Word /\ j < Length(w) /\ t.index \in 0 .. 17
  BY DEF FieldMatching, Word, Indexed, Parser
<1>2. /\ q.index = j
      /\ q.header_state = IF Lowered(ch) # Nth(w, j) THEN "h_general"
                          ELSE IF j = Len(w) - 1 THEN Whole[h] ELSE h
  <2>1. Match(t, Lowered(ch), "h_general").index = j
    BY DEF Match, Parser
  <2>2. Match(t, Lowered(ch), "h_general").header_state =
            IF Lowered(ch) # Nth(w, j) THEN "h_general" ELSE IF j = Len(w) - 1 THEN Whole[h] ELSE h
    BY DEF Match, Parser
  <2>3. QED
    BY <2>1, <2>2, Zenon
<1>3. Len(s) \in Nat /\ Len(a) = Len(s) + 1
  OBVIOUS
<1>4. CASE h = "h_matching_content_length"
  <2>1. w = LengthName /\ Whole[h] = "h_content_length" /\ t.index = Len(s) - 1 /\ Spells(LengthName, s)
    BY <1>4 DEF Word, Whole, LengthName, Spelled
  <2>2. j = Len(s) /\ q.index = Len(a) - 1 /\ (j = Length(LengthName) - 1 => Len(a) = Length(LengthName))
    <3>1. Length(LengthName) \in Nat
      <4>1. Length(LengthName) \in 5 .. 17
        BY LengthNameIs, Zenon DEF Length
      <4>2. QED
        BY <4>1
    <3> HIDE DEF a
    <3>2. t.index = Len(s) - 1
      BY <2>1
    <3>3. QED
      BY <1>1, <1>2, <1>3, <3>1, <3>2
  <2>3. CASE Lowered(ch) # Nth(w, j)
    BY <1>2, <2>3 DEF Spelled, FieldPrefix
  <2>4. CASE Lowered(ch) = Nth(w, j)
    <3>1. Spells(LengthName, a)
      BY <2>1, <2>2, <2>4, SpellsOn, Zenon
    <3>2. q.header_state = IF j = Length(LengthName) - 1 THEN "h_content_length" ELSE "h_matching_content_length"
      BY <1>2, <1>4, <2>1, <2>4, Zenon DEF Length
    <3> HIDE DEF a, j
    <3>3. QED
      BY <2>2, <3>1, <3>2 DEF Spelled, FieldPrefix, a
  <2>5. QED
    BY <2>3, <2>4, Zenon
<1>5. CASE h = "h_matching_transfer_encoding"
  <2>1. w = EncodingName /\ Whole[h] = "h_transfer_encoding" /\ t.index = Len(s) - 1 /\ Spells(EncodingName, s)
    BY <1>5 DEF Word, Whole, EncodingName, Spelled
  <2>2. j = Len(s) /\ q.index = Len(a) - 1 /\ (j = Length(EncodingName) - 1 => Len(a) = Length(EncodingName))
    <3>1. Length(EncodingName) \in Nat
      <4>1. Len(w) \in 5 .. 17
        BY <1>1, LengthAssumption, Zenon
      <4>2. Length(EncodingName) \in 5 .. 17
        BY <2>1, <4>1, Zenon DEF Length
      <4>3. QED
        BY <4>2
    <3> HIDE DEF a
    <3>2. t.index = Len(s) - 1
      BY <2>1
    <3>3. QED
      BY <1>1, <1>2, <1>3, <3>1, <3>2
  <2>3. CASE Lowered(ch) # Nth(w, j)
    BY <1>2, <2>3 DEF Spelled, FieldPrefix
  <2>4. CASE Lowered(ch) = Nth(w, j)
    <3>1. Spells(EncodingName, a)
      BY <2>1, <2>2, <2>4, SpellsOn, Zenon
    <3>2. q.header_state = IF j = Length(EncodingName) - 1 THEN "h_transfer_encoding"
                           ELSE "h_matching_transfer_encoding"
      BY <1>2, <1>5, <2>1, <2>4, Zenon DEF Length
    <3> HIDE DEF a, j
    <3>3. QED
      BY <2>2, <3>1, <3>2 DEF Spelled, FieldPrefix, a
  <2>5. QED
    BY <2>3, <2>4, Zenon
<1>6. CASE h \notin {"h_matching_content_length", "h_matching_transfer_encoding"}
  <2>1. h \in {"h_matching_connection", "h_matching_proxy_connection", "h_matching_upgrade"}
    BY <1>6 DEF FieldMatching
  <2>2. q.header_state \in {"h_general", h, Whole[h]}
    BY <1>2
  <2>3. Whole[h] \in {"h_connection", "h_upgrade"}
    BY <2>1 DEF Whole
  <2>4. q.header_state \in {"h_general", "h_connection", "h_upgrade", "h_matching_connection",
                            "h_matching_proxy_connection", "h_matching_upgrade"}
    BY <2>1, <2>2, <2>3
  <2>5. QED
    BY <2>4 DEF Spelled, FieldPrefix
<1>7. QED
  BY <1>4, <1>5, <1>6, Zenon

(* Another byte of a name. *)
LEMMA FieldSpelled ==
    ASSUME NEW t \in Parser, t.header_state \in FieldHeaders, Indexed(t), NEW T, NEW s \in Seq(T), NEW ch \in T,
           Spelled(t, s), NEW q, q.header_state = FieldByte(t, Lowered(ch)).header_state,
           q.index = FieldByte(t, Lowered(ch)).index
    PROVE  Spelled(q, Append(s, ch))
<1> DEFINE h == t.header_state
           lc == Lowered(ch)
           a == Append(s, ch)
<1>1. CASE h \in FieldMatching
  <2>1. FieldByte(t, lc) = Match(t, lc, "h_general")
    BY <1>1 DEF FieldByte, FieldMatching, FieldPrefix
  <2>2. /\ q.header_state = Match(t, Lowered(ch), "h_general").header_state
        /\ q.index = Match(t, Lowered(ch), "h_general").index
    BY <2>1
  <2>3. QED
    BY <1>1, <2>2, MatchSpelled, Zenon
<1>2. CASE h \notin FieldMatching \cup FieldPrefix
  <2>1. FieldByte(t, lc) = [t EXCEPT !.header_state = "h_general"]
    BY <1>2 DEF FieldByte
  <2>2. q.header_state = "h_general"
    BY <2>1 DEF Parser
  <2>3. QED
    BY <2>2 DEF Spelled, FieldPrefix
<1>3. CASE h \in FieldPrefix
  <2> DEFINE to == {x[3] : x \in {n \in FieldMoves : n[1] = h /\ n[2] = lc}}
  <2>0. h \notin FieldMatching
    BY <1>3 DEF FieldMatching, FieldPrefix
  <2>1. FieldByte(t, lc) = [t EXCEPT !.index = t.index + 1,
                                     !.header_state = IF to = {} THEN "h_general" ELSE CHOOSE x \in to : TRUE]
    BY <1>3, <2>0 DEF FieldByte
  <2>2. q.index = t.index + 1 /\ q.header_state = IF to = {} THEN "h_general" ELSE CHOOSE x \in to : TRUE
    <3> DEFINE g == IF to = {} THEN "h_general" ELSE CHOOSE x \in to : TRUE
    <3> HIDE DEF g
    <3>1. FieldByte(t, lc) = [t EXCEPT !.index = t.index + 1, !.header_state = g]
      BY <2>1, Zenon DEF g
    <3>2. FieldByte(t, lc).index = t.index + 1 /\ FieldByte(t, lc).header_state = g
      BY <3>1 DEF Parser
    <3>3. QED
      BY <3>2, Zenon DEF g
  <2>3. t.index = Len(s) - 1 /\ Spells(LengthName, s)
    BY <1>3, Zenon DEF Spelled
  <2>4. Len(s) \in Nat /\ Len(a) = Len(s) + 1 /\ t.index \in 0 .. 17
    BY DEF Parser
  <2>5. q.index = Len(a) - 1 /\ t.index + 1 = Len(s)
    <3> HIDE DEF a
    <3>1. t.index = Len(s) - 1
      BY <2>3
    <3>2. QED
      BY <2>2, <2>4, <3>1
  <2>6. CASE to = {}
    <3>1. q.header_state = "h_general"
      BY <2>2, <2>6
    <3>2. QED
      BY <3>1 DEF Spelled, FieldPrefix
  <2>7. CASE to # {}
    <3>1. PICK n \in FieldMoves : n[1] = h /\ n[2] = lc
      BY <2>7
    <3>2. q.header_state \in to
      BY <2>2, <2>7
    <3> HIDE DEF lc
    <3>3. CASE n = <<"h_CON", "n", "h_matching_connection">>
      <4>1. h = "h_CON" /\ lc = "n"
        BY <3>1, <3>3
      <4>2. to \subseteq {"h_matching_connection"}
        BY <4>1 DEF FieldMoves
      <4>3. q.header_state = "h_matching_connection"
        BY <3>2, <4>2
      <4>4. QED
        BY <4>3 DEF Spelled, FieldPrefix
    <3>4. CASE n # <<"h_CON", "n", "h_matching_connection">>
      <4>1. /\ q.header_state \in {"h_CO", "h_CON", "h_matching_content_length"}
            /\ lc = <<"c", "o", "n", "t">>[t.index + 2] /\ t.index + 2 \in 1 .. 4
        <5>1. n \in {<<"h_C", "o", "h_CO">>, <<"h_CO", "n", "h_CON">>, <<"h_CON", "t", "h_matching_content_length">>}
          BY <3>1, <3>4 DEF FieldMoves
        <5>2. h = "h_C" => to \subseteq {"h_CO"}
          BY DEF FieldMoves
        <5>3. h = "h_CO" => to \subseteq {"h_CON"}
          BY DEF FieldMoves
        <5>4. h = "h_CON" /\ lc = "t" => to \subseteq {"h_matching_content_length"}
          BY DEF FieldMoves
        <5>5. /\ h = "h_C" => t.index = 0
              /\ h = "h_CO" => t.index = 1
              /\ h = "h_CON" => t.index = 2
          BY DEF Indexed
        <5>6. \/ h = "h_C" /\ lc = "o"
              \/ h = "h_CO" /\ lc = "n"
              \/ h = "h_CON" /\ lc = "t"
          BY <3>1, <5>1
        <5> HIDE DEF to, h
        <5>7. QED
          BY <3>2, <5>2, <5>3, <5>4, <5>5, <5>6
      <4>2. lc = Nth(LengthName, t.index + 1)
        <5>1. (t.index + 2) - 1 = t.index + 1
          BY <2>4
        <5>2. Nth(LengthName, (t.index + 2) - 1) = <<"c", "o", "n", "t">>[t.index + 2]
          BY <4>1, TextAssumption, Zenon DEF LengthName
        <5>3. QED
          BY <4>1, <5>1, <5>2, Zenon
      <4>3. lc = Nth(LengthName, Len(s))
        BY <2>5, <4>2, Zenon
      <4>4. Spells(LengthName, a)
        BY <2>3, <4>3, SpellsOn, Zenon DEF lc
      <4> HIDE DEF a, to
      <4>5. QED
        BY <2>5, <4>1, <4>4 DEF Spelled, FieldPrefix, a
    <3>5. QED
      BY <3>3, <3>4
  <2>8. QED
    BY <2>6, <2>7
<1>4. QED
  BY <1>1, <1>2, <1>3

(* The first letter of a name. *)
LEMMA FirstSpelled ==
    ASSUME NEW T, NEW ch \in T, NEW q, q.header_state = FirstLetter(Lowered(ch)), q.index = 0
    PROVE  Spelled(q, Append(<<>>, ch))
<1> DEFINE a == Append(<<>>, ch)
           lc == Lowered(ch)
<1>1. Len(a) = 1 /\ Len(<<>>) = 0 /\ Len(a) - 1 = 0 /\ <<>> \in Seq(T)
  OBVIOUS
<1>2. Spells(LengthName, <<>>) /\ Spells(EncodingName, <<>>)
  BY <1>1 DEF Spells
<1>3. Nth(LengthName, 0) = "c" /\ Nth(EncodingName, 0) = "t"
  <2>1. 1 \in 1 .. 4 /\ 1 - 1 = 0 /\ <<"c", "o", "n", "t">>[1] = "c"
    OBVIOUS
  <2>2. Nth("content-length", 1 - 1) = <<"c", "o", "n", "t">>[1]
    BY <2>1, TextAssumption, Zenon
  <2>3. QED
    BY <2>1, <2>2, TextAssumption, Zenon DEF LengthName, EncodingName
<1>4. lc = "c" => Spells(LengthName, a)
  BY <1>1, <1>2, <1>3, SpellsOn, Zenon
<1>5. lc = "t" => Spells(EncodingName, a)
  BY <1>1, <1>2, <1>3, SpellsOn, Zenon
<1> HIDE DEF a, lc
<1>6. q.header_state = FirstLetter(lc)
  BY DEF lc
<1>7. CASE lc = "c"
  BY <1>1, <1>4, <1>6, <1>7 DEF Spelled, FieldPrefix, FirstLetter, a
<1>8. CASE lc = "t"
  BY <1>1, <1>5, <1>6, <1>8 DEF Spelled, FieldPrefix, FirstLetter, a
<1>9. CASE lc \notin {"c", "t"}
  <2>1. q.header_state \in {"h_general", "h_matching_proxy_connection", "h_matching_upgrade"}
    BY <1>6, <1>9 DEF FirstLetter
  <2>2. QED
    BY <2>1 DEF Spelled, FieldPrefix
<1>10. QED
  BY <1>7, <1>8, <1>9

(* What is known goes on to the next byte. *)
LEMMA QuietOn ==
    ASSUME NEW m, NEW p, NEW st, NEW i, NEW d \in Nat, Quiet(p, st, m, i, d), NEW q, NEW st2,
           "CHUNKED" \notin q.flags, "CONTENTLENGTH" \in q.flags => "CONTENTLENGTH" \in p.flags,
           IF q.state = "s_header_field" THEN Spelled(q, st2["header_field"])
           ELSE q.header_state \notin Chunking /\ (i < Count(m) => q.header_state # "h_content_length")
    PROVE  Quiet(q, st2, m, i, d + 1)
<1> DEFINE l == Length(LengthName)
<1>1. l \in 5 .. 17
  BY LengthNameIs, Zenon DEF Length
<1> HIDE DEF l
<1>2. d + 1 <= l + 2 => d <= l + 2
  BY <1>1
<1>3. i < Count(m) \/ d + 1 <= l + 2 => "CONTENTLENGTH" \notin q.flags
  BY <1>2, Zenon DEF Quiet, l
<1>4. QED
  BY <1>3, Zenon DEF Quiet, l

(* The words of a header that is none of an encoding set no flag of a body. *)
LEMMA FlaggedQuiet ==
    ASSUME NEW p \in Parser, p.header_state \notin Chunking
    PROVE  Flagged(p).flags \cap {"CHUNKED", "CONTENTLENGTH"} \subseteq p.flags
<1>1. CASE p.header_state \in DOMAIN FlagOf
  <2>1. Flagged(p).flags = p.flags \cup {FlagOf[p.header_state]}
    BY <1>1 DEF Flagged, Flag, Parser
  <2>2. FlagOf[p.header_state] \in {"CONNECTION_KEEP_ALIVE", "CONNECTION_CLOSE", "CONNECTION_UPGRADE"}
    BY <1>1 DEF FlagOf, Chunking
  <2>3. QED
    BY <2>1, <2>2
<1>2. CASE p.header_state \notin DOMAIN FlagOf
  BY <1>2 DEF Flagged
<1>3. QED
  BY <1>1, <1>2

(* The end of a line sets no flag of a body. *)
LEMMA LineFlagsQuiet ==
    ASSUME NEW p \in Parser, p.header_state \notin Chunking
    PROVE  LineFlags(p) \cap {"CHUNKED", "CONTENTLENGTH"} \subseteq p.flags
BY FlaggedQuiet DEF LineFlags

(* The first byte of a line. *)
LEMMA RunsFirst ==
    ASSUME NEW m, NEW c, NEW p, NEW st, NEW f, NEW w, NEW r, NEW i, NEW d, Runs(m, c, p, st, f, w, r, i, d), At(d, 0)
    PROVE  Eaten(Read(p, w[r + 1]), StringsAfter(p, Read(p, w[r + 1]), st, w[r + 1]), m, c, r + 1)
<1> DEFINE ch == w[r + 1]
           q == Read(p, ch)
           st2 == StringsAfter(p, q, st, ch)
<1>1. /\ Sound(p) /\ ~Stopped(p) /\ p \in Parser /\ ~Crowded(p) /\ Quiet(p, st, m, i, d)
      /\ RunByte(p, st, ch, Name(m, c, i), Value(m, c, i), d) /\ Sendable(m) /\ c \in 0 .. MaxLength
      /\ i \in 1 .. Count(m) /\ ~Skipped(m, i)
  BY RunKnown, Zenon DEF ch
<1>2. d = 0 /\ d \in Nat
  BY DEF At
<1>3. p.state \in LineStates /\ p.marks = {} /\ ch \in TOKEN
  <2>1. Len(Name(m, c, i)) \in Nat \ {0}
    BY <1>1, Zenon DEF RunByte
  <2>2. 0 \in 0 .. Len(Name(m, c, i)) - 1
    BY <2>1
  <2>3. QED
    BY <1>1, <1>2, <2>2, Zenon DEF RunByte
<1>4. st = NoStrings
  <2>1. OnLine(p, st, f, m, c, i, d)
    BY Zenon DEF Runs
  <2>2. Len(Name(m, c, i)) \in Nat \ {0} /\ Len(Value(m, c, i)) \in Nat
    BY <1>1, Zenon DEF RunByte
  <2>3. Len(Name(m, c, i)) \in Nat /\ Len(Name(m, c, i)) > 0 /\ Len(Value(m, c, i)) \in Nat
    BY <2>2
  <2>4. QED
    BY <1>2, <2>1, <2>3, LineAt, Zenon
<1> HIDE DEF ch, q, st2
<1>5. PICK D : /\ D = {"header_state", "index", "flags"}
               /\ Got(p, q, D, "s_header_field", {"header_field"}, {"header_field"}, LateCalls(p))
               /\ q.header_state = FirstLetter(Lowered(ch)) /\ q.index = 0 /\ q.flags = LineFlags(p)
  BY <1>1, <1>3, ReadNameFirst, Zenon DEF q
<1>6. q.state = "s_header_field" /\ NameByte(q)
  BY <1>5 DEF Got, LateCalls, NameByte
<1>7. st2["header_field"] = Append(<<>>, ch)
  <2>1. st = Only("header_field", <<>>)
    BY <1>4, OnlyIs, Zenon DEF Names
  <2>2. QED
    BY <1>6, <2>1, FieldGathers DEF st2
<1>8. Spelled(q, st2["header_field"])
  BY <1>3, <1>5, <1>7, FirstSpelled, Zenon
<1>9. LineFlags(p) \cap {"CHUNKED", "CONTENTLENGTH"} \subseteq p.flags /\ "CHUNKED" \notin p.flags
  <2>1. p.state # "s_header_field"
    BY <1>3 DEF LineStates
  <2>2. p.header_state \notin Chunking /\ "CHUNKED" \notin p.flags
    BY <1>1, <2>1, Zenon DEF Quiet
  <2>3. QED
    BY <1>1, <2>2, LineFlagsQuiet, Zenon
<1>10. "CHUNKED" \notin q.flags /\ ("CONTENTLENGTH" \in q.flags => "CONTENTLENGTH" \in p.flags)
  BY <1>5, <1>9
<1>11. Quiet(q, st2, m, i, d + 1)
  BY <1>1, <1>2, <1>6, <1>8, <1>10, QuietOn, Zenon
<1>12. {"http_errno", "exited", "method"} \cap D = {}
  BY <1>5
<1>13. QED
  BY <1>5, <1>11, <1>12, RunServes, Zenon DEF q, ch, st2

(* A byte of a name. *)
LEMMA RunsName ==
    ASSUME NEW m, NEW c, NEW p, NEW st, NEW f, NEW w, NEW r, NEW i, NEW d, Runs(m, c, p, st, f, w, r, i, d),
           d \in 1 .. Len(Name(m, c, i)) - 1
    PROVE  Eaten(Read(p, w[r + 1]), StringsAfter(p, Read(p, w[r + 1]), st, w[r + 1]), m, c, r + 1)
<1> DEFINE name == Name(m, c, i)
           nl == Len(name)
           ch == w[r + 1]
           q == Read(p, ch)
           st2 == StringsAfter(p, q, st, ch)
<1>1. /\ Sound(p) /\ ~Stopped(p) /\ p \in Parser /\ ~Crowded(p) /\ Quiet(p, st, m, i, d)
      /\ RunByte(p, st, ch, name, Value(m, c, i), d) /\ Sendable(m) /\ c \in 0 .. MaxLength
      /\ i \in 1 .. Count(m) /\ ~Skipped(m, i)
  BY RunKnown, Zenon DEF ch
<1>2. d \in 1 .. nl - 1 /\ nl \in Nat \ {0}
  BY <1>1, Zenon DEF RunByte
<1>3. name \in Seq(Letters(m))
  BY <1>1, HeaderIs, Zenon DEF name
<1> HIDE DEF name, nl, ch, q, st2
<1>4. d \in Nat /\ d \in 1 .. nl /\ d \in 0 .. nl - 1 /\ d \in 0 .. nl /\ d + 1 \in 1 .. nl
  BY <1>2
<1>5. p.state = "s_header_field" /\ p.marks = {"header_field"} /\ ch \in TOKEN /\ ch = name[d + 1]
      /\ st = Only("header_field", First(name, d))
  BY <1>1, <1>4, Zenon DEF RunByte, nl
<1>0. /\ Got(p, q, {"header_state", "index", "passed"}, "s_header_field", {"header_field"}, {"header_field"}, {})
      /\ \E t : /\ Turned(p, t) /\ t.header_state \in FieldHeaders /\ Indexed(t)
                /\ q.header_state = FieldByte(t, Lowered(ch)).header_state
                /\ q.index = FieldByte(t, Lowered(ch)).index
  <2>1. ~(Failed(q) /\ Crowded(p))
    BY <1>1, Zenon
  <2>2. QED
    BY <1>1, <1>5, <2>1, ReadName DEF q
<1>6. PICK D : /\ D = {"header_state", "index", "passed"}
               /\ Got(p, q, D, "s_header_field", {"header_field"}, {"header_field"}, {})
  BY <1>0, Zenon
<1>7. PICK t : /\ Turned(p, t) /\ t.header_state \in FieldHeaders /\ Indexed(t)
               /\ q.header_state = FieldByte(t, Lowered(ch)).header_state
               /\ q.index = FieldByte(t, Lowered(ch)).index
  BY <1>0, Zenon
<1>8. t \in Parser /\ t.header_state = p.header_state /\ t.index = p.index
  BY <1>7, TurnedIs, ZenonT(40)
<1>9. Spelled(t, First(name, d))
  <2>1. st["header_field"] = First(name, d)
    BY <1>5, OnlyIs, Zenon DEF Names
  <2>2. Spelled(p, First(name, d))
    BY <1>1, <1>5, <2>1, Zenon DEF Quiet
  <2>3. QED
    BY <1>8, <2>2, Zenon DEF Spelled
<1>10. First(name, d) \in Seq(Letters(m)) /\ ch \in Letters(m)
  <2>1. First(name, d) \in Seq(Letters(m))
    BY <1>3, <1>4, FirstIs, Zenon DEF nl
  <2>2. name[d + 1] \in Letters(m)
    BY <1>3, <1>4, ElementOfSeq DEF nl
  <2>3. QED
    BY <1>5, <2>1, <2>2, Zenon
<1>11. Spelled(q, Append(First(name, d), ch))
  BY <1>7, <1>8, <1>9, <1>10, FieldSpelled, Zenon
<1>12. q.state = "s_header_field" /\ NameByte(q) /\ q.flags = p.flags
  BY <1>6 DEF Got, Like, NameByte
<1>13. st2["header_field"] = Append(First(name, d), ch)
  BY <1>5, <1>12, FieldGathers DEF st2
<1>14. Spelled(q, st2["header_field"])
  BY <1>11, <1>13, Zenon
<1>15. "CHUNKED" \notin q.flags /\ ("CONTENTLENGTH" \in q.flags => "CONTENTLENGTH" \in p.flags)
  BY <1>1, <1>12, Zenon DEF Quiet
<1>16. Quiet(q, st2, m, i, d + 1)
  BY <1>1, <1>4, <1>12, <1>14, <1>15, QuietOn, Zenon
<1>17. {"http_errno", "exited", "method"} \cap D = {}
  BY <1>6
<1>18. QED
  BY <1>6, <1>16, <1>17, RunServes, Zenon DEF q, ch, st2

(* A name that has been spelled is the word. *)
LEMMA SpelledOut ==
    ASSUME NEW word, Len(word) \in Nat, NEW name, Len(name) = Len(word), Spells(word, name)
    PROVE  tolower(name) = Text(word)
<1> DEFINE n == Len(word)
<1>1. \A j \in 1 .. n : Lowered(name[j]) = Nth(word, j - 1)
  BY Zenon DEF Spells
<1>2. \A j \in 1 .. n : Text(word)[j] = Nth(word, j - 1)
  BY TextIs
<1>3. tolower(name) = [j \in 1 .. n |-> Lowered(name[j])] /\ Text(word) = [j \in 1 .. n |-> SubSeq(word, j, j)]
  BY Zenon DEF tolower, Text
<1>4. \A j \in 1 .. n : Text(word)[j] = SubSeq(word, j, j)
  BY <1>3
<1> HIDE DEF n
<1>5. \A j \in 1 .. n : Lowered(name[j]) = SubSeq(word, j, j)
  BY <1>1, <1>2, <1>4, Zenon
<1>6. QED
  BY <1>3, <1>5

(* A name that is none of the body's, where it ends. *)
LEMMA ColonQuiet ==
    ASSUME NEW m, NEW c, NEW p, NEW st, NEW f, NEW w, NEW r, NEW i, NEW d, Runs(m, c, p, st, f, w, r, i, d),
           At(d, Len(Name(m, c, i)))
    PROVE  p.header_state \notin Chunking /\ (i < Count(m) => p.header_state # "h_content_length")
<1> DEFINE name == Name(m, c, i)
           nl == Len(name)
           h == p.header_state
           ch == w[r + 1]
<1>1. /\ Sound(p) /\ ~Stopped(p) /\ p \in Parser /\ Quiet(p, st, m, i, d)
      /\ RunByte(p, st, ch, name, Value(m, c, i), d) /\ Sendable(m) /\ c \in 0 .. MaxLength
      /\ i \in 1 .. Count(m) /\ ~Skipped(m, i) /\ ~FramesItself(m)
  BY RunKnown, Zenon DEF ch
<1>2. d = nl /\ nl \in Nat \ {0}
  BY <1>1, Zenon DEF RunByte, At
<1>3. name \in Seq(Letters(m))
  BY <1>1, HeaderIs, Zenon DEF name
<1>4. First(name, nl) = name
  BY <1>3, FirstIs, Zenon DEF nl
<1>5. Count(m) = Len(m.headers) + 1 /\ Len(m.headers) \in Nat /\ Count(m) \in Nat
  BY <1>1, HeadersAre, Zenon DEF Count
<1>6. /\ i < Count(m) => i \in 1 .. Len(m.headers)
      /\ ~(i < Count(m)) => i = Count(m)
  BY <1>1, <1>5
<1>7. i < Count(m) => name = m.headers[i][1]
  BY <1>1, <1>6, HeadersAre, Zenon DEF name
<1>8. i = Count(m) => name = Text(LengthName) /\ nl = Length(LengthName)
  <2>1. Len(Text(LengthName)) = Length(LengthName)
    BY LengthNameIs, Zenon DEF Length
  <2>2. QED
    BY <1>1, <2>1, HeadersAre, Zenon DEF name
<1> HIDE DEF name, nl, h
<1>9. p.state = "s_header_field" /\ st = Only("header_field", First(name, nl))
  <2>1. d \in 1 .. nl
    BY <1>2
  <2>2. QED
    BY <1>1, <1>2, <2>1, Zenon DEF RunByte, nl
<1>10. Spelled(p, name)
  <2>1. st["header_field"] = name
    BY <1>4, <1>9, OnlyIs, Zenon DEF NameByte, Names
  <2>2. QED
    BY <1>1, <1>9, <2>1, Zenon DEF Quiet
<1>11. h \in FieldHeaders
  BY <1>1, <1>9 DEF Sound, Matching, Stopped, h
<1>12. ASSUME i < Count(m) PROVE h # "h_content_length" /\ h # "h_transfer_encoding"
  <2>1. CASE h = "h_content_length"
    <3>1. Len(name) = Len(LengthName) /\ Spells(LengthName, name)
      BY <1>10, <2>1, Zenon DEF Spelled, Length, h
    <3>2. Len(LengthName) \in Nat
      <4>1. Len(LengthName) \in 5 .. 17
        BY LengthNameIs, Zenon
      <4>2. QED
        BY <4>1
    <3>3. tolower(name) = Text(LengthName)
      BY <3>1, <3>2, SpelledOut, Zenon
    <3>4. Skipped(m, i)
      <4>1. i <= Len(m.headers)
        BY <1>6, <1>5, <1>12
      <4>2. QED
        BY <1>7, <1>12, <3>3, <4>1, Zenon DEF Skipped, LengthName
    <3>5. QED
      BY <1>1, <3>4, Zenon
  <2>2. CASE h = "h_transfer_encoding"
    <3>1. Len(name) = Len(EncodingName) /\ Spells(EncodingName, name)
      BY <1>10, <2>2, Zenon DEF Spelled, Length, h
    <3>2. Len(EncodingName) \in Nat
      <4>1. "h_matching_transfer_encoding" \in DOMAIN Word
        BY DEF Word
      <4>2. Word["h_matching_transfer_encoding"] = EncodingName
        BY DEF Word, EncodingName
      <4>3. Len(EncodingName) \in 5 .. 17
        BY <4>1, <4>2, LengthAssumption, Zenon
      <4>4. QED
        BY <4>3
    <3>3. tolower(name) = Text(EncodingName)
      BY <3>1, <3>2, SpelledOut, Zenon
    <3>4. FramesItself(m)
      BY <1>6, <1>7, <1>12, <3>3, Zenon DEF FramesItself, EncodingName
    <3>5. QED
      BY <1>1, <3>4, Zenon
  <2>3. QED
    BY <2>1, <2>2, Zenon
<1>13. ASSUME ~(i < Count(m)) PROVE h = "h_content_length"
  <2>1. i = Count(m) /\ nl = Length(LengthName)
    BY <1>6, <1>8, <1>13, Zenon
  <2>2. OnLength(p, c, nl)
    BY <1>2, <2>1, Zenon DEF Runs, OnLine
  <2>3. nl \in 1 .. Length(LengthName)
    BY <1>2, <2>1
  <2>4. QED
    BY <2>1, <2>2, <2>3, Zenon DEF OnLength, LengthState, h
<1>14. h \notin {"h_matching_transfer_encoding_chunked", "h_transfer_encoding_chunked"}
  BY <1>11 DEF FieldHeaders, FieldPrefix, FieldMatching, FieldWhole
<1>15. h # "h_transfer_encoding"
  BY <1>12, <1>13
<1>16. QED
  BY <1>12, <1>14, <1>15 DEF Chunking, h

(* A byte outside a name that leaves the flags and the state of the header. *)
LEMMA RunKeeps ==
    ASSUME NEW m, NEW c, NEW p, NEW st, NEW f, NEW w, NEW r, NEW i, NEW d, Runs(m, c, p, st, f, w, r, i, d),
           p.header_state \notin Chunking, i < Count(m) => p.header_state # "h_content_length",
           NEW q, NEW D, NEW s, NEW marks, NEW data, NEW calls, Got(p, q, D, s, marks, data, calls),
           {"http_errno", "exited", "method", "flags", "header_state"} \cap D = {},
           s # "s_header_field", NEW st2
    PROVE  Eaten(q, st2, m, c, r + 1)
<1>1. Quiet(p, st, m, i, d) /\ RunByte(p, st, w[r + 1], Name(m, c, i), Value(m, c, i), d)
  BY RunKnown, Zenon
<1>2. d \in Nat
  <2>1. d \in 0 .. Len(Name(m, c, i)) + Len(Value(m, c, i)) + 2
    BY <1>1, Zenon DEF RunByte
  <2>2. QED
    BY <2>1
<1>3. q.flags = p.flags /\ q.header_state = p.header_state /\ q.state = s
  BY DEF Got, Like
<1>4. "CHUNKED" \notin q.flags /\ ("CONTENTLENGTH" \in q.flags => "CONTENTLENGTH" \in p.flags)
  BY <1>1, <1>3, Zenon DEF Quiet
<1>5. q.state # "s_header_field" /\ q.header_state \notin Chunking
      /\ (i < Count(m) => q.header_state # "h_content_length")
  BY <1>3
<1>6. Quiet(q, st2, m, i, d + 1)
  BY <1>1, <1>2, <1>4, <1>5, QuietOn, Zenon
<1>7. {"http_errno", "exited", "method"} \cap D = {}
  OBVIOUS
<1>8. QED
  BY <1>6, <1>7, RunServes, Zenon

(* The colon after a name. *)
LEMMA RunsColon ==
    ASSUME NEW m, NEW c, NEW p, NEW st, NEW f, NEW w, NEW r, NEW i, NEW d, Runs(m, c, p, st, f, w, r, i, d),
           At(d, Len(Name(m, c, i))), NEW st2
    PROVE  Eaten(Read(p, w[r + 1]), st2, m, c, r + 1)
<1> DEFINE nl == Len(Name(m, c, i))
           ch == w[r + 1]
           q == Read(p, ch)
<1>1. /\ Sound(p) /\ ~Stopped(p) /\ ~Crowded(p)
      /\ RunByte(p, st, ch, Name(m, c, i), Value(m, c, i), d)
  BY RunKnown, Zenon DEF ch
<1>2. p.header_state \notin Chunking /\ (i < Count(m) => p.header_state # "h_content_length")
  BY ColonQuiet, Zenon
<1>3. d = nl /\ nl \in Nat \ {0}
  BY <1>1, Zenon DEF RunByte, At
<1> HIDE DEF nl, ch, q
<1>4. d \in 1 .. nl
  BY <1>3
<1>5. ch = ":" /\ p.state = "s_header_field" /\ p.marks = {"header_field"}
  BY <1>1, <1>3, <1>4, Zenon DEF RunByte, nl
<1>6. PICK D : /\ D = {"passed", "skipping"}
               /\ Got(p, q, D, "s_header_value_discard_ws", {}, {}, {})
  BY <1>1, <1>5, ReadNameEnd, Zenon DEF q
<1>7. {"http_errno", "exited", "method", "flags", "header_state"} \cap D = {}
  BY <1>6
<1>8. "s_header_value_discard_ws" # "s_header_field"
  OBVIOUS
<1>9. QED
  BY <1>2, <1>6, <1>7, <1>8, RunKeeps, Zenon DEF q, ch

(* The blank after a colon, and the line end of an empty value. *)
LEMMA RunsBlank ==
    ASSUME NEW m, NEW c, NEW p, NEW st, NEW f, NEW w, NEW r, NEW i, NEW d, Runs(m, c, p, st, f, w, r, i, d),
           \/ At(d, Len(Name(m, c, i)) + 1)
           \/ At(d, Len(Name(m, c, i)) + 2) /\ At(Len(Value(m, c, i)), 0),
           NEW st2
    PROVE  Eaten(Read(p, w[r + 1]), st2, m, c, r + 1)
<1> DEFINE nl == Len(Name(m, c, i))
           vl == Len(Value(m, c, i))
           ch == w[r + 1]
           q == Read(p, ch)
           s == IF d = nl + 1 THEN "s_header_value_discard_ws" ELSE "s_header_value_discard_lws"
<1>1. /\ Sound(p) /\ ~Stopped(p) /\ ~Crowded(p) /\ Quiet(p, st, m, i, d)
      /\ RunByte(p, st, ch, Name(m, c, i), Value(m, c, i), d)
  BY RunKnown, Zenon DEF ch
<1>2. (d = nl + 1 \/ (d = nl + 2 /\ vl = 0)) /\ nl \in Nat \ {0} /\ vl \in Nat
  BY <1>1, Zenon DEF RunByte, At
<1> HIDE DEF nl, vl, ch, q
<1>3. d \in nl + 1 .. nl + 2 /\ (d # nl + 1 => d = nl + vl + 2)
  BY <1>2
<1>4. /\ p.state = "s_header_value_discard_ws" /\ p.marks = {}
      /\ (d = nl + 1 => ch = SPACE) /\ (d # nl + 1 => ch = LF)
  BY <1>1, <1>3, Zenon DEF RunByte, nl, vl
<1>5. /\ p.state \notin ChunkStates /\ p.state # "s_body_identity" /\ p.state \notin Loops
      /\ s \in States /\ s # "s_header_field"
  BY <1>4 DEF ChunkStates, Loops, States, Lasting, Heads
<1>6. p.passed = 0
  BY <1>1, <1>5, Outside, Zenon
<1>7. Moved(p.state, ch) = {<<p.state, ch, s>>}
  BY <1>4, ValueMoves
<1> HIDE DEF s
<1>8. (Failed(q) /\ Crowded(p)) \/ Got(p, q, {}, s, p.marks, p.marks, {})
  BY <1>1, <1>5, <1>6, <1>7, MoveRead, Zenon DEF q
<1>9. Got(p, q, {}, s, p.marks, p.marks, {})
  BY <1>1, <1>8, Zenon
<1>10. p.header_state \notin Chunking /\ (i < Count(m) => p.header_state # "h_content_length")
  <2>1. p.state # "s_header_field"
    BY <1>4
  <2>2. QED
    BY <1>1, <2>1, Zenon DEF Quiet
<1>11. {"http_errno", "exited", "method", "flags", "header_state"} \cap {} = {}
  OBVIOUS
<1>12. QED
  BY <1>5, <1>9, <1>10, <1>11, RunKeeps, Zenon DEF q, ch

(* The line end after a value. *)
LEMMA RunsValueEnd ==
    ASSUME NEW m, NEW c, NEW p, NEW st, NEW f, NEW w, NEW r, NEW i, NEW d, Runs(m, c, p, st, f, w, r, i, d),
           Len(Value(m, c, i)) > 0, At(d, Len(Name(m, c, i)) + Len(Value(m, c, i)) + 2), NEW st2
    PROVE  Eaten(Read(p, w[r + 1]), st2, m, c, r + 1)
<1> DEFINE nl == Len(Name(m, c, i))
           vl == Len(Value(m, c, i))
           ch == w[r + 1]
           q == Read(p, ch)
<1>1. /\ Sound(p) /\ ~Stopped(p) /\ ~Crowded(p) /\ Quiet(p, st, m, i, d)
      /\ RunByte(p, st, ch, Name(m, c, i), Value(m, c, i), d)
  BY RunKnown, Zenon DEF ch
<1>2. d = nl + vl + 2 /\ vl > 0 /\ nl \in Nat \ {0} /\ vl \in Nat
  BY <1>1, Zenon DEF RunByte, At
<1> HIDE DEF nl, vl, ch, q
<1>3. d \in nl + 3 .. nl + vl + 2
  BY <1>2
<1>4. p.state = "s_header_value" /\ p.marks = {"header_value"} /\ ch = LF
  BY <1>1, <1>2, <1>3, Zenon DEF RunByte, nl, vl
<1>5. PICK D : /\ D = {"passed", "skipping"}
               /\ Got(p, q, D, "s_header_value_lws", {}, {}, {})
  BY <1>1, <1>4, ReadValueEnd, Zenon DEF q
<1>6. p.header_state \notin Chunking /\ (i < Count(m) => p.header_state # "h_content_length")
  <2>1. p.state # "s_header_field"
    BY <1>4
  <2>2. QED
    BY <1>1, <2>1, Zenon DEF Quiet
<1>7. {"http_errno", "exited", "method", "flags", "header_state"} \cap D = {}
  BY <1>5
<1>8. "s_header_value_lws" # "s_header_field"
  OBVIOUS
<1>9. QED
  BY <1>5, <1>6, <1>7, <1>8, RunKeeps, Zenon DEF q, ch

(* The beginning of a value that is none of an encoding: whether a body has   *)
(* chunks or a length.                                                        *)
StartsAs(c, v) ==
    /\ v.header_state \notin Chunking
    /\ v.header_state = "h_content_length" => c.header_state = "h_content_length"
    /\ "CHUNKED" \in v.flags => "CHUNKED" \in c.flags
    /\ c.header_state # "h_content_length" => ("CONTENTLENGTH" \in v.flags => "CONTENTLENGTH" \in c.flags)

LEMMA StartsQuiet ==
    ASSUME NEW c \in Parser, c.header_state \notin Chunking, NEW ch
    PROVE  StartsAs(c, HeaderValueStart(c, ch))
<1> DEFINE g == Go(c, "s_header_value")
           m == MARK(g, "header_value")
           q == [m EXCEPT !.index = 0]
           In(h) == [q EXCEPT !.header_state = h]
           u == Flag(In("h_general"), "UPGRADE")
           f == Flag(q, "CONTENTLENGTH")
           v == HeaderValueStart(c, ch)
<1>1. "s_header_value" \in States /\ "header_value" \in Data /\ "h_general" \in Headers
      /\ "UPGRADE" \in Flags /\ "CONTENTLENGTH" \in Flags
  BY DEF States, Lasting, Heads, Data, Headers, ValueHeaders, Flags
<1>2. Like(c, g, {"state"})
  BY <1>1, Goes
<1> HIDE DEF g
<1>3. Like(g, m, {"marks"})
  BY <1>1, <1>2, MarkSets DEF Like
<1> HIDE DEF m
<1>4. q \in Parser
  BY <1>3, Values, Put, Zenon DEF Like
<1>5. Like(m, q, {"index"})
  BY <1>3, <1>4 DEF Like, Parser
<1> HIDE DEF q
<1>6. c.header_state = q.header_state /\ c.flags = q.flags
  BY <1>2, <1>3, <1>5 DEF Like
<1>7. \A h \in Headers : In(h).header_state = h /\ In(h).flags = q.flags
  BY <1>4, HeaderSets DEF Like
<1>8. c.header_state # "h_transfer_encoding"
  BY DEF Chunking
<1>9. CASE c.header_state = "h_upgrade"
  <2>1. v = u
    BY <1>6, <1>9 DEF HeaderValueStart, q, m, g
  <2> DEFINE i == In("h_general")
  <2>2. i.header_state = "h_general" /\ i.flags = q.flags /\ i \in Parser
    BY <1>1, <1>4, <1>7, HeaderSets DEF Like
  <2> HIDE DEF i
  <2>3. Like(i, Flag(i, "UPGRADE"), {"flags"}) /\ Flag(i, "UPGRADE").flags = i.flags \cup {"UPGRADE"}
    BY <1>1, <2>2, FlagSets DEF Like
  <2>4. v.header_state = "h_general" /\ v.flags = q.flags \cup {"UPGRADE"}
    BY <2>1, <2>2, <2>3 DEF Like, i
  <2> HIDE DEF v
  <2>5. QED
    BY <1>6, <2>4 DEF StartsAs, Chunking, v
<1>10. CASE c.header_state = "h_content_length"
  <2>1. v = FirstOfLength(q, ch)
    BY <1>6, <1>10 DEF HeaderValueStart, q, m, g
  <2>2. v.header_state = q.header_state /\ ("CHUNKED" \in v.flags => "CHUNKED" \in q.flags)
    <3>1. CASE ch \in NUM /\ "CONTENTLENGTH" \notin q.flags
      <4>1. v = [f EXCEPT !.content_length = Digit[ch]]
        BY <2>1, <3>1 DEF FirstOfLength
      <4>2. Like(q, f, {"flags"}) /\ f.flags = q.flags \cup {"CONTENTLENGTH"}
        BY <1>1, <1>4, FlagSets
      <4> HIDE DEF f, v
      <4>3. v.header_state = f.header_state /\ v.flags = f.flags
        BY <4>1, <4>2 DEF Like, Parser
      <4>4. QED
        BY <4>2, <4>3 DEF Like
    <3>2. CASE ~(ch \in NUM /\ "CONTENTLENGTH" \notin q.flags)
      <4>1. v = Fail(q, "INVALID_CONTENT_LENGTH") \/ v = Fail(q, "UNEXPECTED_CONTENT_LENGTH")
        BY <2>1, <3>2 DEF FirstOfLength
      <4> HIDE DEF v
      <4>2. QED
        BY <1>4, <4>1 DEF Fail, Parser
    <3>3. QED
      BY <3>1, <3>2
  <2> HIDE DEF v
  <2>3. QED
    BY <1>6, <1>10, <2>2 DEF StartsAs, Chunking, v
<1>11. CASE c.header_state \notin {"h_upgrade", "h_content_length"}
  <2> DEFINE H == {"h_general", "h_matching_connection_keep_alive", "h_matching_connection_close",
                   "h_matching_connection_upgrade", "h_matching_connection_token"}
  <2>1. H \subseteq Headers
    BY DEF Headers, ValueHeaders, ListMatching, ListToken
  <2>2. v = q \/ \E h \in H : v = In(h)
    <3>1. \/ v = In("h_general") \/ v = q
          \/ v = In("h_matching_connection_keep_alive") \/ v = In("h_matching_connection_close")
          \/ v = In("h_matching_connection_upgrade") \/ v = In("h_matching_connection_token")
      BY <1>6, <1>8, <1>11 DEF HeaderValueStart, q, m, g
    <3> HIDE DEF In, v
    <3>2. QED
      BY <3>1
  <2> HIDE DEF v, In
  <2>3. (v.header_state = q.header_state \/ v.header_state \in H) /\ v.flags = q.flags
    BY <1>7, <2>1, <2>2
  <2>4. QED
    BY <1>6, <1>11, <2>3 DEF StartsAs, Chunking, v
<1>12. QED
  BY <1>9, <1>10, <1>11

(* What the line of the length is made of. *)
LEMMA LengthLine ==
    ASSUME NEW m, Sendable(m), NEW c \in 0 .. MaxLength, NEW i, i = Count(m)
    PROVE  /\ Len(Name(m, c, i)) = Length(LengthName)
           /\ Value(m, c, i) = to_string(c)
           /\ \A j \in 1 .. Len(Value(m, c, i)) : Value(m, c, i)[j] \in NUM
<1>1. Name(m, c, i) = Text(LengthName) /\ Value(m, c, i) = to_string(c)
  BY HeadersAre, Zenon
<1>2. Len(Text(LengthName)) = Length(LengthName)
  BY LengthNameIs, Zenon DEF Length
<1> DEFINE s == to_string(c)
<1>3. s \in Seq(NUM)
  BY WrittenLength, Zenon
<1> HIDE DEF s
<1>4. \A j \in 1 .. Len(s) : s[j] \in NUM
  BY <1>3
<1>5. QED
  BY <1>1, <1>2, <1>4, Zenon DEF s

(* The first byte of a value. *)
LEMMA RunsValueFirst ==
    ASSUME NEW m, NEW c, NEW p, NEW st, NEW f, NEW w, NEW r, NEW i, NEW d, Runs(m, c, p, st, f, w, r, i, d),
           At(d, Len(Name(m, c, i)) + 2), Len(Value(m, c, i)) > 0, NEW st2
    PROVE  Eaten(Read(p, w[r + 1]), st2, m, c, r + 1)
<1> DEFINE name == Name(m, c, i)
           val == Value(m, c, i)
           nl == Len(name)
           vl == Len(val)
           ch == w[r + 1]
           q == Read(p, ch)
<1>1. /\ Sound(p) /\ ~Stopped(p) /\ p \in Parser /\ ~Crowded(p) /\ Quiet(p, st, m, i, d)
      /\ RunByte(p, st, ch, name, val, d) /\ Sendable(m) /\ c \in 0 .. MaxLength
      /\ i \in 1 .. Count(m)
  BY RunKnown, Zenon DEF ch
<1>2. d = nl + 2 /\ nl \in Nat \ {0} /\ vl \in Nat /\ vl > 0
  BY <1>1, Zenon DEF RunByte, At
<1>3. i = Count(m) => nl = Length(LengthName) /\ \A j \in 1 .. vl : val[j] \in NUM
  BY <1>1, LengthLine, Zenon
<1>4. Count(m) \in Nat /\ i \in 1 .. Count(m)
  BY <1>1, HeadersAre, Zenon
<1> HIDE DEF name, val, nl, vl, ch, q
<1>5. /\ d \in nl + 1 .. nl + 2 /\ d \in nl + 2 .. nl + vl + 1 /\ d - nl - 1 = 1 /\ 1 \in 1 .. vl
      /\ d \in Nat
  BY <1>2
<1>6. /\ p.state = "s_header_value_discard_ws" /\ p.marks = {}
      /\ ch = val[1] /\ ch \notin {CR, LF} /\ ch \notin {SPACE, TAB}
  BY <1>1, <1>2, <1>5, Zenon DEF RunByte, nl, vl
<1>7. ch \notin {SPACE, TAB, CR, LF}
  BY <1>6
<1>8. p.header_state \notin Chunking /\ (i < Count(m) => p.header_state # "h_content_length")
      /\ "CHUNKED" \notin p.flags
  <2>1. p.state # "s_header_field"
    BY <1>6
  <2>2. QED
    BY <1>1, <2>1, Zenon DEF Quiet
<1>9. ~(p.header_state = "h_content_length" /\ (ch \notin NUM \/ "CONTENTLENGTH" \in p.flags))
  <2>1. CASE i = Count(m)
    <3>1. ch \in NUM
      BY <1>3, <1>5, <1>6, <2>1, Zenon
    <3>2. d <= Length(LengthName) + 2
      BY <1>2, <1>3, <2>1
    <3>3. "CONTENTLENGTH" \notin p.flags
      BY <1>1, <3>2, Zenon DEF Quiet
    <3>4. QED
      BY <3>1, <3>3
  <2>2. CASE i # Count(m)
    <3>1. i < Count(m)
      BY <1>4, <2>2
    <3>2. QED
      BY <1>8, <3>1
  <2>3. QED
    BY <2>1, <2>2
<1>10. /\ Got(p, q, {"header_state", "index", "flags", "content_length"}, "s_header_value",
              {"header_value"}, {"header_value"}, {})
       /\ \E t : Turned(p, t) /\ Like(HeaderValueStart(t, ch), q, {})
  BY <1>1, <1>6, <1>7, <1>9, ReadValueFirst DEF q
<1>11. PICK t : Turned(p, t) /\ Like(HeaderValueStart(t, ch), q, {})
  BY <1>10, Zenon
<1>12. t \in Parser /\ t.header_state = p.header_state /\ t.flags = p.flags
  BY <1>11, TurnedIs, ZenonT(40)
<1>13. StartsAs(t, HeaderValueStart(t, ch))
  BY <1>8, <1>12, StartsQuiet, Zenon
<1> DEFINE v == HeaderValueStart(t, ch)
<1> HIDE DEF v
<1>14. q.header_state = v.header_state /\ q.flags = v.flags
  BY <1>11 DEF Like, v
<1>15. /\ q.header_state \notin Chunking
       /\ q.header_state = "h_content_length" => p.header_state = "h_content_length"
       /\ "CHUNKED" \notin q.flags
       /\ p.header_state # "h_content_length" => ("CONTENTLENGTH" \in q.flags => "CONTENTLENGTH" \in p.flags)
  BY <1>8, <1>12, <1>13, <1>14, Zenon DEF StartsAs, v
<1>16. Quiet(q, st2, m, i, d + 1)
  <2>1. q.state # "s_header_field"
    BY <1>10 DEF Got
  <2>2. CASE i < Count(m)
    <3>1. "CONTENTLENGTH" \in q.flags => "CONTENTLENGTH" \in p.flags
      BY <1>8, <1>15, <2>2
    <3>2. QED
      BY <1>1, <1>5, <1>8, <1>15, <2>1, <3>1, QuietOn, Zenon
  <2>3. CASE ~(i < Count(m))
    <3>1. i = Count(m)
      BY <1>4, <2>3
    <3> DEFINE l == Length(LengthName)
    <3>2. nl = l
      BY <1>3, <3>1
    <3> HIDE DEF l
    <3>3. ~(d + 1 <= l + 2)
      BY <1>2, <3>2
    <3>4. QED
      BY <1>15, <2>1, <2>3, <3>3, Zenon DEF Quiet, l
  <2>4. QED
    BY <2>2, <2>3
<1>17. {"http_errno", "exited", "method"} \cap {"header_state", "index", "flags", "content_length"} = {}
  OBVIOUS
<1>18. QED
  BY <1>10, <1>16, <1>17, RunServes, Zenon DEF q, ch


(* A byte of a value that is none of an encoding fails only as a digit.       *)
LEMMA ByteQuiet ==
    ASSUME NEW p, Valuing(p), ~Failed(p), p.header_state \notin Chunking, NEW ch,
           p.header_state = "h_content_length" => ch \in NUM /\ ~TooLong(p.content_length, 10)
    PROVE  ~Failed(ValueByte(p, ch)) /\ StartsAs(p, ValueByte(p, ch))
<1> DEFINE c == LOWER(ch)
           v == ValueByte(p, ch)
           h == p.header_state
<1> SUFFICES ~Failed(v) /\ StartsAs(p, v)
  OBVIOUS
<1>1. p \in Parser /\ h \in ValueHeaders
  BY DEF Valuing
<1>2. ASSUME v.http_errno = p.http_errno,
             v.header_state \notin Chunking,
             v.header_state = "h_content_length" => h = "h_content_length",
             v.flags \cap {"CHUNKED", "CONTENTLENGTH"} \subseteq p.flags
      PROVE  ~Failed(v) /\ StartsAs(p, v)
  <2>1. ~Failed(v)
    BY <1>2 DEF Failed
  <2> HIDE DEF v
  <2>2. StartsAs(p, v)
    BY <1>2 DEF StartsAs
  <2>3. QED
    BY <2>1, <2>2
<1>3. h \notin {"h_matching_transfer_encoding_chunked", "h_transfer_encoding_chunked"}
  BY DEF Chunking
<1>4. CASE h = "h_content_length"
  <2>1. ch # SPACE
    BY <1>4, LetterApart, Zenon
  <2>2. v = Grown(p, 10, Digit[ch])
    <3>1. h \notin ListMatching /\ h \notin ListWhole \cup {"h_matching_connection_token"}
      BY <1>4 DEF ListMatching, ListWhole
    <3>2. QED
      BY <1>4, <2>1, <3>1 DEF ValueByte
  <2>3. v = [p EXCEPT !.content_length = Longer(p.content_length, 10, Digit[ch])]
    BY <1>4, <2>2, Zenon DEF Grown
  <2> HIDE DEF v
  <2>4. v.http_errno = p.http_errno /\ v.header_state = h /\ v.flags = p.flags
    BY <1>1, <2>3 DEF Parser
  <2>5. QED
    BY <1>2, <2>4
<1>5. CASE h = "h_matching_connection_token_start"
  <2>1. v = ListStart(p, c)
    <3>1. h \notin ListMatching /\ h \notin ListWhole \cup {"h_matching_connection_token"}
      BY <1>5 DEF ListMatching, ListWhole
    <3>2. QED
      BY <1>5, <3>1 DEF ValueByte
  <2> DEFINE H == {"h_general", "h_matching_connection_keep_alive", "h_matching_connection_close",
                   "h_matching_connection_upgrade", "h_matching_connection_token", h}
  <2>2. \E x \in H : v = [p EXCEPT !.header_state = x]
    BY <2>1 DEF ListStart
  <2> HIDE DEF v
  <2>3. v.http_errno = p.http_errno /\ v.header_state \in H /\ v.flags = p.flags
    BY <1>1, <2>2 DEF Parser
  <2>4. QED
    BY <1>2, <1>5, <2>3 DEF Chunking
<1>6. CASE h \in ListMatching
  <2>1. v = Match(p, c, "h_matching_connection_token")
    <3>1. /\ h \notin {"h_content_length", "h_matching_connection_token_start"}
          /\ h \notin ListWhole \cup {"h_matching_connection_token"}
      BY <1>6 DEF ListMatching, ListWhole
    <3>2. QED
      BY <1>3, <1>6, <3>1 DEF ValueByte
  <2>2. Whole[h] \in ListWhole
    BY <1>6 DEF Whole, ListMatching, ListWhole
  <2> DEFINE i == p.index + 1
             H == {"h_matching_connection_token", Whole[h], h}
  <2>3. \E x \in H : v = [p EXCEPT !.index = i, !.header_state = x]
    BY <2>1 DEF Match
  <2> HIDE DEF v, i, H
  <2>4. v.http_errno = p.http_errno /\ v.header_state \in H /\ v.flags = p.flags
    BY <1>1, <2>3 DEF Parser
  <2>5. v.header_state \in {"h_matching_connection_token", h} \cup ListWhole
    BY <2>2, <2>4 DEF H
  <2>6. v.header_state \notin Chunking /\ v.header_state # "h_content_length"
    BY <1>6, <2>5 DEF Chunking, ListWhole, ListMatching
  <2>7. QED
    BY <1>2, <2>4, <2>6
<1>7. CASE h \in ListWhole \cup {"h_matching_connection_token"}
  <2>1. v = ListRest(p, ch)
    <3>1. h \notin ListMatching
      BY <1>7 DEF ListMatching, ListWhole
    <3>2. h \notin {"h_content_length", "h_matching_connection_token_start",
                    "h_matching_transfer_encoding_chunked", "h_transfer_encoding_chunked"}
      BY <1>7 DEF ListWhole
    <3>3. QED
      BY <1>7, <3>1, <3>2 DEF ValueByte
  <2> DEFINE g == Flagged(p)
             start == "h_matching_connection_token_start"
             token == "h_matching_connection_token"
  <2>2. g.http_errno = p.http_errno /\ g \in Parser /\ g.flags \cap {"CHUNKED", "CONTENTLENGTH"} \subseteq p.flags
    <3>1. g.flags \cap {"CHUNKED", "CONTENTLENGTH"} \subseteq p.flags
      BY <1>1, FlaggedQuiet, Zenon
    <3>2. CASE h \in DOMAIN FlagOf
      <4>1. FlagOf[h] \in Flags
        BY <3>2 DEF FlagOf, Flags
      <4>2. Like(p, Flag(p, FlagOf[h]), {"flags"})
        BY <1>1, <4>1, FlagSets, Zenon
      <4>3. QED
        BY <3>1, <3>2, <4>2 DEF Flagged, Like
    <3>3. CASE h \notin DOMAIN FlagOf
      BY <1>1, <3>1, <3>3 DEF Flagged
    <3>4. QED
      BY <3>2, <3>3
  <2>3. \/ v = [g EXCEPT !.header_state = start, !.index = 0]
        \/ v = [p EXCEPT !.header_state = token]
        \/ v = p
    BY <2>1 DEF ListRest
  <2> HIDE DEF v, g
  <2>4. /\ v.http_errno = p.http_errno /\ v.header_state \in {start, token, h}
        /\ v.flags \cap {"CHUNKED", "CONTENTLENGTH"} \subseteq p.flags
    <3>1. CASE v = [g EXCEPT !.header_state = start, !.index = 0]
      <4>1. v.http_errno = g.http_errno /\ v.header_state = start /\ v.flags = g.flags
        BY <2>2, <3>1 DEF Parser
      <4>2. QED
        BY <2>2, <4>1
    <3>2. CASE v = [p EXCEPT !.header_state = token]
      <4>1. v.http_errno = p.http_errno /\ v.header_state = token /\ v.flags = p.flags
        BY <1>1, <3>2 DEF Parser
      <4>2. QED
        BY <4>1
    <3>3. CASE v = p
      BY <3>3
    <3>4. QED
      BY <2>3, <3>1, <3>2, <3>3
  <2>5. v.header_state \notin Chunking /\ v.header_state # "h_content_length"
    BY <1>7, <2>4 DEF Chunking, ListWhole
  <2>6. QED
    BY <1>2, <2>4, <2>5
<1>8. CASE h \notin {"h_content_length", "h_matching_connection_token_start", "h_matching_connection_token"}
                    \cup ListMatching \cup ListWhole
  <2>1. v = [p EXCEPT !.header_state = "h_general", !.skipping = TRUE]
    BY <1>3, <1>8 DEF ValueByte
  <2> HIDE DEF v
  <2>2. v.http_errno = p.http_errno /\ v.header_state = "h_general" /\ v.flags = p.flags
    BY <1>1, <2>1 DEF Parser
  <2>3. QED
    BY <1>2, <2>2 DEF Chunking
<1>9. QED
  BY <1>4, <1>5, <1>6, <1>7, <1>8


(* The length fits while it is read. *)
LEMMA LengthFits ==
    ASSUME NEW c \in 0 .. MaxLength, c <= ULLONG_MAX - 10, NEW k \in 1 .. Len(to_string(c)) - 1
    PROVE  ~TooLong(Leading(c, k), 10)
<1> DEFINE s == to_string(c)
           x == Leading(c, k)
           y == Leading(c, k + 1)
<1>1. s \in Seq(NUM) /\ Len(s) \in 1 .. 3 /\ y = 10 * x + Digit[s[k + 1]]
  BY WrittenLength
<1>2. c \in Nat /\ x \in Nat /\ y \in Nat /\ y <= c
  <2>1. c \in 0 .. 999 /\ Len(s) = (IF c > 99 THEN 3 ELSE IF c > 9 THEN 2 ELSE 1)
    BY WrittenLength DEF MaxLength
  <2>2. c \div 100 \in 0 .. c /\ c \div 10 \in 0 .. c /\ c \in 0 .. c
    BY <2>1
  <2>3. ASSUME NEW i \in 1 .. Len(s)
        PROVE  Leading(c, i) \in 0 .. c
    <3>1. CASE c > 99
      <4>1. i \in {1, 2, 3} /\ Leading(c, i) = <<c \div 100, c \div 10, c>>[i]
        BY <2>1, <3>1 DEF Leading
      <4>2. QED
        BY <2>2, <4>1
    <3>2. CASE ~(c > 99) /\ c > 9
      <4>1. i \in {1, 2} /\ Leading(c, i) = <<c \div 10, c>>[i]
        BY <2>1, <3>2 DEF Leading
      <4>2. QED
        BY <2>2, <4>1
    <3>3. CASE ~(c > 99) /\ ~(c > 9)
      BY <2>2, <3>3 DEF Leading
    <3>4. QED
      BY <3>1, <3>2, <3>3
  <2> HIDE DEF s
  <2>4. k \in 1 .. Len(s) /\ k + 1 \in 1 .. Len(s)
    BY <1>1 DEF s
  <2>5. x \in 0 .. c /\ y \in 0 .. c
    BY <2>3, <2>4, Zenon
  <2> HIDE DEF x, y
  <2>6. QED
    BY <2>1, <2>5
<1>3. Digit[s[k + 1]] \in Nat
  <2>1. k + 1 \in 1 .. Len(s)
    BY <1>1
  <2>2. s[k + 1] \in NUM
    <3> HIDE DEF s
    <3>1. QED
      BY <1>1, <2>1
  <2>3. QED
    BY <2>2, Digits
<1> DEFINE dg == Digit[s[k + 1]]
<1> HIDE DEF x, y, dg
<1>4. 10 * x <= ULLONG_MAX - 10
  <2>1. y = 10 * x + dg /\ dg \in Nat /\ ULLONG_MAX \in Nat
    BY <1>1, <1>3, ParserAssumption DEF dg
  <2>2. QED
    BY <1>2, <2>1
<1>5. x <= (ULLONG_MAX - 10) \div 10
  <2>1. ULLONG_MAX - 10 \in Int /\ x \in Nat
    BY <1>2, ParserAssumption
  <2>2. QED
    BY <1>4, <2>1
<1>6. QED
  BY <1>2, <1>5, ParserAssumption DEF TooLong, x


(* What the bytes of a value are, and how long the length is while it is read. *)
RunValue(m, c, i, p, st, ch) ==
    /\ Sound(p) /\ ~Stopped(p) /\ ~Crowded(p)
    /\ p.state = "s_header_value" /\ p.marks = {"header_value"}
    /\ ch \notin {CR, LF} /\ IS_HEADER_CHAR(ch)
    /\ p.header_state \notin Chunking /\ (i < Count(m) => p.header_state # "h_content_length")
    /\ p.header_state = "h_content_length" => ch \in NUM /\ ~TooLong(p.content_length, 10)
    /\ "CHUNKED" \notin p.flags

LEMMA RunValueIs ==
    ASSUME NEW m, NEW c, NEW p, NEW st, NEW f, NEW w, NEW r, NEW i, NEW d, Runs(m, c, p, st, f, w, r, i, d),
           NEW k \in 1 .. Len(Value(m, c, i)) - 1, At(d, Len(Name(m, c, i)) + 2 + k)
    PROVE  RunValue(m, c, i, p, st, w[r + 1])
<1> DEFINE name == Name(m, c, i)
           val == Value(m, c, i)
           nl == Len(name)
           vl == Len(val)
           l == Length(LengthName)
           n == Len(m.headers)
           b == Len(m.body) + SerializeExtra
           ch == w[r + 1]
<1>1. /\ Sound(p) /\ ~Stopped(p) /\ p \in Parser /\ ~Crowded(p) /\ Quiet(p, st, m, i, d)
      /\ RunByte(p, st, ch, name, val, d) /\ Sendable(m) /\ c \in 0 .. MaxLength
      /\ i \in 1 .. Count(m) /\ Readable(m)
  BY RunKnown, Zenon DEF ch
<1>2. d = nl + 2 + k /\ nl \in Nat \ {0} /\ vl \in Nat /\ k \in 1 .. vl - 1
  BY <1>1, Zenon DEF RunByte, At
<1>3. n \in Nat /\ Count(m) = n + 1 /\ i \in 1 .. Count(m)
  BY <1>1, HeadersAre, Zenon DEF Count
<1>4. c = b /\ OnLine(p, st, f, m, c, i, d)
  BY Zenon DEF Runs, Eats
<1> HIDE DEF name, val, nl, vl, ch, b, n
<1>5. /\ d \in nl + 3 .. nl + vl + 2 /\ d \in nl + 2 .. nl + vl + 1 /\ d - nl - 1 = k + 1
      /\ k + 1 \in 1 .. vl /\ d \in Nat /\ k \in Nat /\ k > 0
  BY <1>2
<1>6. /\ p.state = "s_header_value" /\ p.marks = {"header_value"}
      /\ ch = val[k + 1] /\ ch \notin {CR, LF}
  BY <1>1, <1>2, <1>5, Zenon DEF RunByte, nl, vl
<1>7. p.header_state \notin Chunking /\ (i < Count(m) => p.header_state # "h_content_length")
      /\ "CHUNKED" \notin p.flags
  <2>1. p.state # "s_header_field"
    BY <1>6
  <2>2. QED
    BY <1>1, <2>1, Zenon DEF Quiet
<1>8. CASE i = Count(m)
  <2>1. nl = l /\ val = to_string(c) /\ \A j \in 1 .. vl : val[j] \in NUM
    BY <1>1, <1>8, LengthLine, Zenon DEF name, val, nl, vl
  <2>2. ch \in NUM /\ IS_HEADER_CHAR(ch)
    BY <1>5, <1>6, <2>1, TextAssumption, Zenon
  <2>3. OnLength(p, c, d)
    BY <1>4, <1>8, Zenon DEF OnLine
  <2>4. At(d, l + 2 + k)
    BY <1>2, <2>1 DEF At
  <2>5. p.content_length = Leading(c, k)
    BY <1>5, <2>3, <2>4, LengthValued, Zenon DEF InLength
  <2>6. c <= ULLONG_MAX - 10
    BY <1>1, <1>4, Zenon DEF Readable, b
  <2>7. k \in 1 .. Len(to_string(c)) - 1
    BY <1>2, <2>1, Zenon DEF vl
  <2>8. ~TooLong(Leading(c, k), 10)
    BY <1>1, <2>6, <2>7, LengthFits, Zenon
  <2>9. QED
    BY <1>1, <1>6, <1>7, <2>2, <2>5, <2>8, Zenon DEF RunValue, ch
<1>9. CASE i # Count(m)
  <2>1. i < Count(m) /\ i \in 1 .. n
    BY <1>3, <1>9
  <2>2. val = m.headers[i][2]
    BY <1>1, <2>1, HeadersAre, Zenon DEF val, n
  <2>3. IS_HEADER_CHAR(ch)
    <3>1. \A j \in 1 .. vl : IS_HEADER_CHAR(val[j])
      BY <1>1, <2>1, <2>2, Zenon DEF Readable, n, vl
    <3>2. QED
      BY <1>5, <1>6, <3>1, Zenon
  <2>4. QED
    BY <1>1, <1>6, <1>7, <2>1, <2>3, Zenon DEF RunValue, ch
<1>10. QED
  BY <1>8, <1>9

(* A further byte of a value. *)
LEMMA RunsValue ==
    ASSUME NEW m, NEW c, NEW p, NEW st, NEW f, NEW w, NEW r, NEW i, NEW d, Runs(m, c, p, st, f, w, r, i, d),
           NEW k \in 1 .. Len(Value(m, c, i)) - 1, At(d, Len(Name(m, c, i)) + 2 + k), NEW st2
    PROVE  Eaten(Read(p, w[r + 1]), st2, m, c, r + 1)
<1> DEFINE ch == w[r + 1]
           q == Read(p, ch)
           nl == Len(Name(m, c, i))
           l == Length(LengthName)
           D == {"header_state", "index", "flags", "content_length", "passed", "skipping"}
<1>1. RunValue(m, c, i, p, st, ch)
  BY RunValueIs, Zenon DEF ch
<1>2. /\ Quiet(p, st, m, i, d) /\ Sendable(m) /\ c \in 0 .. MaxLength /\ i \in 1 .. Count(m)
      /\ nl \in Nat \ {0} /\ d = nl + 2 + k
  BY RunKnown, Zenon DEF RunByte, At
<1>3. k \in Nat /\ k > 0 /\ Count(m) \in Nat
  <2>1. Len(Value(m, c, i)) \in Nat
    BY <1>2, HeaderIs, Zenon
  <2>2. Count(m) \in Nat
    BY <1>2, HeadersAre, Zenon
  <2>3. QED
    BY <2>1, <2>2
<1>4. i = Count(m) => nl = l
  BY <1>2, LengthLine, Zenon
<1> HIDE DEF ch, q, nl, D, l
<1>5. d \in Nat /\ (i = Count(m) => ~(d + 1 <= l + 2))
  BY <1>2, <1>3, <1>4
<1>6. ASSUME NEW t, Turned(p, t), Valuing(t)
      PROVE  ~Failed(ValueByte(t, ch)) /\ StartsAs(t, ValueByte(t, ch))
  <2>1. t.header_state = p.header_state /\ t.content_length = p.content_length /\ ~Failed(t)
    BY <1>6, TurnedIs DEF Turned
  <2>2. t.header_state \notin Chunking
    BY <1>1, <2>1 DEF RunValue
  <2>3. t.header_state = "h_content_length" => ch \in NUM /\ ~TooLong(t.content_length, 10)
    BY <1>1, <2>1, Zenon DEF RunValue
  <2>4. QED
    BY <1>6, <2>1, <2>2, <2>3, ByteQuiet, Zenon
<1>7. ~Failed(q)
  BY <1>1, <1>6, ReadValueSafe, Zenon DEF RunValue, q
<1>8. /\ Got(p, q, D, "s_header_value", {"header_value"}, {"header_value"}, {})
      /\ \E t : /\ Turned(p, t) /\ Valuing(t)
                /\ p.skipping => Like(t, q, {"nread", "passed", "marks", "data", "calls"})
                /\ ~p.skipping => Like(ValueByte(t, ch), q, {"passed"})
  BY <1>1, <1>7, ReadValue, Zenon DEF RunValue, q, D
<1>9. PICK t : /\ Turned(p, t) /\ Valuing(t)
               /\ p.skipping => Like(t, q, {"nread", "passed", "marks", "data", "calls"})
               /\ ~p.skipping => Like(ValueByte(t, ch), q, {"passed"})
  BY <1>8, Zenon
<1>10. t.header_state = p.header_state /\ t.flags = p.flags
  BY <1>9, TurnedIs, ZenonT(40)
<1>11. /\ q.header_state \notin Chunking
       /\ q.header_state = "h_content_length" => p.header_state = "h_content_length"
       /\ "CHUNKED" \notin q.flags
       /\ p.header_state # "h_content_length" => ("CONTENTLENGTH" \in q.flags => "CONTENTLENGTH" \in p.flags)
  <2>1. p.header_state \notin Chunking /\ "CHUNKED" \notin p.flags
    BY <1>1, Zenon DEF RunValue
  <2>2. CASE p.skipping
    <3>1. q.header_state = t.header_state /\ q.flags = t.flags
      BY <1>9, <2>2 DEF Like
    <3>2. QED
      BY <1>10, <2>1, <3>1
  <2>3. CASE ~p.skipping
    <3> DEFINE v == ValueByte(t, ch)
    <3>1. StartsAs(t, v)
      BY <1>6, <1>9
    <3> HIDE DEF v
    <3>2. q.header_state = v.header_state /\ q.flags = v.flags
      BY <1>9, <2>3 DEF Like, v
    <3>3. QED
      BY <1>10, <2>1, <3>1, <3>2, Zenon DEF StartsAs
  <2>4. QED
    BY <2>2, <2>3
<1>12. q.state # "s_header_field"
  BY <1>8 DEF Got
<1>13. Quiet(q, st2, m, i, d + 1)
  <2>1. CASE i < Count(m)
    <3>1. p.header_state # "h_content_length"
      BY <1>1, <2>1, Zenon DEF RunValue
    <3>2. "CONTENTLENGTH" \in q.flags => "CONTENTLENGTH" \in p.flags
      BY <1>11, <3>1
    <3>3. IF q.state = "s_header_field" THEN Spelled(q, st2["header_field"])
          ELSE q.header_state \notin Chunking /\ (i < Count(m) => q.header_state # "h_content_length")
      BY <1>11, <1>12, <3>1
    <3>4. QED
      BY <1>2, <1>5, <1>11, <3>2, <3>3, QuietOn, Zenon
  <2>2. CASE ~(i < Count(m))
    <3>1. i = Count(m)
      BY <1>2, <1>3, <2>2
    <3>2. ~(d + 1 <= l + 2)
      BY <1>5, <3>1
    <3>3. QED
      BY <1>11, <1>12, <2>2, <3>2, Zenon DEF Quiet, l
  <2>3. QED
    BY <2>1, <2>2
<1>14. {"http_errno", "exited", "method"} \cap D = {}
  BY DEF D
<1>15. QED
  BY <1>8, <1>13, <1>14, RunServes, Zenon DEF q, ch


(* A byte of a line of a header is read. *)
LEMMA RunsLine ==
    ASSUME NEW m, NEW c, NEW p, NEW st, NEW f, NEW w, NEW r, NEW i, NEW d, Runs(m, c, p, st, f, w, r, i, d)
    PROVE  Eaten(Read(p, w[r + 1]), StringsAfter(p, Read(p, w[r + 1]), st, w[r + 1]), m, c, r + 1)
<1> DEFINE nl == Len(Name(m, c, i))
           vl == Len(Value(m, c, i))
           goal == Eaten(Read(p, w[r + 1]), StringsAfter(p, Read(p, w[r + 1]), st, w[r + 1]), m, c, r + 1)
<1>1. nl \in Nat \ {0} /\ vl \in Nat /\ d \in 0 .. nl + vl + 2
  <2>1. RunByte(p, st, w[r + 1], Name(m, c, i), Value(m, c, i), d)
    BY RunByteIs, Zenon
  <2>2. QED
    BY <2>1, Zenon DEF RunByte
<1> HIDE DEF nl, vl, goal
<1>2. Placed(nl, vl, d)
  <2> DEFINE n == nl + vl + 3
  <2>1. nl > 0 /\ n = nl + vl + 3 /\ d \in 0 .. n - 1
    BY <1>1
  <2> HIDE DEF n
  <2>2. QED
    BY <1>1, <2>1, LinePlace
<1>3. CASE d = 0
  BY <1>3, RunsFirst, Zenon DEF At, goal
<1>4. CASE d \in 1 .. nl - 1
  BY <1>4, RunsName, Zenon DEF nl, goal
<1>5. CASE d = nl
  BY <1>5, RunsColon, Zenon DEF At, nl, goal
<1>6. CASE d = nl + 1
  BY <1>6, RunsBlank, Zenon DEF At, nl, goal
<1>7. CASE d = nl + 2
  <2>1. vl > 0 \/ vl = 0
    BY <1>1
  <2>2. CASE vl > 0
    BY <1>7, <2>2, RunsValueFirst, Zenon DEF At, nl, vl, goal
  <2>3. CASE vl = 0
    BY <1>7, <2>3, RunsBlank, Zenon DEF At, nl, vl, goal
  <2>4. QED
    BY <2>1, <2>2, <2>3
<1>8. ASSUME NEW k \in 1 .. vl - 1, d = nl + 2 + k
      PROVE  goal
  BY <1>8, RunsValue, Zenon DEF At, nl, vl, goal
<1>9. CASE vl > 0 /\ d = nl + 2 + vl
  <2>1. d = nl + vl + 2
    BY <1>1, <1>9
  <2>2. QED
    BY <1>9, <2>1, RunsValueEnd, Zenon DEF At, nl, vl, goal
<1>10. QED
  BY <1>2, <1>3, <1>4, <1>5, <1>6, <1>7, <1>8, <1>9, Zenon DEF Placed, goal

(* A byte after the lines leaves what has to be known. *)
Leaves(p, q) ==
    /\ ~Failed(q) /\ ~q.exited /\ q \in Parser /\ q.state # "s_header_field"
    /\ "CHUNKED" \notin q.flags /\ q.method = p.method /\ q.header_state = p.header_state

LEMMA TailServes ==
    ASSUME NEW m, NEW c, NEW p, NEW st, NEW f, NEW w, NEW r, Eats(m, c, p, st, f, w, r),
           p.state # "s_header_field", NEW e, e = Start(m, c, Count(m) + 1), r >= e,
           NEW q, Leaves(p, q), Load(q) <= Load(p) + 1, r < e + 2 \/ Load(q) <= Load(p), NEW st2
    PROVE  Eaten(q, st2, m, c, r + 1)
<1> DEFINE last == Start(m, c, Count(m))
           l == Length(LengthName)
           n == Len(StartLine(m))
<1>0. last = Start(m, c, Count(m))
  OBVIOUS
<1>1. /\ r \in Nat /\ last \in Nat /\ e \in Nat /\ last <= e /\ n \in Nat /\ n <= last
      /\ Load(p) \in Int /\ Load(p) <= r /\ Load(p) <= e + 2
  BY PlacesAre, Zenon
<1>2. Sendable(m) /\ c \in 0 .. MaxLength /\ p.type = m.type /\ Serving(p, st, m, c, r)
  BY Zenon DEF Eats, Reads
<1>3. Load(q) \in Int
  BY LoadIs, Zenon DEF Leaves
<1>4. e >= last + l + 3 /\ l \in Nat
  <2> DEFINE k == Count(m)
             vl == Len(Value(m, c, k))
             next == Start(m, c, k + 1)
  <2>1. k \in Nat /\ ~Skipped(m, k)
    BY <1>2, HeadersAre, Zenon
  <2>2. k \in 1 .. k
    <3>1. k = Len(m.headers) + 1 /\ Len(m.headers) \in Nat
      BY <1>2, HeadersAre, Zenon DEF Count
    <3> HIDE DEF k
    <3>2. QED
      BY <3>1
  <2>3. Len(Name(m, c, k)) = l
    BY <1>2, LengthLine, Zenon
  <2>4. LineLayout(Append(Bytes(m, c), NUL), last, Len(HeaderLines(m, c)[k]), next, Name(m, c, k), Value(m, c, k))
    BY <1>2, <2>1, <2>2, LineLaid, Zenon
  <2>5. l \in Nat /\ vl \in Nat /\ next = last + l + vl + 3
    BY <2>3, <2>4, Zenon DEF LineLayout
  <2> HIDE DEF k, vl, next, last, l
  <2>6. e = next
    BY DEF next, k
  <2>7. QED
    BY <1>1, <2>5, <2>6
<1>5. OnPath(q, m, r + 1)
  <2>1. ASSUME m.type = "HTTP_REQUEST"
        PROVE  r + 1 > Len(m.method) + 1 + Len(m.path)
    <3> DEFINE ml == Len(m.method)
               pl == Len(m.path)
    <3>1. n = ml + pl + 11 /\ ml \in 1 .. 16 /\ pl \in Nat \ {0}
      BY <1>2, <2>1, RequestBytes, Zenon DEF n
    <3> HIDE DEF ml, pl, n, last
    <3>2. r + 1 > ml + 1 + pl
      BY <1>1, <3>1
    <3>3. QED
      BY <3>2 DEF ml, pl
  <2>2. r + 1 \in Nat
    BY <1>1
  <2>3. QED
    BY <1>2, <2>1, <2>2, OffPath, Zenon
<1>6. Served(p, st, m, last, e, r)
  BY <1>0, <1>2, ServingIs, Zenon
<1>7. /\ p.header_state \notin Chunking
      /\ m.type = "HTTP_RESPONSE" => p.method = "DELETE"
  BY <1>6, Zenon DEF Served
<1> HIDE DEF last, l, n
<1>8. Load(q) <= r + 1 /\ Load(q) <= e + 2
  BY <1>1, <1>3
<1>9. ~(r + 1 <= last + l + 2) /\ ~(r + 1 < last)
  BY <1>1, <1>4
<1>10. Served(q, st2, m, last, e, r + 1)
  BY <1>5, <1>7, <1>8, <1>9, Zenon DEF Served, Leaves, l
<1>11. Serving(q, st2, m, c, r + 1)
  BY <1>10, ServingIs, Zenon DEF last
<1>12. QED
  BY <1>11, Zenon DEF Eaten, Leaves


(* Outside a name a parser is in no header of chunks, and knows of none. *)
LEMMA AfterKnown ==
    ASSUME NEW m, NEW c, NEW p, NEW st, NEW f, NEW w, NEW r, Eats(m, c, p, st, f, w, r),
           p.state # "s_header_field"
    PROVE  /\ Sound(p) /\ ~Stopped(p) /\ p \in Parser /\ p.header_state \notin Chunking
           /\ "CHUNKED" \notin p.flags /\ (m.type = "HTTP_RESPONSE" => p.method = "DELETE")
           /\ Reads(m, c, p, f, w)
<1>1. Sound(p) /\ ~Stopped(p) /\ Serving(p, st, m, c, r) /\ Reads(m, c, p, f, w)
  BY Zenon DEF Eats, Reads
<1>2. p \in Parser
  BY <1>1, Zenon DEF Sound
<1>3. Served(p, st, m, Start(m, c, Count(m)), Start(m, c, Count(m) + 1), r)
  BY <1>1, ServingIs, Zenon
<1>4. QED
  BY <1>1, <1>2, <1>3, Zenon DEF Served

(* The length that is sent counts the NUL and a byte more. *)
LEMMA LengthSent ==
    ASSUME NEW m, NEW c, NEW p, NEW st, NEW f, NEW w, NEW r, Eats(m, c, p, st, f, w, r)
    PROVE  c = Len(m.body) + 2 /\ Len(m.body) \in Nat
<1>1. Sendable(m) /\ c = Len(m.body) + 2
  BY Zenon DEF Eats, Reads, SerializeExtra
<1>2. m.body \in Seq(STRING)
  BY <1>1, SendableParts, Zenon
<1>3. QED
  BY <1>1, <1>2

(* The blank line begins. *)
LEMMA ServesClose ==
    ASSUME NEW m, NEW c, NEW p, NEW st, NEW f, NEW w, NEW r, Eats(m, c, p, st, f, w, r),
           At(r, Start(m, c, Count(m) + 1)), Closing(p, st, c, "s_header_value_lws"), NEW st2
    PROVE  Eaten(Read(p, w[r + 1]), st2, m, c, r + 1)
<1> DEFINE ch == w[r + 1]
           q == Read(p, ch)
           e == Start(m, c, Count(m) + 1)
<1>0. e = Start(m, c, Count(m) + 1) /\ r = e
  BY DEF At
<1>1. p.state = "s_header_value_lws" /\ p.marks = {} /\ p.state # "s_header_field" /\ p.state \in LineStates
  BY DEF Closing, LineStates
<1>2. /\ Sound(p) /\ ~Stopped(p) /\ p \in Parser /\ p.header_state \notin Chunking
      /\ "CHUNKED" \notin p.flags /\ Reads(m, c, p, f, w)
  BY <1>1, AfterKnown, Zenon
<1>3. e \in Nat /\ w[e + 1] = CR
  <2>1. TailLaid(w, e, m.body)
    BY <1>2, TailBytes, Zenon
  <2>2. QED
    BY <2>1, Zenon DEF TailLaid
<1>4. ch = CR
  BY <1>0, <1>3
<1> HIDE DEF e, ch, q
<1>5. r >= e /\ r < e + 2
  BY <1>0, <1>3
<1>6. ~Crowded(p)
  BY <1>0, <1>5, Uncrowded, Zenon
<1>7. ~(Failed(q) /\ Crowded(p))
  BY <1>6
<1>8. Got(p, q, {"flags"}, "s_headers_almost_done", {}, {}, LateCalls(p)) /\ q.flags = LineFlags(p)
  BY <1>1, <1>2, <1>4, <1>7, ReadHeadersEnd DEF q
<1>9. "CHUNKED" \notin q.flags
  BY <1>2, <1>8, LineFlagsQuiet
<1>10. /\ q \in Parser /\ Load(q) <= Load(p) + 1 /\ q.state = "s_headers_almost_done"
       /\ q.http_errno = p.http_errno /\ q.exited = p.exited /\ q.method = p.method
       /\ q.header_state = p.header_state
  BY <1>8 DEF Got, Like
<1>11. Leaves(p, q)
  <2>1. ~Failed(q) /\ ~q.exited
    BY <1>2, <1>10 DEF Stopped, Failed
  <2>2. QED
    BY <1>9, <1>10, <2>1 DEF Leaves
<1>12. QED
  BY <1>0, <1>1, <1>5, <1>10, <1>11, TailServes, Zenon DEF q, ch

(* The blank line ends, and the body is not empty: it has the NUL and a byte more. *)
LEMMA ServesDone ==
    ASSUME NEW m, NEW c, NEW p, NEW st, NEW f, NEW w, NEW r, Eats(m, c, p, st, f, w, r), Begun(p, f, m),
           At(r, Start(m, c, Count(m) + 1) + 1), Closing(p, st, c, "s_headers_almost_done"), NEW st2
    PROVE  Eaten(Read(p, w[r + 1]), st2, m, c, r + 1)
<1> DEFINE ch == w[r + 1]
           q == Read(p, ch)
           e == Start(m, c, Count(m) + 1)
<1>0. e = Start(m, c, Count(m) + 1) /\ r = e + 1
  BY DEF At
<1>1. /\ p.state = "s_headers_almost_done" /\ p.marks = {} /\ p.state # "s_header_field"
      /\ p.content_length = c /\ "CONTENTLENGTH" \in p.flags
  BY DEF Closing
<1>2. /\ Sound(p) /\ ~Stopped(p) /\ p \in Parser /\ p.header_state \notin Chunking
      /\ "CHUNKED" \notin p.flags /\ Reads(m, c, p, f, w)
      /\ (m.type = "HTTP_RESPONSE" => p.method = "DELETE")
  BY <1>1, AfterKnown, Zenon
<1>3. e \in Nat /\ w[e + 2] = LF
  <2>1. TailLaid(w, e, m.body)
    BY <1>2, TailBytes, Zenon
  <2>2. QED
    BY <2>1, Zenon DEF TailLaid
<1>4. ch = LF
  <2>1. r + 1 = e + 2
    <3> HIDE DEF e
    <3>1. QED
      BY <1>0, <1>3
  <2>2. QED
    BY <1>3, <2>1, Zenon DEF ch
<1>5. p.method # "CONNECT"
  <2>1. m.type \in {"HTTP_REQUEST", "HTTP_RESPONSE"} /\ m.method # "CONNECT"
    BY <1>2, SendableParts, Zenon DEF Reads, Eats, FramesItself
  <2>2. m.type = "HTTP_REQUEST" => p.method = m.method
    BY Zenon DEF Begun
  <2>3. QED
    BY <1>2, <2>1, <2>2
<1>6. c > 0 /\ c # 0
  <2>1. c = Len(m.body) + 2 /\ Len(m.body) \in Nat
    BY LengthSent, Zenon
  <2>2. QED
    BY <2>1
<1>7. "TRAILING" \notin p.flags
  BY Zenon DEF Begun
<1> HIDE DEF e, ch, q
<1>8. r >= e /\ r < e + 2
  BY <1>0, <1>3
<1>9. ~Crowded(p)
  BY <1>0, <1>8, Uncrowded, Zenon
<1>10. Got(p, q, {"upgrade"}, "s_body_identity", {}, {}, {"headers_complete"})
  <2>1. \/ Failed(q) /\ (Crowded(p) \/ "CHUNKED" \in p.flags)
        \/ /\ ~Failed(q) /\ q.exited /\ q.upgrade /\ q.state \in Idle
           /\ (p.method = "CONNECT" \/ p.content_length = 0)
           /\ Like(p, q, {"state", "upgrade", "calls", "nread", "exited", "data", "marks"})
        \/ /\ p.content_length > 0
           /\ Got(p, q, {"upgrade"}, "s_body_identity", {}, {}, {"headers_complete"})
        \/ /\ p.content_length = 0 /\ q.state \in Idle
           /\ Got(p, q, {"upgrade"}, q.state, {}, {}, {"headers_complete", "message_complete"})
    BY <1>1, <1>2, <1>4, <1>7, ReadHeadersDone, Zenon DEF q
  <2>2. QED
    BY <1>1, <1>2, <1>5, <1>6, <1>9, <2>1, Zenon
<1>11. /\ q \in Parser /\ Load(q) <= Load(p) + 1 /\ q.state = "s_body_identity"
       /\ q.http_errno = p.http_errno /\ q.exited = p.exited /\ q.method = p.method
       /\ q.header_state = p.header_state /\ q.flags = p.flags
  BY <1>10 DEF Got, Like
<1>12. Leaves(p, q)
  <2>1. ~Failed(q) /\ ~q.exited
    BY <1>2, <1>11 DEF Stopped, Failed
  <2>2. QED
    BY <1>2, <1>11, <2>1 DEF Leaves
<1>13. QED
  BY <1>0, <1>1, <1>8, <1>11, <1>12, TailServes, Zenon DEF q, ch


(* A byte of the body neither fails nor ends it: its length is greater. *)
LEMMA BodySafe ==
    ASSUME NEW p, Sound(p), ~Stopped(p), p.state = "s_body_identity", p.content_length > 1,
           "CHUNKED" \notin p.flags, NEW ch
    PROVE  Leaves(p, Read(p, ch)) /\ Load(Read(p, ch)) = Load(p) /\ Read(p, ch).state = "s_body_identity"
<1> DEFINE q == Read(p, ch)
<1>1. ~Failed(q) /\ Load(q) = Load(p)
  BY ReadBodySafe
<1>2. BodyGoes(p, q)
  BY <1>1, BodyGoesOn
<1> HIDE DEF q
<1>3. Got(p, q, {"content_length"}, "s_body_identity", {"body"}, {"body"}, {})
  BY <1>2, Zenon DEF BodyGoes
<1>4. /\ q \in Parser /\ q.state = "s_body_identity" /\ q.exited = p.exited /\ q.method = p.method
      /\ q.header_state = p.header_state /\ q.flags = p.flags
  BY <1>3 DEF Got, Like
<1>5. Leaves(p, q)
  BY <1>1, <1>4 DEF Leaves, Stopped
<1>6. QED
  BY <1>1, <1>4, <1>5 DEF q

(* A byte of the body has been read. *)
Bodied(p, q) == Leaves(p, q) /\ Load(q) = Load(p) /\ q.state = "s_body_identity"

(* A byte of the body. *)
LEMMA ServesBody ==
    ASSUME NEW m, NEW c, NEW p, NEW st, NEW f, NEW w, NEW r, Eats(m, c, p, st, f, w, r),
           NEW j \in 0 .. Len(m.body), At(r, Start(m, c, Count(m) + 1) + 2 + j), AtBody(p, st, m, c, j), NEW st2
    PROVE  Eaten(Read(p, w[r + 1]), st2, m, c, r + 1) /\ Bodied(p, Read(p, w[r + 1]))
<1> DEFINE ch == w[r + 1]
           q == Read(p, ch)
           e == Start(m, c, Count(m) + 1)
           bl == Len(m.body)
<1>0. e = Start(m, c, Count(m) + 1) /\ r = e + 2 + j
  BY DEF At
<1>1. p.state = "s_body_identity" /\ p.state # "s_header_field" /\ p.content_length = c - j
  BY DEF AtBody
<1>2. /\ Sound(p) /\ ~Stopped(p) /\ p \in Parser /\ p.header_state \notin Chunking
      /\ "CHUNKED" \notin p.flags /\ Reads(m, c, p, f, w)
  BY <1>1, AfterKnown, Zenon
<1>3. c = bl + 2 /\ bl \in Nat
  BY LengthSent, Zenon
<1>4. e \in Nat /\ Load(p) \in Int
  BY PlacesAre, Zenon
<1>5. j \in 0 .. bl
  OBVIOUS
<1> HIDE DEF e, ch, q, bl
<1>6. p.content_length > 1
  BY <1>1, <1>3, <1>5
<1>7. Leaves(p, q) /\ Load(q) = Load(p) /\ q.state = "s_body_identity"
  BY <1>1, <1>2, <1>6, BodySafe, Zenon DEF q
<1>8. r >= e /\ Load(q) <= Load(p) + 1 /\ Load(q) <= Load(p)
  BY <1>0, <1>4, <1>5, <1>7
<1>9. Eaten(q, st2, m, c, r + 1)
  BY <1>0, <1>1, <1>7, <1>8, TailServes, Zenon
<1>10. QED
  BY <1>7, <1>9, Zenon DEF q, ch, Bodied


(* A byte after the lines that is not the last. *)
LEMMA ServesAfter ==
    ASSUME NEW m, NEW c, NEW p, NEW st, NEW f, NEW w, NEW r, Eats(m, c, p, st, f, w, r),
           p.state \notin Idle => Begun(p, f, m), r + 1 < Len(w), AfterLines(p, st, f, m, c, r), NEW st2
    PROVE  Eaten(Read(p, w[r + 1]), st2, m, c, r + 1)
<1> DEFINE e == Start(m, c, Count(m) + 1)
           bl == Len(m.body)
           n == Len(w)
           goal == Eaten(Read(p, w[r + 1]), st2, m, c, r + 1)
<1>1. c = bl + 2 /\ bl \in Nat
  BY LengthSent, Zenon
<1>2. Reads(m, c, p, f, w) /\ r \in Nat
  BY Zenon DEF Eats
<1>3. e \in Nat /\ n = e + 3 + bl
  <2>1. TailLaid(w, e, m.body)
    BY <1>2, TailBytes, Zenon
  <2>2. QED
    BY <2>1, Zenon DEF TailLaid
<1>4. r + 1 < n
  OBVIOUS
<1> HIDE DEF e, bl, n, goal
<1>5. c \in Nat
  BY <1>1
<1>6. AfterAt(p, st, f, m, c, r, e)
  BY <1>2, <1>3, <1>5, AfterIs DEF e
<1>7. CASE r = e /\ Closing(p, st, c, "s_header_value_lws")
  BY <1>7, ServesClose, Zenon DEF At, e, goal
<1>8. CASE r = e + 1 /\ Closing(p, st, c, "s_headers_almost_done")
  <2>1. Begun(p, f, m)
    BY <1>8 DEF Closing, Idle
  <2>2. QED
    BY <1>8, <2>1, ServesDone, Zenon DEF At, e, goal
<1>9. CASE \E j \in 0 .. c - 1 : At(r, e + 2 + j) /\ AtBody(p, st, m, c, j)
  <2>1. PICK j \in 0 .. c - 1 : At(r, e + 2 + j) /\ AtBody(p, st, m, c, j)
    BY <1>9
  <2>2. j \in 0 .. bl
    BY <1>1, <1>3, <1>4, <2>1 DEF At
  <2>3. QED
    BY <2>1, <2>2, ServesBody, Zenon DEF e, bl, goal
<1>10. CASE At(r, e + 2 + c) /\ p.state \in Idle
  BY <1>1, <1>2, <1>3, <1>4, <1>10 DEF At
<1>11. QED
  BY <1>6, <1>7, <1>8, <1>9, <1>10, Zenon DEF AfterAt, goal

(* No byte of a message but the last fails. *)
LEMMA ServesOn ==
    ASSUME NEW m, NEW c, NEW p, NEW st, NEW f, NEW w, NEW r, Eats(m, c, p, st, f, w, r),
           r + 1 < Len(w), Reading(p, st, f, m, c, r)
    PROVE  Eaten(Read(p, w[r + 1]), StringsAfter(p, Read(p, w[r + 1]), st, w[r + 1]), m, c, r + 1)
<1> DEFINE st2 == StringsAfter(p, Read(p, w[r + 1]), st, w[r + 1])
           goal == Eaten(Read(p, w[r + 1]), st2, m, c, r + 1)
           onPath == r < Len(StartLine(m))
           onLine == \E i \in 1 .. Count(m) :
               /\ ~Skipped(m, i)
               /\ r - Start(m, c, i) \in 0 .. Len(HeaderLines(m, c)[i]) - 1
               /\ OnLine(p, st, f, m, c, i, r - Start(m, c, i))
           after == (p.state \notin Idle => Begun(p, f, m)) /\ AfterLines(p, st, f, m, c, r)
<1>1. Sendable(m) /\ c \in 0 .. MaxLength /\ r \in Nat
  BY Zenon DEF Eats, Reads
<1> HIDE DEF st2, goal
<1>2. ASSUME r < Len(StartLine(m)), m.type = "HTTP_REQUEST", OnRequestLine(p, st, f, m, r)
      PROVE  goal
  BY <1>2, ServesRequestLine, Zenon DEF goal
<1>3. ASSUME r < Len(StartLine(m)), m.type = "HTTP_RESPONSE", OnStatusLine(p, st, f, m, r)
      PROVE  goal
  BY <1>3, ServesStatusLine, Zenon DEF goal
<1>4. ASSUME onLine PROVE goal
  <2>1. PICK i \in 1 .. Count(m) :
                 /\ ~Skipped(m, i)
                 /\ r - Start(m, c, i) \in 0 .. Len(HeaderLines(m, c)[i]) - 1
                 /\ OnLine(p, st, f, m, c, i, r - Start(m, c, i))
    BY <1>4
  <2> DEFINE d == r - Start(m, c, i)
             s == Start(m, c, i)
  <2>2. s \in Nat
    <3>1. i \in 1 .. Count(m) + 1
      BY <1>1, HeadersAre
    <3>2. QED
      BY <1>1, <3>1, StartIs
  <2>3. d = r - s
    OBVIOUS
  <2>4. d \in 0 .. Len(HeaderLines(m, c)[i]) - 1 /\ ~Skipped(m, i) /\ OnLine(p, st, f, m, c, i, d)
    BY <2>1, Zenon
  <2> HIDE DEF d, s
  <2>5. At(r, s + d)
    BY <1>1, <2>2, <2>3 DEF At
  <2>6. Runs(m, c, p, st, f, w, r, i, d)
    BY <2>4, <2>5, Zenon DEF Runs, s
  <2>7. QED
    BY <2>6, RunsLine, Zenon DEF goal, st2
<1>5. ASSUME after PROVE goal
  BY <1>5, ServesAfter, Zenon DEF goal
<1>6. m.type = "HTTP_REQUEST" \/ m.type = "HTTP_RESPONSE"
  BY <1>1 DEF Sendable
<1>7. ~(m.type = "HTTP_REQUEST") => m.type = "HTTP_RESPONSE"
  BY <1>6, Zenon
<1>8. \/ onPath /\ (IF m.type = "HTTP_REQUEST" THEN OnRequestLine(p, st, f, m, r) ELSE OnStatusLine(p, st, f, m, r))
      \/ onLine \/ after
  BY Zenon DEF Reading
<1>9. ASSUME onPath, IF m.type = "HTTP_REQUEST" THEN OnRequestLine(p, st, f, m, r) ELSE OnStatusLine(p, st, f, m, r)
      PROVE  goal
  <2>1. CASE m.type = "HTTP_REQUEST"
    BY <1>2, <1>9, <2>1, Zenon
  <2>2. CASE m.type # "HTTP_REQUEST"
    BY <1>3, <1>7, <1>9, <2>2, Zenon
  <2>3. QED
    BY <2>1, <2>2
<1> HIDE DEF onLine, after, onPath
<1>10. goal
  BY <1>4, <1>5, <1>8, <1>9, Zenon
<1>11. QED
  BY <1>10, Zenon DEF goal, st2

(* Nor the last: the NUL is read as a byte of the body that does not end it.   *)
LEMMA ServesLast ==
    ASSUME NEW m, NEW c, NEW p, NEW st, NEW f, NEW w, NEW r, Eats(m, c, p, st, f, w, r),
           At(r + 1, Len(w)), Reading(p, st, f, m, c, r)
    PROVE  /\ ~Failed(BufferEnds(Read(p, w[r + 1]))) /\ ~BufferEnds(Read(p, w[r + 1])).exited
           /\ ~Stopped(Read(p, w[r + 1]))
<1> DEFINE e == Start(m, c, Count(m) + 1)
           bl == Len(m.body)
           n == Len(w)
           ch == w[r + 1]
           q == Read(p, ch)
           sl == Len(StartLine(m))
<1>1. c = bl + 2 /\ bl \in Nat
  BY LengthSent, Zenon
<1>2. Reads(m, c, p, f, w) /\ r \in Nat /\ Sendable(m) /\ c \in 0 .. MaxLength /\ Sound(p) /\ ~Stopped(p)
  BY Zenon DEF Eats, Reads
<1>3. e \in Nat /\ n = e + 3 + bl
  <2>1. TailLaid(w, e, m.body)
    BY <1>2, TailBytes, Zenon
  <2>2. QED
    BY <2>1, Zenon DEF TailLaid
<1>4. r + 1 = n
  BY Zenon DEF At
<1>5. /\ sl \in Nat /\ sl <= e /\ e + 2 <= HTTP_MAX_HEADER_SIZE /\ HTTP_MAX_HEADER_SIZE \in Nat
      /\ Load(p) \in Int /\ Load(p) <= e + 2
  <2> DEFINE last == Start(m, c, Count(m))
  <2>1. /\ last \in Nat /\ e \in Nat /\ last <= e /\ sl \in Nat /\ sl <= last
        /\ e + 2 <= HTTP_MAX_HEADER_SIZE /\ HTTP_MAX_HEADER_SIZE \in Nat
        /\ Load(p) \in Int /\ Load(p) <= e + 2
    BY PlacesAre, Zenon
  <2> HIDE DEF last, e, sl
  <2>2. QED
    BY <2>1
<1> HIDE DEF e, bl, n, ch, q, sl
<1>6. r = e + 2 + bl /\ ~(r < sl) /\ c \in Nat
  <2>1. r \in Nat
    BY <1>2
  <2>2. r = e + 2 + bl
    BY <1>3, <1>4, <1>1, <2>1
  <2>3. QED
    BY <1>1, <1>3, <1>5, <2>2
<1>7. ASSUME NEW i \in 1 .. Count(m), r - Start(m, c, i) \in 0 .. Len(HeaderLines(m, c)[i]) - 1
      PROVE  FALSE
  <2> DEFINE a == Start(m, c, i)
             k == Len(HeaderLines(m, c)[i])
  <2>1. a + k <= e
    BY <1>2, LinesEnd DEF e
  <2>2. a \in Nat
    <3>1. i \in 1 .. Count(m) + 1
      BY <1>2, HeadersAre
    <3>2. QED
      BY <1>2, <3>1, StartIs
  <2>3. k \in Nat
    <3>1. HeaderLines(m, c)[i] \in Seq(Letters(m))
      <4>1. HeaderLines(m, c) \in Seq(Seq(Letters(m))) /\ Len(HeaderLines(m, c)) = Count(m)
        BY <1>2, LinesAre, Zenon
      <4>2. QED
        BY <4>1
    <3>2. QED
      BY <3>1
  <2>4. r - a \in 0 .. k - 1
    BY <1>7, Zenon
  <2> HIDE DEF a, k
  <2>5. QED
    BY <1>1, <1>3, <1>6, <2>1, <2>2, <2>3, <2>4
<1>8. AfterLines(p, st, f, m, c, r)
  BY <1>6, <1>7, Zenon DEF Reading, sl
<1>9. AfterAt(p, st, f, m, c, r, e)
  BY <1>2, <1>3, <1>6, <1>8, AfterIs DEF e
<1>10. At(r, e + 2 + bl) /\ AtBody(p, st, m, c, bl) /\ bl \in 0 .. bl
  <2>1. ~(r = e) /\ ~(r = e + 1) /\ ~At(r, e + 2 + c)
    BY <1>1, <1>3, <1>6 DEF At
  <2>2. PICK j \in 0 .. c - 1 : At(r, e + 2 + j) /\ AtBody(p, st, m, c, j)
    BY <1>9, <2>1, Zenon DEF AfterAt
  <2>3. j = bl
    BY <1>1, <1>3, <1>6, <2>2 DEF At
  <2>4. QED
    BY <1>1, <2>2, <2>3
<1>11. Leaves(p, q) /\ Load(q) = Load(p) /\ q.state = "s_body_identity"
  <2>1. PICK j \in 0 .. bl : At(r, e + 2 + j) /\ AtBody(p, st, m, c, j)
    BY <1>10, Zenon
  <2>2. Eaten(Read(p, w[r + 1]), st, m, c, r + 1) /\ Bodied(p, Read(p, w[r + 1]))
    <3>1. j \in 0 .. Len(m.body) /\ At(r, Start(m, c, Count(m) + 1) + 2 + j)
      BY <2>1, Zenon DEF e, bl
    <3>2. QED
      BY <2>1, <3>1, ServesBody, Zenon
  <2>3. QED
    BY <2>2, Zenon DEF q, ch, Bodied
<1>12. q \in Parser /\ ~Failed(q) /\ ~q.exited
  BY <1>11, Zenon DEF Leaves
<1>13. ~Stopped(q)
  BY <1>12, Zenon DEF Stopped
<1>14. q.passed = 0
  <2>1. Sound(q)
    BY <1>2, ReadStep, Zenon DEF Step, q
  <2>2. q.state \notin Loops
    BY <1>11 DEF Loops
  <2>3. QED
    BY <1>13, <2>1, <2>2, Outside, Zenon
<1>15. Load(q) <= HTTP_MAX_HEADER_SIZE
  BY <1>3, <1>5, <1>11
<1>16. ~Failed(BufferEnds(q)) /\ ~BufferEnds(q).exited
  BY <1>12, <1>14, <1>15, BufferSafe, Zenon
<1>17. QED
  BY <1>13, <1>16, Zenon DEF q, ch

(* What the parser of requests fails on at the first letters, it fails on as  *)
(* a request.                                                                 *)
LEMMA ReadTyped ==
    ASSUME NEW p, Sound(p), ~Stopped(p), p.state \in {"s_start_req", "s_req_method"}, NEW ch
    PROVE  Read(p, ch).type = p.type
<1> DEFINE k == [p EXCEPT !.calls = {}]
           c == Counted(k)
           t == Transition(c, ch)
<1>1. p \in Parser /\ ~Failed(p)
  BY DEF Sound, Stopped
<1>2. k \in Parser /\ k.type = p.type /\ k.state = p.state /\ ~Failed(k) /\ Sound(k) /\ k.calls = {}
  <2>1. k \in Parser
    BY <1>1, Values, Put
  <2>2. Like(p, k, {"calls", "exited"}) /\ k.calls = {} /\ k.state = p.state
    BY <1>1, <2>1 DEF Like, Parser
  <2> HIDE DEF k
  <2>3. Sound(k)
    BY <1>1, <2>2, LikeSound
  <2>4. QED
    BY <1>1, <2>1, <2>2, <2>3 DEF Like, Failed
<1> HIDE DEF k
<1>3. c \in Parser /\ c.type = p.type /\ c.state = p.state /\ c.calls = {} /\ Sound(c)
  <2>1. Like(k, c, {"nread", "http_errno"}) /\ Sound(c)
    BY <1>2, CountedSound
  <2>2. QED
    BY <1>2, <2>1 DEF Like
<1> HIDE DEF c
<1>4. t.type = p.type
  <2>1. CASE Moved(c.state, ch) # {}
    BY <1>3, <2>1 DEF Transition, Go, Parser
  <2>2. CASE Moved(c.state, ch) = {} /\ p.state = "s_start_req"
    <3>1. t = StartRequest(c, ch)
      BY <1>3, <2>2, NumberStatesAre DEF Transition, Handled, UrlStates, UrlEnds
    <3>2. NewHeaders(c) \in Parser /\ NewHeaders(c).type = c.type
      BY <1>3, NewHeadersIs DEF Like
    <3> DEFINE n == NewHeaders(c)
    <3> HIDE DEF n
    <3>3. n \in Parser /\ n.type = p.type
      BY <1>3, <3>2 DEF n
    <3>4. StartRequest(c, ch).type = n.type
      BY <3>3 DEF StartRequest, n, Fail, Go, Parser
    <3>5. QED
      BY <3>1, <3>3, <3>4
  <2>3. CASE Moved(c.state, ch) = {} /\ p.state = "s_req_method"
    <3>1. t = Method(c, ch)
      BY <1>3, <2>3, HandlerOf
    <3>2. Method(c, ch).type = c.type
      BY <1>3 DEF Method, Fail, Go, Parser
    <3>3. QED
      BY <1>3, <3>1, <3>2
  <2>4. QED
    BY <2>1, <2>2, <2>3
<1>5. ASSUME ~Failed(c)
      PROVE  Attributed(p, t).type = t.type
  <2>1. Step(c, t)
    BY <1>3, <1>5, TransitionStep
  <2>2. t \in Parser
    BY <2>1, Zenon DEF Step, Sound
  <2> HIDE DEF t
  <2>3. QED
    BY <2>2 DEF Attributed, Parser
<1>6. Read(p, ch) = IF Failed(c) THEN c ELSE Attributed(p, t)
  BY DEF Read, k, c
<1>7. QED
  BY <1>3, <1>4, <1>5, <1>6

(* A message that serialize has written and that does not frame itself. *)
Plainly(c, m) == Asked(c, m) /\ Readable(m) /\ ~FramesItself(m)

(* The parser of a message's type reads a byte, and keeps the promise. *)
LEMMA OwnPromised ==
    ASSUME NEW m, NEW c, NEW w, NEW p, NEW f, Opened(m, c, w, p, f), Plainly(c, m), NEW st,
           NEW r, NEW left, Within(w, r, left), p.type = m.type,
           NEW whole, whole # <<>>, Reached(p, st, f, m, c, whole, r), Promised(c, p, st, m, whole, r),
           NEW q, NEW st2, NEW f2, NEW t2, Turn(p, st, f, w[r + 1], left, q, st2, f2, t2)
    PROVE  Promised(c, q, st2, m, t2, r + 1)
<1> DEFINE ch == w[r + 1]
           t == Read(p, ch)
<1>1. /\ Sendable(m) /\ c \in 0 .. MaxLength /\ Len(m.body) \in 0 .. c
      /\ Sound(p) /\ ~Stopped(p) /\ Fielded(f) /\ w = Append(Bytes(m, c), NUL)
  BY Zenon DEF Opened
<1>2. r \in Nat /\ Len(w) \in Nat /\ r + 1 <= Len(w) /\ (left = 1 <=> r + 1 = Len(w))
  BY Zenon DEF Within
<1>3. /\ (Stopped(t) \/ left = 1) => q = BufferEnds(t) /\ t2 = <<>>
      /\ (~Stopped(t) /\ left # 1) => q = t /\ t2 # <<>>
  BY Zenon DEF Turn
<1>4. Failed(q) \/ st2 = StringsAfter(p, q, st, ch)
  BY Zenon DEF Turn
<1>5. Reads(m, c, p, f, w)
  BY <1>1, ZenonT(40) DEF Reads
<1>6. Reading(p, st, f, m, c, r) /\ Serving(p, st, m, c, r)
  BY Zenon DEF Reached, Promised
<1>7. Eats(m, c, p, st, f, w, r)
  BY <1>2, <1>5, <1>6, Zenon DEF Eats, Plainly, Asked
<1>8. m.type = "HTTP_REQUEST" => p.type = "HTTP_REQUEST"
  BY Zenon DEF Promised
<1> HIDE DEF ch, t
<1>9. CASE r + 1 = Len(w)
  <2>1. t2 = <<>> /\ q = BufferEnds(t)
    BY <1>2, <1>3, <1>9, Zenon
  <2>2. At(r + 1, Len(w))
    BY <1>9, Zenon DEF At
  <2>3. ~Failed(q) /\ ~q.exited
    BY <1>6, <1>7, <2>1, <2>2, ServesLast, Zenon DEF t, ch
  <2>4. Finishes(p, q, st, f, m, c, ch)
    BY <1>2, <1>5, <1>6, <1>9, <2>1, ReadingLast, Zenon DEF t, ch
  <2>5. q.type = m.type
    BY <2>3, <2>4, Zenon DEF Finishes, Ended
  <2>6. QED
    BY <1>8, <2>1, <2>3, <2>5, Zenon DEF Promised
<1>10. CASE r + 1 < Len(w)
  <2>1. Eaten(t, StringsAfter(p, t, st, ch), m, c, r + 1)
    BY <1>6, <1>7, <1>10, ServesOn, Zenon DEF t, ch
  <2>2. ~Failed(t) /\ ~t.exited /\ Serving(t, StringsAfter(p, t, st, ch), m, c, r + 1)
    BY <2>1, Zenon DEF Eaten
  <2>3. left # 1
    <3>1. r + 1 # Len(w)
      BY <1>2, <1>10
    <3>2. QED
      BY <1>2, <3>1, Zenon
  <2>4. q = t /\ t2 # <<>>
    BY <1>3, <2>2, <2>3, Zenon DEF Stopped
  <2>5. Onward(p, t, st, f, m, c, r, ch)
    BY <1>2, <1>5, <1>6, <1>10, ReadingOn, Zenon DEF t, ch
  <2>6. t.type = p.type
    BY <2>2, <2>5, Zenon DEF Onward
  <2>7. Serving(q, st2, m, c, r + 1)
    BY <1>4, <2>2, <2>4, Zenon
  <2>8. QED
    BY <1>8, <2>4, <2>6, <2>7, Zenon DEF Promised
<1>11. QED
  BY <1>2, <1>9, <1>10

(* The parser of requests reads a byte of a response, and keeps it too. *)
LEMMA OtherPromised ==
    ASSUME NEW m, NEW c, NEW w, NEW p, NEW f, Opened(m, c, w, p, f), NEW st,
           NEW r, NEW left, Within(w, r, left), p.type # m.type,
           NEW whole, whole # <<>>, Reached(p, st, f, m, c, whole, r), Promised(c, p, st, m, whole, r),
           NEW q, NEW st2, NEW f2, NEW t2, Turn(p, st, f, w[r + 1], left, q, st2, f2, t2)
    PROVE  Promised(c, q, st2, m, t2, r + 1)
<1> DEFINE ch == w[r + 1]
           t == Read(p, ch)
<1>1. /\ Sendable(m) /\ c \in 0 .. MaxLength /\ Len(m.body) \in 0 .. c
      /\ Sound(p) /\ ~Stopped(p) /\ Fielded(f) /\ w = Append(Bytes(m, c), NUL)
  BY Zenon DEF Opened
<1>2. r \in Nat /\ Len(w) \in Nat /\ r + 1 <= Len(w) /\ (left = 1 <=> r + 1 = Len(w))
  BY Zenon DEF Within
<1>3. /\ (Stopped(t) \/ left = 1) => q = BufferEnds(t) /\ t2 = <<>>
      /\ (~Stopped(t) /\ left # 1) => q = t /\ t2 # <<>>
  BY Zenon DEF Turn
<1>4. Mistaking(p, m, r) /\ (m.type = "HTTP_REQUEST" => p.type = "HTTP_REQUEST")
  BY Zenon DEF Reached, Promised
<1>5. m.type = "HTTP_RESPONSE" /\ p.type = "HTTP_REQUEST"
  <2>1. m.type \in {"HTTP_REQUEST", "HTTP_RESPONSE"}
    BY <1>1 DEF Sendable
  <2>2. p.type \in {"HTTP_REQUEST", "HTTP_RESPONSE"}
    BY <1>1 DEF Sound, Parser
  <2>3. QED
    BY <1>4, <2>1, <2>2
<1>6. t.type = "HTTP_REQUEST"
  <2>1. p.state \in {"s_start_req", "s_req_method"}
    BY <1>4, <1>5 DEF Mistaking
  <2>2. QED
    BY <1>1, <1>5, <2>1, ReadTyped, Zenon
<1> HIDE DEF ch, t
<1>7. MistakesOn(p, t, m, w, r)
  <2>1. Headed(m, w)
    BY <1>1, TextHeaded, ZenonT(40)
  <2>2. QED
    BY <1>1, <1>4, <2>1, MistakingOn, Zenon DEF t, ch
<1>8. r + 1 < Len(w) /\ (Failed(t) \/ t.exited = p.exited)
  BY <1>7, Zenon DEF MistakesOn
<1>9. left # 1
  <2>1. r + 1 # Len(w)
    BY <1>2, <1>8
  <2>2. QED
    BY <1>2, <2>1, Zenon
<1>10. Stopped(t) => BufferEnds(t) = t
  BY DEF BufferEnds
<1>11. q = t /\ (t2 = <<>> => Failed(t))
  BY <1>1, <1>3, <1>8, <1>9, <1>10, ZenonT(40) DEF Stopped
<1>12. "HTTP_REQUEST" # "HTTP_RESPONSE"
  OBVIOUS
<1>13. QED
  BY <1>5, <1>6, <1>11, <1>12, Zenon DEF Promised

-----------------------------------------------------------------------------
(* The invariant of what serialize writes. *)

(* Nothing has been read, by the first parser or by the one of the message. *)
LEMMA NothingPromised ==
    ASSUME NEW m, Sendable(m), NEW c \in 0 .. MaxLength, Len(m.body) \in 0 .. c,
           NEW type, type = "HTTP_REQUEST" \/ (type = "HTTP_RESPONSE" /\ m.type = type),
           NEW p, p = BufferBegins(NewParser(type)), NEW t, t # <<>>
    PROVE  Promised(c, p, NoStrings, m, t, 0)
<1> DEFINE o == NewParser(type)
           last == Start(m, c, Count(m))
           e == Start(m, c, Count(m) + 1)
<1>1. o \in Parser
  <2>1. Sound(o)
    BY InitSound
  <2>2. QED
    BY <2>1 DEF Sound
<1>2. /\ p.type = type /\ p.nread = 0 /\ p.passed = 0 /\ p.flags = {} /\ p.method = "DELETE"
      /\ p.header_state = "h_general" /\ p.state \in {"s_start_req", "s_start_res"}
  <2>1. /\ o.type = type /\ o.nread = 0 /\ o.passed = 0 /\ o.flags = {} /\ o.method = "DELETE"
        /\ o.header_state = "h_general" /\ o.state \in {"s_start_req", "s_start_res"}
    BY DEF NewParser
  <2>2. p = BufferBegins(o)
    OBVIOUS
  <2> HIDE DEF o
  <2>3. QED
    BY <1>1, <2>1, <2>2 DEF BufferBegins, Parser
<1>3. Load(p) = 0
  BY <1>2 DEF Load
<1>4. e \in Nat
  <2>1. Count(m) \in Nat
    BY HeadersAre
  <2>2. Count(m) + 1 \in 1 .. Count(m) + 1
    BY <2>1
  <2>3. QED
    BY <2>2, StartIs, Zenon
<1> HIDE DEF last, e
<1>5. Load(p) <= 0 /\ Load(p) <= e + 2
  BY <1>3, <1>4
<1>6. p.state # "s_header_field" /\ p.header_state \notin Chunking /\ p.header_state # "h_content_length"
  BY <1>2 DEF Chunking
<1>7. "CHUNKED" \notin p.flags /\ "CONTENTLENGTH" \notin p.flags
  BY <1>2
<1>8. OnPath(p, m, 0)
  <2>1. ASSUME m.type = "HTTP_REQUEST", NEW i \in 1 .. Len(m.path)
        PROVE  0 # Len(m.method) + 1 + i
    <3>1. m.method \in MethodNames
      BY <2>1, SendableParts, Zenon
    <3>2. Len(m.method) \in 1 .. 16
      BY <3>1, LengthAssumption
    <3>3. Len(m.method) \in Nat
      BY <3>2
    <3> DEFINE n == Len(m.method)
    <3> HIDE DEF n
    <3>4. \A k \in Nat : 0 # k + 1 + i
      OBVIOUS
    <3>5. QED
      BY <3>3, <3>4, Zenon
  <2>2. QED
    BY <2>1, Zenon DEF OnPath
<1>9. Serving(p, NoStrings, m, c, 0)
  <2>1. Served(p, NoStrings, m, last, e, 0)
    BY <1>2, <1>5, <1>6, <1>7, <1>8, Zenon DEF Served
  <2>2. QED
    BY <2>1, ServingIs, Zenon DEF last, e
<1>10. m.type \in {"HTTP_REQUEST", "HTTP_RESPONSE"}
  BY DEF Sendable
<1>11. m.type = "HTTP_REQUEST" => p.type = "HTTP_REQUEST"
  BY <1>2, <1>10
<1>12. QED
  BY <1>9, <1>11, Zenon DEF Promised

(* What there is to keep of a message that serialize has written. *)
Keeps(c, p, st, f, m, bytes, t, r) ==
    Knows(c, p, st, f, m, bytes, t, r) /\ Promised(c, p, st, m, t, r)

(* Something that is sent is as serialize writes it, and can be read. *)
LEMMA SentPlainly ==
    ASSUME NEW sent \in Sent, NEW m, m = sent[1], ~FramesItself(m), NEW c, Asked(c, m)
    PROVE  /\ Plainly(c, m) /\ Sendable(m) /\ c \in 0 .. MaxLength /\ Len(m.body) \in 0 .. c
           /\ serialize(m) = Bytes(m, c)
<1> DEFINE n == Len(m.body)
<1>1. Sendable(m) /\ Readable(m)
  BY SentAssumption, ReadableAssumption, Zenon
<1>2. n \in Nat
  <2>1. m.body \in Seq(STRING)
    BY <1>1, Zenon DEF Sendable
  <2>2. QED
    BY <2>1
<1>3. c = n + SerializeExtra /\ n + SerializeExtra <= MaxLength
  BY <1>1, Zenon DEF Asked, Readable
<1> HIDE DEF n
<1>4. c \in 0 .. MaxLength /\ n \in 0 .. c
  BY <1>2, <1>3 DEF SerializeExtra, MaxLength
<1>5. Plainly(c, m)
  BY <1>1, Zenon DEF Plainly
<1>6. serialize(m) = Bytes(m, c)
  BY Zenon DEF serialize, Asked
<1>7. QED
  BY <1>1, <1>4, <1>5, <1>6, Zenon DEF n

(* The invariant, of any variables. *)
ServesAs(p, st, f, m, bytes, t, r, out) ==
    (bytes = serialize(m) /\ ~FramesItself(m)) =>
        LET c == Len(m.body) + SerializeExtra
        IN  /\ t = Rest(bytes, r)
            /\ Reached(p, st, f, m, c, t, r)
            /\ Promised(c, p, st, m, t, r)
            /\ out \in {"none", "parsed"}

(* The parts of the invariant, for what is sent. *)
LEMMA ServePartsAre ==
    ASSUME NEW sent \in Sent, NEW m, m = sent[1], NEW bytes, NEW t, NEW p, NEW st, NEW f, NEW r, r \in Nat,
           NEW out
    PROVE  ServesAs(p, st, f, m, bytes, t, r, out)
           <=> \A c : (bytes = serialize(m) /\ ~FramesItself(m) /\ Asked(c, m)) =>
                   Keeps(c, p, st, f, m, bytes, t, r) /\ out \in {"none", "parsed"}
<1>1. ASSUME NEW c, Asked(c, m), ~FramesItself(m), bytes = serialize(m)
      PROVE  Knows(c, p, st, f, m, bytes, t, r) <=> t = Rest(bytes, r) /\ Reached(p, st, f, m, c, t, r)
  <2>1. /\ Sendable(m) /\ c \in 0 .. MaxLength /\ Len(m.body) \in 0 .. c /\ bytes = Bytes(m, c)
    BY <1>1, SentPlainly, Zenon
  <2>2. QED
    BY <2>1, Zenon DEF Knows
<1>2. ASSUME NEW c, Asked(c, m), ~FramesItself(m), bytes = serialize(m)
      PROVE  Keeps(c, p, st, f, m, bytes, t, r) <=>
                /\ t = Rest(bytes, r)
                /\ Reached(p, st, f, m, c, t, r)
                /\ Promised(c, p, st, m, t, r)
  BY <1>1, <1>2, Zenon DEF Keeps
<1>3. QED
  BY <1>2, Zenon DEF Asked, ServesAs

(* The same of the invariant, before a step and after it. *)
LEMMA ServeInvIs ==
    ASSUME CodecInv
    PROVE  ServeInv <=>
              \A c : (wire = serialize(message) /\ ~FramesItself(message) /\ Asked(c, message)) =>
                  /\ Keeps(c, parser, strings, fields, message, wire, text, Place)
                  /\ outcome \in {"none", "parsed"}
<1>1. PICK sent, c : Declared(sent, message, c) /\ Knows(c, parser, strings, fields, message, wire, text, Place)
  BY CodecInvIs, Zenon
<1>2. sent \in Sent /\ message = sent[1] /\ Place \in Nat
  BY <1>1, Zenon DEF Declared, Knows
<1>3. ServesAs(parser, strings, fields, message, wire, text, Place, outcome)
      <=> \A k : (wire = serialize(message) /\ ~FramesItself(message) /\ Asked(k, message)) =>
              /\ Keeps(k, parser, strings, fields, message, wire, text, Place)
              /\ outcome \in {"none", "parsed"}
  BY <1>2, ServePartsAre, Zenon
<1>4. ServeInv <=> ServesAs(parser, strings, fields, message, wire, text, Place, outcome)
  BY Zenon DEF ServeInv, ServesAs
<1>5. QED
  BY <1>3, <1>4, Zenon

LEMMA ServeInvNext ==
    ASSUME CodecInv'
    PROVE  ServeInv' <=>
              \A c : (wire' = serialize(message') /\ ~FramesItself(message') /\ Asked(c, message')) =>
                  /\ Keeps(c, parser', strings', fields', message', wire', text', Place')
                  /\ outcome' \in {"none", "parsed"}
<1>1. PICK sent, c : Declared(sent, message', c)
                     /\ Knows(c, parser', strings', fields', message', wire', text', Place')
  BY CodecInvNext, Zenon
<1>2. sent \in Sent /\ message' = sent[1] /\ Place' \in Nat
  BY <1>1, Zenon DEF Declared, Knows
<1>3. ServesAs(parser', strings', fields', message', wire', text', Place', outcome')
      <=> \A k : (wire' = serialize(message') /\ ~FramesItself(message') /\ Asked(k, message')) =>
              /\ Keeps(k, parser', strings', fields', message', wire', text', Place')
              /\ outcome' \in {"none", "parsed"}
  BY <1>2, ServePartsAre, Zenon
<1>4. ServeInv' <=> ServesAs(parser', strings', fields', message', wire', text', Place', outcome')
  BY Zenon DEF ServeInv, ServesAs
<1>5. QED
  BY <1>3, <1>4, Zenon

(* A byte is read, by the parser of the message or by the other one. *)
LEMMA BytePromised ==
    ASSUME NEW c, NEW p, NEW st, NEW f, NEW m, NEW bytes, NEW t, t # <<>>,
           NEW r, Keeps(c, p, st, f, m, bytes, t, r), Plainly(c, m),
           Sound(p), ~Stopped(p), Fielded(f),
           NEW q, NEW st2, NEW f2, NEW t2, Turn(p, st, f, Head(t), Len(t), q, st2, f2, t2)
    PROVE  Promised(c, q, st2, m, t2, r + 1)
<1> DEFINE w == Append(bytes, NUL)
<1>1. Knows(c, p, st, f, m, bytes, t, r) /\ Promised(c, p, st, m, t, r)
  BY Zenon DEF Keeps
<1>2. ReadsAt(c, p, st, f, m, w, t, r, q, st2, f2, t2)
  BY <1>1, ByteOpens, Zenon
<1> HIDE DEF w
<1>3. /\ Opened(m, c, w, p, f) /\ Within(w, r, Len(t))
      /\ Reached(p, st, f, m, c, t, r) /\ Turn(p, st, f, w[r + 1], Len(t), q, st2, f2, t2)
  BY <1>2, Zenon DEF ReadsAt
<1>4. CASE p.type = m.type
  BY <1>1, <1>3, <1>4, OwnPromised, Zenon
<1>5. CASE p.type # m.type
  BY <1>1, <1>3, <1>5, OtherPromised, Zenon
<1>6. QED
  BY <1>4, <1>5, Zenon

(* What has been promised at the end does not depend on the place. *)
LEMMA PromisedAnywhere ==
    ASSUME NEW c, NEW p, NEW st, NEW m, NEW t, NEW r, Promised(c, p, st, m, t, r), t = <<>>, NEW r2
    PROVE  Promised(c, p, st, m, t, r2)
BY Zenon DEF Promised

(* A byte keeps the promise. *)
LEMMA ParseByteServes ==
    ASSUME CodecInv, CodecInv', ServeInv, ParseByte
    PROVE  ServeInv'
<1>1. /\ Sound(parser) /\ (Stopped(parser) => text = <<>>) /\ Fielded(fields)
      /\ \E sent, c : /\ Declared(sent, message, c)
                      /\ Knows(c, parser, strings, fields, message, wire, text, Place)
  BY CodecInvIs, Zenon
<1>2. PICK sent, k : Declared(sent, message, k) /\ Knows(k, parser, strings, fields, message, wire, text, Place)
  BY <1>1
<1>3. message' = message /\ wire' = wire /\ outcome' = outcome
  BY <1>1, <1>2, ByteTaken, Zenon
<1>4. ASSUME wire' = serialize(message'), ~FramesItself(message'), NEW c, Asked(c, message')
      PROVE  /\ Keeps(c, parser', strings', fields', message', wire', text', Place')
             /\ outcome' \in {"none", "parsed"}
  <2>1. wire = serialize(message) /\ ~FramesItself(message) /\ Asked(c, message)
    BY <1>3, <1>4, Zenon
  <2>2. Keeps(c, parser, strings, fields, message, wire, text, Place) /\ outcome \in {"none", "parsed"}
    BY <2>1, ServeInvIs, Zenon
  <2>3. Plainly(c, message)
    BY <1>2, <2>1, SentPlainly, Zenon DEF Declared
  <2>4. Knows(c, parser, strings, fields, message, wire, text, Place)
    BY <2>2, Zenon DEF Keeps
  <2>5. /\ text # <<>> /\ ~Stopped(parser)
        /\ Turn(parser, strings, fields, Head(text), Len(text), parser', strings', fields', text')
        /\ Knows(c, parser', strings', fields', message', wire', text', Place')
        /\ Place' = IF text' = <<>> THEN Len(wire) + 1 ELSE Place + 1
    BY <1>1, <2>4, ByteTaken, Zenon
  <2>6. Promised(c, parser', strings', message, text', Place + 1)
    BY <1>1, <2>2, <2>3, <2>5, BytePromised, Zenon
  <2>7. Promised(c, parser', strings', message, text', Place')
    <3>1. CASE text' = <<>>
      BY <2>6, <3>1, PromisedAnywhere, Zenon
    <3>2. CASE text' # <<>>
      BY <2>5, <2>6, <3>2, Zenon
    <3>3. QED
      BY <3>1, <3>2, Zenon
  <2>8. Promised(c, parser', strings', message', text', Place')
    BY <1>3, <2>7, Zenon
  <2>9. QED
    BY <1>3, <2>2, <2>5, <2>8, Zenon DEF Keeps
<1>5. QED
  BY <1>4, ServeInvNext, Zenon

(* Neither parser begins but as it should: the second on a response. *)
LEMMA TryResponseServes ==
    ASSUME CodecInv, CodecInv', ServeInv, TryResponse
    PROVE  ServeInv'
<1>1. PICK sent, k : Declared(sent, message, k) /\ Knows(k, parser, strings, fields, message, wire, text, Place)
  BY CodecInvIs, Zenon
<1>2. /\ text = <<>> /\ Failed(parser) /\ parser.type = "HTTP_REQUEST"
      /\ parser' = BufferBegins(NewParser("HTTP_RESPONSE")) /\ strings' = NoStrings
      /\ fields' = NoFields /\ text' = Append(wire, NUL)
      /\ message' = message /\ wire' = wire /\ outcome' = outcome /\ outcome = "none"
  BY DEF TryResponse, Started
<1>3. ASSUME wire' = serialize(message'), ~FramesItself(message'), NEW c, Asked(c, message')
      PROVE  /\ Keeps(c, parser', strings', fields', message', wire', text', Place')
             /\ outcome' \in {"none", "parsed"}
  <2>1. wire = serialize(message) /\ ~FramesItself(message) /\ Asked(c, message)
    BY <1>2, <1>3, Zenon
  <2>2. Keeps(c, parser, strings, fields, message, wire, text, Place)
    BY <2>1, ServeInvIs, Zenon
  <2>3. Promised(c, parser, strings, message, text, Place)
    BY <2>2, Zenon DEF Keeps
  <2>4. Sendable(message) /\ c \in 0 .. MaxLength /\ Len(message.body) \in 0 .. c /\ wire = Bytes(message, c)
    BY <1>1, <2>1, SentPlainly, Zenon DEF Declared
  <2>5. message.type = "HTTP_RESPONSE"
    <3>1. parser.type # message.type
      BY <1>2, <2>3, Zenon DEF Promised
    <3>2. message.type \in {"HTTP_REQUEST", "HTTP_RESPONSE"}
      BY <2>4, Zenon DEF Sendable
    <3>3. QED
      BY <1>2, <3>1, <3>2
  <2>6. "HTTP_RESPONSE" \in {"HTTP_REQUEST", "HTTP_RESPONSE"}
    OBVIOUS
  <2>7. /\ text' # <<>>
        /\ Knows(c, parser', NoStrings, NoFields, message, wire, text', Len(wire) + 1 - Len(text'))
    BY <1>2, <2>4, <2>6, NothingKnown, Zenon
  <2>8. Promised(c, parser', NoStrings, message, text', 0)
    BY <1>2, <2>4, <2>5, <2>7, NothingPromised, Zenon
  <2>9. Len(wire) + 1 - Len(text') = 0
    <3> DEFINE n == Len(wire)
               l == Len(text')
    <3>1. wire \in Seq(Letters(message)) /\ NUL \in Letters(message) /\ n \in Nat
      BY <1>1, KnowsWire, Zenon
    <3>2. l = n + 1
      BY <1>2, <3>1, RestNone, Zenon
    <3> HIDE DEF n, l
    <3>3. n + 1 - l = 0
      BY <3>1, <3>2
    <3>4. QED
      BY <3>3, Zenon DEF n, l
  <2>10. Place' = 0
    <3>1. Place' = Len(wire') + 1 - Len(text')
      BY Zenon DEF Place
    <3>2. QED
      BY <1>2, <2>9, <3>1, Zenon
  <2>11. Knows(c, parser', strings', fields', message', wire', text', Place')
    BY <1>2, <2>7, <2>9, <2>10, Zenon
  <2>12. Promised(c, parser', strings', message', text', Place')
    BY <1>2, <2>8, <2>10, Zenon
  <2>13. outcome' \in {"none", "parsed"}
    BY <1>2
  <2>14. QED
    BY <2>11, <2>12, <2>13, Zenon DEF Keeps
<1>4. QED
  BY <1>3, ServeInvNext, Zenon

(* What serialize has written is never refused. *)
LEMMA ReturnsServe ==
    ASSUME CodecInv, CodecInv', ServeInv, Return \/ Refuse \/ UNCHANGED codecVars
    PROVE  ServeInv'
<1>1. PICK sent, k : Declared(sent, message, k) /\ Knows(k, parser, strings, fields, message, wire, text, Place)
  BY CodecInvIs, Zenon
<1>2. /\ parser' = parser /\ text' = text /\ strings' = strings /\ fields' = fields
      /\ message' = message /\ wire' = wire
      /\ \/ outcome' = "parsed" \/ outcome' = outcome
         \/ text = <<>> /\ Failed(parser) /\ parser.type = "HTTP_RESPONSE"
  BY DEF Return, Refuse, codecVars, vars
<1>3. Place' = Place
  BY <1>2 DEF Place
<1>4. ASSUME wire' = serialize(message'), ~FramesItself(message'), NEW c, Asked(c, message')
      PROVE  /\ Keeps(c, parser', strings', fields', message', wire', text', Place')
             /\ outcome' \in {"none", "parsed"}
  <2>1. wire = serialize(message) /\ ~FramesItself(message) /\ Asked(c, message)
    BY <1>2, <1>4, Zenon
  <2>2. Keeps(c, parser, strings, fields, message, wire, text, Place) /\ outcome \in {"none", "parsed"}
    BY <2>1, ServeInvIs, Zenon
  <2>3. Promised(c, parser, strings, message, text, Place)
    BY <2>2, Zenon DEF Keeps
  <2>4. ~(text = <<>> /\ Failed(parser) /\ parser.type = "HTTP_RESPONSE")
    <3>1. SUFFICES ASSUME text = <<>>, Failed(parser), parser.type = "HTTP_RESPONSE"
                   PROVE  FALSE
      OBVIOUS
    <3>2. Sendable(message)
      BY <1>1, <2>1, SentPlainly, Zenon DEF Declared
    <3>3. message.type \in {"HTTP_REQUEST", "HTTP_RESPONSE"}
      BY <3>2, Zenon DEF Sendable
    <3>4. parser.type # message.type
      BY <2>3, <3>1, Zenon DEF Promised
    <3>5. message.type = "HTTP_REQUEST"
      BY <3>1, <3>3, <3>4
    <3>6. parser.type = "HTTP_REQUEST"
      BY <2>3, <3>5, Zenon DEF Promised
    <3>7. QED
      BY <3>1, <3>6
  <2>5. outcome' \in {"none", "parsed"}
    BY <1>2, <2>2, <2>4
  <2>6. Keeps(c, parser', strings', fields', message', wire', text', Place')
    BY <1>2, <1>3, <2>2, Zenon
  <2>7. QED
    BY <2>5, <2>6
<1>5. QED
  BY <1>4, ServeInvNext, Zenon

(* The first parser begins as it should. *)
LEMMA CodecInitServes ==
    ASSUME CodecInit, CodecInv
    PROVE  ServeInv
<1>1. PICK sent, k : Declared(sent, message, k) /\ Knows(k, parser, strings, fields, message, wire, text, Place)
  BY CodecInvIs, Zenon
<1>2. /\ text = Append(wire, NUL) /\ parser = BufferBegins(NewParser("HTTP_REQUEST"))
      /\ strings = NoStrings /\ fields = NoFields /\ outcome = "none"
  BY DEF CodecInit
<1>3. ASSUME wire = serialize(message), ~FramesItself(message), NEW c, Asked(c, message)
      PROVE  /\ Keeps(c, parser, strings, fields, message, wire, text, Place)
             /\ outcome \in {"none", "parsed"}
  <2>1. Sendable(message) /\ c \in 0 .. MaxLength /\ Len(message.body) \in 0 .. c /\ wire = Bytes(message, c)
    BY <1>1, <1>3, SentPlainly, Zenon DEF Declared
  <2>2. "HTTP_REQUEST" \in {"HTTP_REQUEST", "HTTP_RESPONSE"}
    OBVIOUS
  <2>3. /\ text # <<>>
        /\ Knows(c, parser, NoStrings, NoFields, message, wire, text, Len(wire) + 1 - Len(text))
    BY <1>2, <2>1, <2>2, NothingKnown, Zenon
  <2>4. Promised(c, parser, NoStrings, message, text, 0)
    BY <1>2, <2>1, <2>3, NothingPromised, Zenon
  <2>5. Len(wire) + 1 - Len(text) = 0
    <3> DEFINE n == Len(wire)
               l == Len(text)
    <3>1. wire \in Seq(Letters(message)) /\ NUL \in Letters(message) /\ n \in Nat
      BY <1>1, KnowsWire, Zenon
    <3>2. l = n + 1
      BY <1>2, <3>1, RestNone, Zenon
    <3> HIDE DEF n, l
    <3>3. n + 1 - l = 0
      BY <3>1, <3>2
    <3>4. QED
      BY <3>3, Zenon DEF n, l
  <2>6. Place = 0
    BY <2>5, Zenon DEF Place
  <2>7. Knows(c, parser, strings, fields, message, wire, text, Place)
    BY <1>2, <2>3, <2>5, <2>6, Zenon
  <2>8. Promised(c, parser, strings, message, text, Place)
    BY <1>2, <2>4, <2>6, Zenon
  <2>9. outcome \in {"none", "parsed"}
    BY <1>2
  <2>10. QED
    BY <2>7, <2>8, <2>9, Zenon DEF Keeps
<1>4. QED
  BY <1>3, ServeInvIs, Zenon

(* The promise is inductive, beside the invariant. *)
LEMMA CodecNextServes == CodecInv /\ CodecInv' /\ ServeInv /\ [CodecNext]_codecVars => ServeInv'
<1> SUFFICES ASSUME CodecInv, CodecInv', ServeInv, [CodecNext]_codecVars
             PROVE  ServeInv'
  OBVIOUS
<1>1. CASE ParseByte
  BY <1>1, ParseByteServes
<1>2. CASE TryResponse
  BY <1>2, TryResponseServes
<1>3. CASE Return \/ Refuse \/ UNCHANGED codecVars
  BY <1>3, ReturnsServe
<1>4. QED
  BY <1>1, <1>2, <1>3 DEF CodecNext

(* The promise holds of every run. *)
LEMMA ServesInvariant == CodecSpec => []ServeInv
<1>1. CodecInit => ServeInv
  BY CodecInitKeeps, CodecInitServes
<1>2. QED
  BY <1>1, CodecInvariant, CodecNextServes, PTL DEF CodecSpec

(* What is kept to the end is the round trip. *)
LEMMA RoundTripKept ==
    ASSUME CodecInv, ServeInv
    PROVE  RoundTrip
<1> SUFFICES ASSUME outcome # "none", wire = serialize(message), ~FramesItself(message)
             PROVE  outcome = "parsed" /\ AsMeant
  BY DEF RoundTrip
<1>1. outcome # "none" => text = <<>>
  BY CodecInvIs, Zenon
<1>2. PICK sent, k : Declared(sent, message, k) /\ Knows(k, parser, strings, fields, message, wire, text, Place)
  BY CodecInvIs, Zenon
<1> DEFINE c == Len(message.body) + SerializeExtra
<1>3. Asked(c, message)
  BY Zenon DEF Asked
<1> HIDE DEF c
<1>4. Keeps(c, parser, strings, fields, message, wire, text, Place) /\ outcome \in {"none", "parsed"}
  BY <1>3, ServeInvIs, Zenon
<1>5. /\ Sendable(message) /\ c \in 0 .. MaxLength
      /\ Reached(parser, strings, fields, message, c, text, Place)
      /\ Promised(c, parser, strings, message, text, Place)
  BY <1>4, Zenon DEF Keeps, Knows
<1>6. text = <<>>
  BY <1>1
<1>7. outcome = "parsed" /\ ~Failed(parser)
  <2>1. outcome = "parsed" => ~Failed(parser)
    BY CodecInvIs, Zenon
  <2>2. QED
    BY <1>4, <2>1
<1>8. parser.type = message.type
  BY <1>5, <1>6, <1>7, Zenon DEF Promised
<1>9. ~parser.exited
  BY <1>5, <1>6, <1>8, Zenon DEF Promised
<1>10. Ended(parser, fields, message, c)
  BY <1>5, <1>6, <1>7, <1>9, Zenon DEF Reached
<1>11. QED
  BY <1>5, <1>7, <1>10, EndedMeant, Zenon

(* serialize, parse and parse_http: a message whose body ends by its            *)
(* content-length is accepted as what it was written as, a request as that     *)
(* request and a response as that response, for every method, status, path,    *)
(* header and body that serialize is given within the parser's limits.         *)
THEOREM ReadBack == CodecSpec => []RoundTrip
BY CodecInvariant, ServesInvariant, RoundTripKept, PTL
=============================================================================
