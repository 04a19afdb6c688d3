-------------------------- MODULE HttpCodecProofs ---------------------------
(***************************************************************************)
(* What parse_http makes of the bytes of a message is the message, whatever *)
(* its headers, body and declared length, or it is refused.                 *)
(*                                                                         *)
(* The parts, in this order: the layout of the bytes that serialize        *)
(* writes; what a byte does to strings and fields (Turns);                 *)
(* and for each part of a message that the parser which has read so much   *)
(* of it either fails or is where CodecInv has it one byte later (Onward). *)
(* Predicates with parameters stand for long conjunctions; they are opened *)
(* in a few lemmas and cited by name elsewhere.                            *)
(***************************************************************************)
EXTENDS HttpCodecInv, HttpParserProofs, SequenceTheorems, FiniteSetTheorems, WellFoundedInduction

(* A set of numbers that is not empty has a least one.  Induction over data   *)
(* is done with it: of the numbers for which something fails, the least one   *)
(* has a predecessor for which it holds.                                      *)
LEMMA Least ==
    ASSUME NEW A \in SUBSET Nat, A # {}
    PROVE  \E m \in A : \A n \in A : m <= n
<1> DEFINE Below(n) == 0 .. (n - 1)
           T == {Below(n) : n \in A}
<1>1. T \subseteq FiniteSubsetsOf(Nat)
  <2> SUFFICES ASSUME NEW n \in A
               PROVE  Below(n) \in SUBSET Nat /\ IsFiniteSet(Below(n))
    BY DEF FiniteSubsetsOf
  <2>1. n \in Nat /\ n - 1 \in Int
    OBVIOUS
  <2>2. QED
    BY <2>1, FS_Interval
<1>2. IsWellFoundedOn(StrictSubsetOrdering(Nat), FiniteSubsetsOf(Nat))
  BY FS_StrictSubsetOrderingWellFounded
<1>3. PICK x \in T : \A y \in T : <<y, x>> \notin StrictSubsetOrdering(Nat)
  <2>1. T # {}
    OBVIOUS
  <2> HIDE DEF T
  <2>2. QED
  BY <1>1, <1>2, <2>1, WFMin
<1>4. PICK m \in A : x = Below(m)
  OBVIOUS
<1>5. ASSUME NEW n \in A, n < m
      PROVE  FALSE
  <2>1. Below(n) \in T /\ Below(n) \subseteq Nat /\ Below(m) \subseteq Nat
    OBVIOUS
  <2>2. Below(n) \subseteq Below(m) /\ n \in Below(m) /\ n \notin Below(n)
    BY <1>5
  <2>3. <<Below(n), Below(m)>> \in StrictSubsetOrdering(Nat)
    <3> HIDE DEF Below
    <3> QED BY <2>1, <2>2 DEF StrictSubsetOrdering
  <2>4. QED
    BY <1>3, <1>4, <2>1, <2>3
<1>6. QED
  BY <1>5

(* Induction, as a fact about a set of numbers. *)
LEMMA Induction ==
    ASSUME NEW A, 0 \in A, \A n \in Nat : n \in A => n + 1 \in A
    PROVE  Nat \subseteq A
<1> SUFFICES ASSUME Nat \ A # {} PROVE FALSE
  OBVIOUS
<1>1. PICK m \in Nat \ A : \A n \in Nat \ A : m <= n
  BY Least
<1>2. m - 1 \in Nat
  BY <1>1
<1>3. m - 1 \in A
  BY <1>1, <1>2
<1>4. QED
  BY <1>1, <1>2, <1>3

(* The texts that FlattenSeq has made of the first lines. *)
Flat(f, lines, n) ==
    f = [i \in 1 .. n |-> IF i = 1 THEN lines[i] ELSE f[i - 1] \o lines[i]]

(* The text of so many lines, from that of one line less. *)
LEMMA FlatIs ==
    ASSUME NEW f, NEW lines, NEW n \in Nat, Flat(f, lines, n), NEW i \in 1 .. n
    PROVE  f[i] = IF i = 1 THEN lines[i] ELSE f[i - 1] \o lines[i]
<1> DEFINE g == [j \in 1 .. n |-> IF j = 1 THEN lines[j] ELSE f[j - 1] \o lines[j]]
<1>1. f = g
  BY DEF Flat
<1>2. g[i] = IF i = 1 THEN lines[i] ELSE f[i - 1] \o lines[i]
  OBVIOUS
<1> HIDE DEF g
<1>3. QED
  BY <1>1, <1>2

(* There is such a function, for any number of lines. *)
LEMMA FlatExists ==
    ASSUME NEW lines, NEW n \in Nat
    PROVE  \E f : Flat(f, lines, n)
<1> DEFINE A == {k \in Nat : \E f : Flat(f, lines, k)}
<1>1. 0 \in A
  <2> DEFINE f == [i \in 1 .. 0 |-> lines[i]]
  <2>1. Flat(f, lines, 0)
    BY DEF Flat
  <2>2. QED
    BY <2>1
<1>2. ASSUME NEW k \in Nat, k \in A
      PROVE  k + 1 \in A
  <2>1. PICK f : Flat(f, lines, k)
    BY <1>2
  <2> DEFINE Next1(h, i) == IF i = 1 THEN lines[i] ELSE h[i - 1] \o lines[i]
             g == [i \in 1 .. k + 1 |-> Next1(f, i)]
  <2>2. \A i \in 1 .. k : g[i] = f[i]
    BY <2>1, FlatIs
  <2>3. \A i \in 1 .. k + 1 : Next1(f, i) = Next1(g, i)
    <3>1. \A i \in 1 .. k + 1 : i # 1 => i - 1 \in 1 .. k
      OBVIOUS
    <3> HIDE DEF g
    <3>2. QED
      BY <2>2, <3>1
  <2>4. Flat(g, lines, k + 1)
    <3>1. g = [i \in 1 .. k + 1 |-> Next1(g, i)]
      <4> DEFINE h == [i \in 1 .. k + 1 |-> Next1(g, i)]
      <4> HIDE DEF Next1
      <4>1. \A i \in 1 .. k + 1 : g[i] = h[i]
        BY <2>3
      <4>2. QED
        BY <2>3
    <3> HIDE DEF g
    <3>2. QED
      BY <3>1 DEF Flat
  <2>5. QED
    BY <2>4
<1>3. Nat \subseteq A
  <2> HIDE DEF A
  <2> QED BY <1>1, <1>2, Induction
<1>4. QED
  BY <1>3

(* What it gives are texts, if the lines are. *)
LEMMA FlatTyped ==
    ASSUME NEW T, NEW lines, NEW n \in Nat, \A i \in 1 .. n : lines[i] \in Seq(T),
           NEW f, Flat(f, lines, n)
    PROVE  \A i \in 1 .. n : f[i] \in Seq(T)
<1> DEFINE A == {k \in Nat : k \in 1 .. n => f[k] \in Seq(T)}
<1>1. 0 \in A
  OBVIOUS
<1>2. ASSUME NEW k \in Nat, k \in A
      PROVE  k + 1 \in A
  <2>1. CASE k + 1 \in 1 .. n
    <3>1. f[k + 1] = IF k + 1 = 1 THEN lines[k + 1] ELSE f[k + 1 - 1] \o lines[k + 1]
      BY <2>1, FlatIs
    <3>2. k + 1 # 1 => k \in 1 .. n /\ k + 1 - 1 = k
      BY <2>1
    <3>3. lines[k + 1] \in Seq(T)
      BY <2>1
    <3>4. f[k + 1] \in Seq(T)
      BY <1>2, <3>1, <3>2, <3>3
    <3>5. QED
      BY <3>4
  <2>2. QED
    BY <2>1
<1>3. Nat \subseteq A
  <2> HIDE DEF A
  <2> QED BY <1>1, <1>2, Induction
<1>4. QED
  BY <1>3

(* What was made of the first lines does not depend on those that follow. *)
LEMMA FlatAgree ==
    ASSUME NEW n \in Nat, NEW more, NEW lines, NEW f, NEW g,
           Flat(f, lines, n), Flat(g, more, n + 1), \A i \in 1 .. n : lines[i] = more[i]
    PROVE  \A i \in 1 .. n : f[i] = g[i]
<1> DEFINE A == {j \in Nat : j \in 1 .. n => f[j] = g[j]}
<1>1. 0 \in A
  OBVIOUS
<1>2. ASSUME NEW j \in Nat, j \in A
      PROVE  j + 1 \in A
  <2>1. CASE j + 1 \in 1 .. n
    <3>1. f[j + 1] = IF j + 1 = 1 THEN lines[j + 1] ELSE f[j + 1 - 1] \o lines[j + 1]
      BY <2>1, FlatIs
    <3>2. g[j + 1] = IF j + 1 = 1 THEN more[j + 1] ELSE g[j + 1 - 1] \o more[j + 1]
      <4>1. j + 1 \in 1 .. n + 1
        BY <2>1
      <4>2. QED
        BY <4>1, FlatIs
    <3>3. j + 1 # 1 => j \in 1 .. n /\ j + 1 - 1 = j
      BY <2>1
    <3>4. f[j + 1] = g[j + 1]
      BY <1>2, <2>1, <3>1, <3>2, <3>3
    <3>5. QED
      BY <3>4
  <2>2. QED
    BY <2>1
<1>3. Nat \subseteq A
  <2> HIDE DEF A
  <2> QED BY <1>1, <1>2, Induction
<1>4. QED
  BY <1>3

(* The lines joined by FlattenSeq are what that function gives for all of them. *)
LEMMA FlattenIs ==
    ASSUME NEW lines, Len(lines) \in Nat, Len(lines) # 0
    PROVE  \E f : Flat(f, lines, Len(lines)) /\ S!FlattenSeq(lines) = f[Len(lines)]
<1> DEFINE f == CHOOSE f : Flat(f, lines, Len(lines))
<1>1. Flat(f, lines, Len(lines))
  BY FlatExists
<1>2. S!FlattenSeq(lines) = f[Len(lines)]
  BY DEF S!FlattenSeq, Flat
<1>3. QED
  BY <1>1, <1>2

(* A line more. *)
LEMMA FlattenAppend ==
    ASSUME NEW T, NEW lines \in Seq(Seq(T)), NEW x \in Seq(T)
    PROVE  /\ S!FlattenSeq(lines) \in Seq(T)
           /\ S!FlattenSeq(Append(lines, x)) = S!FlattenSeq(lines) \o x
<1> DEFINE n == Len(lines)
           more == Append(lines, x)
<1>1. n \in Nat /\ Len(more) = n + 1 /\ \A i \in 1 .. n : more[i] = lines[i] /\ lines[i] \in Seq(T)
  OBVIOUS
<1>2. more[n + 1] = x
  OBVIOUS
<1> HIDE DEF more, n
<1>3. PICK g : Flat(g, more, n + 1) /\ S!FlattenSeq(more) = g[n + 1]
  BY <1>1, FlattenIs
<1>4. g[n + 1] = IF n + 1 = 1 THEN x ELSE g[n] \o x
  <2>1. n + 1 \in 1 .. n + 1 /\ n + 1 - 1 = n
    BY <1>1
  <2>2. g[n + 1] = IF n + 1 = 1 THEN more[n + 1] ELSE g[n + 1 - 1] \o more[n + 1]
    BY <1>1, <1>3, <2>1, FlatIs
  <2>3. QED
    BY <1>2, <2>1, <2>2
<1>5. CASE n = 0
  <2>1. S!FlattenSeq(lines) = lines
    BY <1>5 DEF S!FlattenSeq, n
  <2>2. lines = <<>>
    BY <1>5 DEF n
  <2>3. S!FlattenSeq(more) = x
    BY <1>3, <1>4, <1>5
  <2>4. QED
    BY <2>1, <2>2, <2>3 DEF more
<1>6. CASE n # 0
  <2>1. PICK f : Flat(f, lines, n) /\ S!FlattenSeq(lines) = f[n]
    BY <1>1, <1>6, FlattenIs DEF n
  <2>2. n \in 1 .. n
    BY <1>1, <1>6
  <2>3. f[n] \in Seq(T)
    BY <1>1, <2>1, <2>2, FlatTyped
  <2>4. f[n] = g[n]
    <3>1. \A i \in 1 .. n : lines[i] = more[i]
      BY <1>1
    <3>2. \A i \in 1 .. n : f[i] = g[i]
      BY <1>1, <1>3, <2>1, <3>1, FlatAgree
    <3>3. QED
      BY <2>2, <3>2
  <2>5. n + 1 # 1
    BY <1>1, <1>6
  <2>6. QED
    BY <1>3, <1>4, <2>1, <2>3, <2>4, <2>5 DEF more
<1>7. QED
  BY <1>5, <1>6

(* The text of the first lines, and of one line more. *)
LEMMA FlattenFirst ==
    ASSUME NEW T, NEW lines \in Seq(Seq(T)), NEW i \in 0 .. Len(lines)
    PROVE  /\ First(lines, i) \in Seq(Seq(T)) /\ Len(First(lines, i)) = i
           /\ S!FlattenSeq(First(lines, i)) \in Seq(T)
           /\ i = 0 => S!FlattenSeq(First(lines, i)) = <<>>
           /\ i = Len(lines) => First(lines, i) = lines
           /\ i > 0 => S!FlattenSeq(First(lines, i)) = S!FlattenSeq(First(lines, i - 1)) \o lines[i]
<1>1. First(lines, i) \in Seq(Seq(T)) /\ Len(First(lines, i)) = i
  BY DEF First
<1>2. S!FlattenSeq(First(lines, i)) \in Seq(T)
  <2>1. <<>> \in Seq(T)
    OBVIOUS
  <2>2. QED
    BY <1>1, <2>1, FlattenAppend
<1>3. i = 0 => S!FlattenSeq(First(lines, i)) = <<>>
  <2>1. i = 0 => Len(First(lines, i)) = 0 /\ First(lines, i) = <<>>
    BY DEF First
  <2>2. QED
    BY <2>1 DEF S!FlattenSeq
<1>4. i = Len(lines) => First(lines, i) = lines
  BY DEF First
<1>5. i > 0 => S!FlattenSeq(First(lines, i)) = S!FlattenSeq(First(lines, i - 1)) \o lines[i]
  <2> SUFFICES ASSUME i > 0
               PROVE  S!FlattenSeq(First(lines, i)) = S!FlattenSeq(First(lines, i - 1)) \o lines[i]
    OBVIOUS
  <2> DEFINE s == First(lines, i - 1)
  <2>1. s \in Seq(Seq(T)) /\ lines[i] \in Seq(T)
    BY DEF First
  <2>2. First(lines, i) = Append(s, lines[i])
    BY DEF First
  <2> HIDE DEF s
  <2>3. S!FlattenSeq(Append(s, lines[i])) = S!FlattenSeq(s) \o lines[i]
    BY <2>1, FlattenAppend
  <2>4. QED
    BY <2>2, <2>3 DEF s
<1>6. QED
  BY <1>1, <1>2, <1>3, <1>4, <1>5

(* The text of the first lines is what the text of more of them begins with. *)
LEMMA FlattenBegins ==
    ASSUME NEW T, NEW lines \in Seq(Seq(T)), NEW i \in 0 .. Len(lines)
    PROVE  LET s == S!FlattenSeq(First(lines, i))
               t == S!FlattenSeq(lines)
           IN  /\ s \in Seq(T) /\ t \in Seq(T) /\ Len(s) <= Len(t)
               /\ \A j \in 1 .. Len(s) : t[j] = s[j]
<1> DEFINE F(k) == S!FlattenSeq(First(lines, k))
           s == F(i)
           Begins(k) == Len(s) <= Len(F(k)) /\ \A j \in 1 .. Len(s) : F(k)[j] = s[j]
           A == {k \in Nat : k \in i .. Len(lines) => Begins(k)}
<1>0. i \in Nat /\ Len(lines) \in Nat
  OBVIOUS
<1>1. \A k \in 0 .. Len(lines) : F(k) \in Seq(T)
  <2> TAKE k \in 0 .. Len(lines)
  <2> QED BY FlattenFirst
<1>10. \A k \in 1 .. Len(lines) : F(k) = F(k - 1) \o lines[k]
  <2> TAKE k \in 1 .. Len(lines)
  <2>1. k \in 0 .. Len(lines) /\ k > 0
    OBVIOUS
  <2>2. QED
    BY <2>1, FlattenFirst
<1>2. s \in Seq(T) /\ Len(s) \in Nat
  <2>1. s \in Seq(T)
    BY <1>1
  <2> HIDE DEF s
  <2>2. QED
    BY <2>1
<1>3. F(Len(lines)) = S!FlattenSeq(lines)
  <2>1. Len(lines) \in 0 .. Len(lines)
    BY <1>0
  <2>2. First(lines, Len(lines)) = lines
    BY <2>1, FlattenFirst
  <2>3. QED
    BY <2>2
<1> HIDE DEF F
<1>4. 0 \in A
  <2>1. 0 \in i .. Len(lines) => i = 0
    BY <1>0, <1>2
  <2>2. QED
    BY <1>0, <1>2, <2>1
<1>5. ASSUME NEW k \in Nat, k \in A
      PROVE  k + 1 \in A
  <2> SUFFICES ASSUME k + 1 \in i .. Len(lines)
               PROVE  Begins(k + 1)
    OBVIOUS
  <2>1. CASE k + 1 = i
    BY <1>0, <1>2, <2>1
  <2>2. CASE k + 1 # i
    <3>1. k \in i .. Len(lines) /\ k + 1 \in 0 .. Len(lines) /\ k \in 0 .. Len(lines) /\ k + 1 > 0 /\ k + 1 - 1 = k
      BY <1>0, <1>2, <2>2
    <3>2. Begins(k)
      BY <1>5, <3>1
    <3>3. F(k + 1) = F(k) \o lines[k + 1]
      <4>1. k + 1 \in 1 .. Len(lines)
        BY <3>1
      <4> DEFINE j == k + 1
      <4>2. j \in 1 .. Len(lines) /\ j - 1 = k
        BY <3>1, <4>1
      <4> HIDE DEF j
      <4>3. F(j) = F(j - 1) \o lines[j]
        BY <1>10, <4>2, Zenon
      <4>4. F(j) = F(k) \o lines[j]
        BY <4>2, <4>3
      <4>5. QED
        BY <4>4 DEF j
    <3> DEFINE u == F(k)
               v == F(k + 1)
               x == lines[k + 1]
    <3>4. u \in Seq(T) /\ x \in Seq(T) /\ v = u \o x
      BY <1>1, <3>1, <3>3
    <3>5. Len(s) <= Len(u) /\ \A j \in 1 .. Len(s) : u[j] = s[j]
      BY <3>2
    <3> HIDE DEF s, u, v, x
    <3>6. Len(s) <= Len(v) /\ \A j \in 1 .. Len(s) : v[j] = s[j]
      BY <1>2, <3>4, <3>5
    <3>7. QED
      BY <3>6 DEF v
  <2>3. QED
    BY <2>1, <2>2
<1>6. Nat \subseteq A
  <2> HIDE DEF A
  <2> QED BY <1>4, <1>5, Induction
<1>7. Begins(Len(lines))
  <2>1. Len(lines) \in i .. Len(lines)
    BY <1>0, <1>2
  <2>2. QED
    BY <1>0, <1>2, <1>6, <2>1
<1>8. F(Len(lines)) \in Seq(T)
  <2>1. Len(lines) \in 0 .. Len(lines)
    BY <1>0
  <2>2. QED
    BY <1>1, <2>1
<1>9. QED
  BY <1>0, <1>2, <1>3, <1>7, <1>8 DEF F

(* The bytes of one of the lines. *)
LEMMA FlattenAt ==
    ASSUME NEW T, NEW lines \in Seq(Seq(T)), NEW i \in 1 .. Len(lines)
    PROVE  LET s == S!FlattenSeq(First(lines, i - 1))
               t == S!FlattenSeq(lines)
           IN  /\ Len(S!FlattenSeq(First(lines, i))) = Len(s) + Len(lines[i])
               /\ Len(s) + Len(lines[i]) <= Len(t)
               /\ \A d \in 1 .. Len(lines[i]) : t[Len(s) + d] = lines[i][d]
<1> DEFINE s == S!FlattenSeq(First(lines, i - 1))
           u == S!FlattenSeq(First(lines, i))
           t == S!FlattenSeq(lines)
<1>1. i \in 0 .. Len(lines) /\ i - 1 \in 0 .. Len(lines) /\ i > 0 /\ lines[i] \in Seq(T)
  OBVIOUS
<1>2. s \in Seq(T) /\ u \in Seq(T) /\ u = s \o lines[i]
  BY <1>1, FlattenFirst
<1>3. Len(u) <= Len(t) /\ \A j \in 1 .. Len(u) : t[j] = u[j]
  BY <1>1, FlattenBegins
<1> HIDE DEF s, u, t
<1>4. Len(u) = Len(s) + Len(lines[i]) /\ \A d \in 1 .. Len(lines[i]) : u[Len(s) + d] = lines[i][d]
  BY <1>1, <1>2
<1>5. \A d \in 1 .. Len(lines[i]) : Len(s) + d \in 1 .. Len(u)
  BY <1>1, <1>2, <1>4
<1>6. QED
  BY <1>3, <1>4, <1>5 DEF s, u, t

(* The digits of a number, from the first on. *)
DigitsOf(n) == IF n > 99 THEN <<n \div 100, (n \div 10) % 10, n % 10>>
               ELSE IF n > 9 THEN <<n \div 10, n % 10>> ELSE <<n>>

(* A number is its last digit and the rest. *)
LEMMA ByTens ==
    ASSUME NEW n \in Nat
    PROVE  n % 10 = n - 10 * (n \div 10) /\ n \div 10 \in Nat
OBVIOUS

(* Each digit has a letter. *)
LEMMA DigitChosen ==
    ASSUME NEW d \in 0 .. 9
    PROVE  LET ch == CHOOSE ch \in NUM : Digit[ch] = d IN ch \in NUM /\ Digit[ch] = d
<1>1. d \in {Digit[ch] : ch \in NUM}
  BY TextAssumption, LettersAssumption
<1>2. \E ch \in NUM : Digit[ch] = d
  BY <1>1
<1>3. QED
  BY <1>2, Zenon

(* The digits that to_string writes, and how many. *)
LEMMA DigitsAre ==
    ASSUME NEW n \in 0 .. MaxLength
    PROVE  LET ds == DigitsOf(n)
           IN  /\ Len(ds) = IF n > 99 THEN 3 ELSE IF n > 9 THEN 2 ELSE 1
               /\ \A i \in 1 .. Len(ds) : ds[i] \in 0 .. 9
               /\ Leading(n, 1) = ds[1] /\ Leading(n, Len(ds)) = n
               /\ \A i \in 1 .. Len(ds) - 1 : Leading(n, i + 1) = 10 * Leading(n, i) + ds[i + 1]
<1>1. n \in Nat /\ n <= 999
  BY DEF MaxLength
<1>2. CASE n > 99
  <2>1. DigitsOf(n) = <<n \div 100, (n \div 10) % 10, n % 10>>
    BY <1>2 DEF DigitsOf
  <2>2. n \div 100 \in 0 .. 9 /\ (n \div 10) % 10 \in 0 .. 9 /\ n % 10 \in 0 .. 9
    BY <1>1, <1>2
  <2>3. (n \div 10) % 10 = n \div 10 - 10 * (n \div 100) /\ n % 10 = n - 10 * (n \div 10)
    <3>1. n % 10 = n - 10 * (n \div 10) /\ n \div 10 \in Nat
      BY <1>1, ByTens
    <3>2. (n \div 10) % 10 = n \div 10 - 10 * ((n \div 10) \div 10)
      BY <3>1, ByTens
    <3>3. n \div 100 = (n \div 10) \div 10
      BY <1>1
    <3>4. QED
      BY <3>1, <3>2, <3>3
  <2>4. Leading(n, 1) = n \div 100 /\ Leading(n, 2) = n \div 10 /\ Leading(n, 3) = n
    BY <1>2 DEF Leading
  <2>5. 1 .. 3 = {1, 2, 3} /\ 1 .. 3 - 1 = {1, 2}
    OBVIOUS
  <2> DEFINE a == n \div 100 
             b == (n \div 10) % 10 
             e == n % 10
             ds == <<a, b, e>>
  <2> HIDE DEF a, b, e
  <2>6. Len(ds) = 3 /\ ds[1] = a /\ ds[2] = b /\ ds[3] = e
    OBVIOUS
  <2> HIDE DEF ds
  <2>7. \A i \in 1 .. Len(ds) : ds[i] \in 0 .. 9
    BY <2>2, <2>5, <2>6 DEF a, b, e
  <2>8. \A i \in 1 .. Len(ds) - 1 : Leading(n, i + 1) = 10 * Leading(n, i) + ds[i + 1]
    <3> TAKE i \in 1 .. Len(ds) - 1
    <3>1. i = 1 \/ i = 2
      BY <2>5, <2>6
    <3>2. n \div 10 = 10 * a + b /\ n = 10 * (n \div 10) + e
      BY <2>3 DEF a, b, e
    <3>3. QED
      BY <2>4, <2>6, <3>1, <3>2 DEF a
  <2>9. QED
    BY <1>2, <2>1, <2>4, <2>6, <2>7, <2>8 DEF ds, a, b, e
<1>3. CASE n > 9 /\ ~(n > 99)
  <2>1. DigitsOf(n) = <<n \div 10, n % 10>>
    BY <1>3 DEF DigitsOf
  <2>2. n \div 10 \in 0 .. 9 /\ n % 10 \in 0 .. 9 /\ n % 10 = n - 10 * (n \div 10)
    <3>1. n % 10 = n - 10 * (n \div 10)
      BY <1>1, ByTens
    <3>2. n % 10 \in 0 .. 9
      BY <1>1
    <3>3. n \in Nat /\ n <= 99
      BY <1>1, <1>3
    <3>4. n \div 10 \in 0 .. 9
      BY <3>3
    <3>5. QED
      BY <3>1, <3>2, <3>4
  <2>3. Leading(n, 1) = n \div 10 /\ Leading(n, 2) = n
    BY <1>3 DEF Leading
  <2> DEFINE a == n \div 10 
             e == n % 10
             ds == <<a, e>>
  <2> HIDE DEF a, e
  <2>4. Len(ds) = 2 /\ ds[1] = a /\ ds[2] = e
    OBVIOUS
  <2> HIDE DEF ds
  <2>5. \A i \in 1 .. Len(ds) : ds[i] \in 0 .. 9
    <3> TAKE i \in 1 .. Len(ds)
    <3>1. i = 1 \/ i = 2
      BY <2>4
    <3>2. QED
      BY <2>2, <2>4, <3>1 DEF a, e
  <2>6. \A i \in 1 .. Len(ds) - 1 : Leading(n, i + 1) = 10 * Leading(n, i) + ds[i + 1]
    <3> TAKE i \in 1 .. Len(ds) - 1
    <3>1. i = 1
      BY <2>4
    <3>2. n = 10 * a + e
      BY <2>2 DEF a, e
    <3>3. QED
      BY <2>3, <2>4, <3>1, <3>2 DEF a
  <2>7. QED
    BY <1>3, <2>1, <2>3, <2>4, <2>5, <2>6 DEF ds, a, e
<1>4. CASE ~(n > 9)
  <2>1. DigitsOf(n) = <<n>> /\ n \in 0 .. 9 /\ Leading(n, 1) = n /\ ~(n > 99)
    BY <1>1, <1>4 DEF DigitsOf, Leading
  <2> DEFINE ds == <<n>>
  <2>2. Len(ds) = 1 /\ ds[1] = n
    OBVIOUS
  <2> HIDE DEF ds
  <2>3. \A i \in 1 .. Len(ds) : i = 1
    BY <2>2
  <2>4. \A i \in 1 .. Len(ds) - 1 : FALSE
    BY <2>2
  <2>5. QED
    BY <1>4, <2>1, <2>2, <2>3, <2>4 DEF ds
<1>5. n > 99 => n > 9
  BY <1>1
<1>6. QED
  BY <1>2, <1>3, <1>4, <1>5

(* A length as it is written, and what its digits come to. *)
LEMMA WrittenLength ==
    ASSUME NEW n \in 0 .. MaxLength
    PROVE  LET s == to_string(n)
           IN  /\ s \in Seq(NUM) /\ Len(s) = (IF n > 99 THEN 3 ELSE IF n > 9 THEN 2 ELSE 1)
               /\ Len(s) \in 1 .. 3
               /\ Leading(n, 1) = Digit[s[1]] /\ Leading(n, Len(s)) = n
               /\ \A i \in 1 .. Len(s) - 1 : Leading(n, i + 1) = 10 * Leading(n, i) + Digit[s[i + 1]]
<1> DEFINE ds == DigitsOf(n)
           s  == [i \in 1 .. Len(ds) |-> CHOOSE ch \in NUM : Digit[ch] = ds[i]]
<1>1. to_string(n) = s
  BY DEF to_string, DigitsOf
<1>2. /\ Len(ds) = IF n > 99 THEN 3 ELSE IF n > 9 THEN 2 ELSE 1
      /\ \A i \in 1 .. Len(ds) : ds[i] \in 0 .. 9
      /\ Leading(n, 1) = ds[1] /\ Leading(n, Len(ds)) = n
      /\ \A i \in 1 .. Len(ds) - 1 : Leading(n, i + 1) = 10 * Leading(n, i) + ds[i + 1]
  BY DigitsAre
<1> HIDE DEF ds
<1>3. Len(ds) \in 1 .. 3
  BY <1>2
<1>4. \A i \in 1 .. Len(ds) : s[i] \in NUM /\ Digit[s[i]] = ds[i]
  <2> TAKE i \in 1 .. Len(ds)
  <2>1. s[i] = CHOOSE ch \in NUM : Digit[ch] = ds[i]
    OBVIOUS
  <2>2. ds[i] \in 0 .. 9
    BY <1>2
  <2>3. QED
    BY <2>1, <2>2, DigitChosen
<1>5. s \in Seq(NUM) /\ Len(s) = Len(ds)
  BY <1>3, <1>4
<1> HIDE DEF s
<1>6. Leading(n, 1) = Digit[s[1]]
  BY <1>2, <1>3, <1>4
<1>7. \A i \in 1 .. Len(s) - 1 : Leading(n, i + 1) = 10 * Leading(n, i) + Digit[s[i + 1]]
  <2> TAKE i \in 1 .. Len(s) - 1
  <2>1. i + 1 \in 1 .. Len(ds) /\ i \in 1 .. Len(ds) - 1
    BY <1>3, <1>5
  <2>2. QED
    BY <1>2, <1>4, <2>1
<1>8. QED
  BY <1>1, <1>2, <1>3, <1>5, <1>6, <1>7

(* A text is one over any larger set of letters. *)
LEMMA SeqLarger ==
    ASSUME NEW A, NEW B, A \subseteq B, NEW s \in Seq(A)
    PROVE  s \in Seq(B)
<1>1. Len(s) \in Nat /\ s = [i \in 1 .. Len(s) |-> s[i]] /\ \A i \in 1 .. Len(s) : s[i] \in A
  OBVIOUS
<1>2. \A i \in 1 .. Len(s) : s[i] \in B
  BY <1>1
<1>3. QED
  BY <1>1, <1>2

(* One text after another. *)
Follows(T, s, a, b) ==
    /\ s \in Seq(T) /\ Len(s) = Len(a) + Len(b)
    /\ Len(a) \in Nat /\ Len(b) \in Nat
    /\ \A d \in 1 .. Len(a) : s[d] = a[d]
    /\ \A d \in 1 .. Len(b) : s[Len(a) + d] = b[d]

(* Two texts, one after the other. *)
LEMMA Joined ==
    ASSUME NEW T, NEW a \in Seq(T), NEW b \in Seq(T)
    PROVE  Follows(T, a \o b, a, b)
<1>1. a \o b \in Seq(T) /\ Len(a \o b) = Len(a) + Len(b) /\ Len(a) \in Nat /\ Len(b) \in Nat
  OBVIOUS
<1>2. \A d \in 1 .. Len(a) : (a \o b)[d] = a[d]
  OBVIOUS
<1>3. \A d \in 1 .. Len(b) : (a \o b)[Len(a) + d] = b[d]
  OBVIOUS
<1>4. QED
  BY <1>1, <1>2, <1>3, Zenon DEF Follows

(* The text of a word. *)
LEMMA TextIs ==
    ASSUME NEW w, Len(w) \in Nat
    PROVE  /\ Text(w) \in Seq({SubSeq(w, i, i) : i \in 1 .. Len(w)}) /\ Len(Text(w)) = Len(w)
           /\ \A i \in 1 .. Len(w) : Text(w)[i] = SubSeq(w, i, i) /\ Text(w)[i] = Nth(w, i - 1)
<1> DEFINE n == Len(w)
           t == [i \in 1 .. n |-> SubSeq(w, i, i)]
           E == {SubSeq(w, i, i) : i \in 1 .. n}
<1>1. Text(w) = t
  BY DEF Text
<1>2. \A i \in 1 .. n : SubSeq(w, i, i) = Nth(w, i - 1)
  <2> TAKE i \in 1 .. n
  <2>1. i - 1 < n /\ i - 1 + 1 = i
    OBVIOUS
  <2>2. QED
    BY <2>1 DEF Nth
<1>3. \A i \in 1 .. n : SubSeq(w, i, i) \in E
  OBVIOUS
<1> HIDE DEF E, n
<1>4. n \in Nat
  BY DEF n
<1>5. t \in Seq(E) /\ Len(t) = n /\ \A i \in 1 .. n : t[i] = SubSeq(w, i, i)
  BY <1>3, <1>4
<1> HIDE DEF t
<1>6. QED
  BY <1>1, <1>2, <1>5 DEF E, n

(* The letters that a message is made of. *)
Marks == {SPACE, CR, LF, NUL, ":", "H", "T", "P", "/", "1", ".", "O", "K"}

Letters(m) == STRING \cup Marks \cup NUM \cup {SubSeq(m.method, i, i) : i \in 1 .. Len(m.method)}
                     \cup {SubSeq(LengthName, i, i) : i \in 1 .. Len(LengthName)}

(* The name of the length, letter by letter, as the parser matches it. *)
LEMMA LengthNameIs ==
    LET name == Text(LengthName)
    IN  /\ Len(LengthName) \in 5 .. 17 /\ Len(name) = Len(LengthName)
        /\ name \in Seq({SubSeq(LengthName, i, i) : i \in 1 .. Len(LengthName)})
        /\ \A i \in 1 .. Len(name) : name[i] \in TOKEN /\ name[i] = Nth(LengthName, i - 1)
                                     /\ Lowered(name[i]) = name[i]
        /\ tolower(name) = name
<1>1. Len(LengthName) \in 5 .. 17
  <2>1. "h_matching_content_length" \in DOMAIN Word /\ Word["h_matching_content_length"] = LengthName
    BY DEF Word, LengthName
  <2>2. QED
    BY <2>1, LengthAssumption
<1>2. Len(LengthName) \in Nat
  BY <1>1
<1> DEFINE name == Text(LengthName)
<1>3. /\ Len(name) = Len(LengthName)
      /\ name \in Seq({SubSeq(LengthName, i, i) : i \in 1 .. Len(LengthName)})
      /\ \A i \in 1 .. Len(name) : name[i] = SubSeq(LengthName, i, i) /\ name[i] = Nth(LengthName, i - 1)
  BY <1>2, TextIs
<1>4. Chars(LengthName) \subseteq TOKEN /\ tolower(name) = name
  BY TextAssumption, LettersAssumption DEF LengthName
<1>5. \A i \in 1 .. Len(name) : name[i] \in TOKEN
  BY <1>3, <1>4, ZenonT(40) DEF Chars
<1> HIDE DEF name
<1>6. \A i \in 1 .. Len(name) : Lowered(name[i]) = name[i]
  <2> TAKE i \in 1 .. Len(name)
  <2>1. tolower(name)[i] = Lowered(name[i])
    BY SMTT(40) DEF tolower
  <2>2. QED
    BY <1>4, <2>1
<1>7. QED
  BY <1>1, <1>3, <1>4, <1>5, <1>6 DEF name

(* What is sent can be sent, and declares no less than its body has. *)
LEMMA SentIs ==
    ASSUME NEW sent \in Sent
    PROVE  LET m == sent[1]
               c == Len(m.body) + sent[2]
           IN  Sendable(m) /\ c \in 0 .. MaxLength /\ Len(m.body) \in 0 .. c
<1> DEFINE m == sent[1]
           n == Len(m.body)
<1>1. Sendable(m) /\ sent[2] \in Nat /\ n + sent[2] <= MaxLength
  BY SentAssumption
<1>2. m.body \in Seq(STRING)
  BY <1>1, Zenon DEF Sendable
<1>3. n \in Nat
  BY <1>2
<1> DEFINE k == sent[2]
<1>4. k \in Nat /\ n + k <= 999
  BY <1>1 DEF MaxLength
<1> HIDE DEF n, k
<1>5. n + k \in 0 .. 999 /\ n \in 0 .. n + k
  BY <1>3, <1>4
<1>6. QED
  BY <1>1, <1>5 DEF n, k, MaxLength

(* What a message is, part by part. *)
LEMMA SendableParts ==
    ASSUME NEW m, Sendable(m)
    PROVE  /\ m.type \in {"HTTP_REQUEST", "HTTP_RESPONSE"} /\ m.path \in Seq(STRING)
           /\ m.headers \in Seq(Seq(STRING) \X Seq(STRING)) /\ m.body \in Seq(STRING)
           /\ m.type = "HTTP_REQUEST" =>
                 /\ m.method \in MethodNames /\ m.status = 0 /\ m.path # <<>>
                 /\ \A i \in 1 .. Len(m.path) : m.path[i] \notin {SPACE, CR, LF}
           /\ m.type = "HTTP_RESPONSE" => m.path = <<>> /\ m.status \in status_strings
           /\ \A i \in 1 .. Len(m.headers) :
                 /\ m.headers[i][1] # <<>>
                 /\ \A j \in 1 .. Len(m.headers[i][1]) : m.headers[i][1][j] \in TOKEN
                 /\ \A j \in 1 .. Len(m.headers[i][2]) : m.headers[i][2][j] \notin {CR, LF}
                 /\ m.headers[i][2] # <<>> => m.headers[i][2][1] \notin Blanks
           /\ \A i, k \in 1 .. Len(m.headers) :
                 tolower(m.headers[k][1]) = tolower(m.headers[i][1]) => k = i
<1>1. /\ m \in [type : {"HTTP_REQUEST", "HTTP_RESPONSE"}, method : STRING, status : Nat,
                path : Seq(STRING), headers : Seq(Seq(STRING) \X Seq(STRING)), body : Seq(STRING)]
      /\ m.type = "HTTP_REQUEST" =>
            /\ m.method \in MethodNames /\ m.status = 0 /\ m.path # <<>>
            /\ \A i \in 1 .. Len(m.path) : m.path[i] \notin {SPACE, CR, LF}
      /\ m.type = "HTTP_RESPONSE" => m.path = <<>> /\ m.status \in status_strings
  BY Zenon DEF Sendable
<1>2. \A i \in 1 .. Len(m.headers) :
          LET name == m.headers[i][1]
              val  == m.headers[i][2]
          IN  /\ name # <<>> /\ \A j \in 1 .. Len(name) : name[j] \in TOKEN
              /\ \A j \in 1 .. Len(val) : val[j] \notin {CR, LF}
              /\ val # <<>> => val[1] \notin Blanks
              /\ \A k \in 1 .. Len(m.headers) : tolower(m.headers[k][1]) = tolower(name) => k = i
  BY Zenon DEF Sendable
<1>3. QED
  BY <1>1, <1>2, Zenon

(* The digits and letters of a header, and what ends its name and its line. *)
LEMMA LetterApart ==
    /\ \A ch \in TOKEN : ch \notin {SPACE, TAB, CR, LF, NUL, ":"}
    /\ NUM \subseteq TOKEN /\ ALPHA \subseteq TOKEN
    /\ \A ch \in NUM : ch \notin {SPACE, TAB, CR, LF}
<1>1. NUM \subseteq TOKEN /\ ALPHA \subseteq TOKEN
  BY DEF TOKEN
<1>2. \A ch \in TOKEN : ch \notin {SPACE, TAB, CR, LF, NUL, ":"}
  <2> TAKE ch \in TOKEN
  <2>1. {SPACE, TAB, CR, LF, NUL, ":"} \cap (TOKEN \cup IS_URL_CHAR \cup IS_USERINFO_CHAR) \subseteq {":"}
        /\ ":" \notin TOKEN
    BY TextAssumption, LettersAssumption
  <2> HIDE DEF SPACE, TAB, CR, LF, NUL, TOKEN, IS_URL_CHAR, IS_USERINFO_CHAR
  <2>2. QED
    BY <2>1, Zenon
<1>3. QED
  BY <1>1, <1>2

(* The headers of a message, its length the last of them. *)
LEMMA HeadersAre ==
    ASSUME NEW m, Sendable(m), NEW c \in 0 .. MaxLength
    PROVE  /\ Len(m.headers) \in Nat /\ Count(m) \in Nat /\ ~Skipped(m, Count(m))
           /\ Len(AllHeaders(m, c)) = Count(m)
           /\ Name(m, c, Count(m)) = Text(LengthName) /\ Value(m, c, Count(m)) = to_string(c)
           /\ \A i \in 1 .. Len(m.headers) : /\ Name(m, c, i) = m.headers[i][1]
                                             /\ Value(m, c, i) = m.headers[i][2]
<1> DEFINE hs == m.headers
           last == <<Text("content-length"), to_string(c)>>
           all == Append(hs, last)
<1>1. hs \in Seq(Seq(STRING) \X Seq(STRING))
  BY SendableParts
<1>2. AllHeaders(m, c) = all
  BY DEF AllHeaders
<1> HIDE DEF hs, last
<1>3. Len(hs) \in Nat /\ Len(all) = Len(hs) + 1 /\ all[Len(hs) + 1] = last
      /\ \A i \in 1 .. Len(hs) : all[i] = hs[i]
  BY <1>1
<1>4. last[1] = Text("content-length") /\ last[2] = to_string(c)
  BY DEF last
<1>5. Count(m) = Len(hs) + 1
  BY DEF Count, hs
<1>6. Count(m) \in Nat /\ ~Skipped(m, Count(m))
  BY <1>3, <1>5 DEF Skipped, hs
<1> HIDE DEF all
<1>7. QED
  BY <1>2, <1>3, <1>4, <1>5, <1>6 DEF hs, Name, Value, LengthName

(* Each header's name is a token, its value fits on a line. *)
LEMMA HeaderIs ==
    ASSUME NEW m, Sendable(m), NEW c \in 0 .. MaxLength, NEW i \in 1 .. Count(m)
    PROVE  LET name == Name(m, c, i)
               val  == Value(m, c, i)
           IN  /\ name \in Seq(Letters(m)) /\ val \in Seq(Letters(m))
               /\ Len(name) \in Nat \ {0} /\ \A j \in 1 .. Len(name) : name[j] \in TOKEN
               /\ Len(val) \in Nat /\ \A j \in 1 .. Len(val) : val[j] \notin {CR, LF}
               /\ Len(val) # 0 => val[1] \notin {SPACE, TAB}
<1> DEFINE name == Name(m, c, i)
           val  == Value(m, c, i)
           T == Letters(m)
<1>1. /\ Len(m.headers) \in Nat
      /\ Name(m, c, Count(m)) = Text(LengthName) /\ Value(m, c, Count(m)) = to_string(c)
      /\ \A j \in 1 .. Len(m.headers) : Name(m, c, j) = m.headers[j][1] /\ Value(m, c, j) = m.headers[j][2]
  BY HeadersAre
<1>2. STRING \subseteq T /\ NUM \subseteq T
      /\ {SubSeq(LengthName, j, j) : j \in 1 .. Len(LengthName)} \subseteq T
  BY DEF Letters
<1> HIDE DEF T
<1>3. CASE i = Count(m)
  <2>1. name = Text(LengthName) /\ val = to_string(c)
    BY <1>1, <1>3
  <2> HIDE DEF name, val
  <2>2. name \in Seq(T)
    BY <1>2, <2>1, LengthNameIs, SeqLarger
  <2>3. Len(name) \in Nat \ {0} /\ \A j \in 1 .. Len(name) : name[j] \in TOKEN
    BY <2>1, LengthNameIs
  <2>4. val \in Seq(NUM) /\ Len(val) \in 1 .. 3
    BY <2>1, WrittenLength
  <2>5. \A j \in 1 .. Len(val) : val[j] \in NUM
    BY <2>4
  <2>6. val \in Seq(T) /\ Len(val) \in Nat
    BY <1>2, <2>4, SeqLarger
  <2>7. Len(val) # 0 => val[1] \in NUM
    BY <2>4, <2>5
  <2>8. QED
    BY <2>2, <2>3, <2>5, <2>6, <2>7, LetterApart DEF name, val, T
<1>4. CASE i # Count(m)
  <2>1. i \in 1 .. Len(m.headers)
    BY <1>1, <1>4 DEF Count
  <2> DEFINE h == m.headers[i]
  <2>2. h \in Seq(STRING) \X Seq(STRING) /\ name = h[1] /\ val = h[2]
    <3>1. m.headers \in Seq(Seq(STRING) \X Seq(STRING))
      BY SendableParts
    <3>2. QED
      BY <1>1, <2>1, <3>1
  <2>3. /\ h[1] # <<>> /\ \A j \in 1 .. Len(h[1]) : h[1][j] \in TOKEN
        /\ \A j \in 1 .. Len(h[2]) : h[2][j] \notin {CR, LF}
        /\ h[2] # <<>> => h[2][1] \notin Blanks
    BY <2>1, SendableParts
  <2> HIDE DEF name, val, h
  <2>4. name \in Seq(STRING) /\ val \in Seq(STRING)
    BY <2>2
  <2>5. Len(name) \in Nat \ {0} /\ Len(val) \in Nat /\ (Len(val) # 0 => val # <<>>)
    BY <2>2, <2>3, <2>4
  <2>6. name \in Seq(T) /\ val \in Seq(T)
    BY <1>2, <2>4, SeqLarger
  <2>7. QED
    BY <2>2, <2>3, <2>5, <2>6 DEF name, val, T, Blanks
<1>5. QED
  BY <1>3, <1>4

(* The bytes of a line. *)
Lined(T, line, name, val) ==
    LET nl == Len(name)
        vl == Len(val)
    IN  /\ line \in Seq(T) /\ Len(line) = nl + vl + 3
        /\ \A d \in 1 .. nl : line[d] = name[d]
        /\ line[nl + 1] = ":" /\ line[nl + 2] = SPACE
        /\ \A d \in 1 .. vl : line[nl + 2 + d] = val[d]
        /\ line[nl + vl + 3] = LF

(* A line is its name, a colon and a blank, its value and a line feed. *)
LEMMA LineIs ==
    ASSUME NEW T, Marks \subseteq T, NEW name \in Seq(T), NEW val \in Seq(T)
    PROVE  Lined(T, Line(name, val), name, val)
<1> DEFINE mark  == ":"
           colon == <<mark, SPACE>>
           end   == <<LF>>
           a == name \o colon
           b == a \o val
           l == b \o end
<1>1. Line(name, val) = l
  <2>1. Text(": ") = <<":", SPACE>>
    BY TextAssumption, LettersAssumption DEF SPACE
  <2>2. QED
    BY <2>1, Zenon DEF Line
<1>2. mark \in T /\ SPACE \in T /\ LF \in T
  <2>1. mark \in Marks /\ SPACE \in Marks /\ LF \in Marks
    BY Zenon DEF Marks
  <2> HIDE DEF mark
  <2>2. QED
    BY <2>1
<1> HIDE DEF mark
<1>3. colon \in Seq(T) /\ Len(colon) = 2 /\ colon[1] = mark /\ colon[2] = SPACE
      /\ end \in Seq(T) /\ Len(end) = 1 /\ end[1] = LF
  BY <1>2
<1> HIDE DEF colon, end
<1>4. /\ a \in Seq(T) /\ Len(a) = Len(name) + 2
      /\ \A d \in 1 .. Len(name) : a[d] = name[d]
      /\ a[Len(name) + 1] = mark /\ a[Len(name) + 2] = SPACE
  <2>1. 1 \in 1 .. Len(colon) /\ 2 \in 1 .. Len(colon)
    BY <1>3
  <2>2. /\ a \in Seq(T) /\ Len(a) = Len(name) + Len(colon)
        /\ \A d \in 1 .. Len(name) : a[d] = name[d]
        /\ \A d \in 1 .. Len(colon) : a[Len(name) + d] = colon[d]
    <3>1. Follows(T, a, name, colon)
      BY <1>3, Joined, Zenon
    <3> HIDE DEF a
    <3>2. QED
      BY <3>1 DEF Follows
  <2> HIDE DEF a
  <2>3. a[Len(name) + 1] = colon[1] /\ a[Len(name) + 2] = colon[2]
    BY <2>1, <2>2
  <2>4. QED
    BY <1>3, <2>2, <2>3
<1> HIDE DEF a
<1>5. /\ b \in Seq(T) /\ Len(b) = Len(name) + 2 + Len(val)
      /\ \A d \in 1 .. Len(name) + 2 : b[d] = a[d]
      /\ \A d \in 1 .. Len(val) : b[Len(name) + 2 + d] = val[d]
  <2>1. /\ b \in Seq(T) /\ Len(b) = Len(a) + Len(val)
        /\ \A d \in 1 .. Len(a) : b[d] = a[d]
        /\ \A d \in 1 .. Len(val) : b[Len(a) + d] = val[d]
    <3>1. Follows(T, b, a, val)
      BY <1>4, Joined, Zenon
    <3> HIDE DEF b
    <3>2. QED
      BY <3>1 DEF Follows
  <2> HIDE DEF b
  <2>2. QED
    BY <1>4, <2>1
<1> HIDE DEF b
<1>6. /\ l \in Seq(T) /\ Len(l) = Len(name) + Len(val) + 3
      /\ \A d \in 1 .. Len(b) : l[d] = b[d]
      /\ l[Len(name) + Len(val) + 3] = LF
  <2>1. /\ l \in Seq(T) /\ Len(l) = Len(b) + Len(end)
        /\ \A d \in 1 .. Len(b) : l[d] = b[d]
        /\ \A d \in 1 .. Len(end) : l[Len(b) + d] = end[d]
    <3>1. Follows(T, l, b, end)
      BY <1>3, <1>5, Joined, Zenon
    <3> HIDE DEF l
    <3>2. QED
      BY <3>1 DEF Follows
  <2> HIDE DEF l
  <2>2. 1 \in 1 .. Len(end) /\ Len(b) + 1 = Len(name) + Len(val) + 3
        /\ Len(b) + Len(end) = Len(name) + Len(val) + 3
    BY <1>3, <1>5
  <2>3. l[Len(b) + 1] = end[1]
    BY <2>1, <2>2
  <2>4. QED
    BY <1>3, <2>1, <2>2, <2>3
<1> HIDE DEF l
<1>7. \A d \in 1 .. Len(name) : l[d] = name[d]
  <2> TAKE d \in 1 .. Len(name)
  <2>1. d \in 1 .. Len(name) + 2 /\ d \in 1 .. Len(b)
    BY <1>5
  <2>2. QED
    BY <1>4, <1>5, <1>6, <2>1
<1>8. l[Len(name) + 1] = mark /\ l[Len(name) + 2] = SPACE
  <2>1. Len(name) + 1 \in 1 .. Len(name) + 2 /\ Len(name) + 1 \in 1 .. Len(b)
        /\ Len(name) + 2 \in 1 .. Len(name) + 2 /\ Len(name) + 2 \in 1 .. Len(b)
    BY <1>5
  <2>2. QED
    BY <1>4, <1>5, <1>6, <2>1
<1>9. \A d \in 1 .. Len(val) : l[Len(name) + 2 + d] = val[d]
  <2> TAKE d \in 1 .. Len(val)
  <2>1. Len(name) + 2 + d \in 1 .. Len(b)
    BY <1>5
  <2>2. QED
    BY <1>5, <1>6, <2>1
<1>10. QED
  BY <1>1, <1>6, <1>7, <1>8, <1>9, Zenon DEF mark, Lined

(* The lines of a message: nothing where one is left out. *)
LEMMA LinesAre ==
    ASSUME NEW m, Sendable(m), NEW c \in 0 .. MaxLength
    PROVE  /\ HeaderLines(m, c) \in Seq(Seq(Letters(m))) /\ Len(HeaderLines(m, c)) = Count(m)
           /\ \A i \in 1 .. Count(m) : HeaderLines(m, c)[i] =
                 IF Skipped(m, i) THEN <<>> ELSE Line(Name(m, c, i), Value(m, c, i))
<1> DEFINE T == Letters(m)
           n == Count(m)
           L(i) == IF Skipped(m, i) THEN <<>> ELSE Line(Name(m, c, i), Value(m, c, i))
           lines == [i \in 1 .. n |-> L(i)]
<1>1. n \in Nat /\ Len(AllHeaders(m, c)) = n
  BY HeadersAre
<1>2. HeaderLines(m, c) = lines
  BY <1>1 DEF HeaderLines, Name, Value
<1>3. \A i \in 1 .. n : L(i) \in Seq(T)
  <2> TAKE i \in 1 .. n
  <2>1. <<>> \in Seq(T)
    OBVIOUS
  <2>2. Marks \subseteq T
    BY DEF Letters
  <2>3. Name(m, c, i) \in Seq(T) /\ Value(m, c, i) \in Seq(T)
    BY HeaderIs
  <2> HIDE DEF T
  <2>4. Line(Name(m, c, i), Value(m, c, i)) \in Seq(T)
    BY <2>2, <2>3, LineIs DEF Lined
  <2>5. QED
    BY <2>1, <2>4
<1> HIDE DEF T, n, L
<1>4. lines \in Seq(Seq(T)) /\ Len(lines) = n /\ \A i \in 1 .. n : lines[i] = L(i)
  BY <1>1, <1>3
<1>5. QED
  BY <1>2, <1>4 DEF T, n, L

(* Four texts, one after the other. *)
FollowFour(T, s, a, b, c, d) ==
    /\ s \in Seq(T) /\ Len(s) = Len(a) + Len(b) + Len(c) + Len(d)
    /\ Len(a) \in Nat /\ Len(b) \in Nat /\ Len(c) \in Nat /\ Len(d) \in Nat
    /\ \A i \in 1 .. Len(a) : s[i] = a[i]
    /\ \A i \in 1 .. Len(b) : s[Len(a) + i] = b[i]
    /\ \A i \in 1 .. Len(c) : s[Len(a) + Len(b) + i] = c[i]
    /\ \A i \in 1 .. Len(d) : s[Len(a) + Len(b) + Len(c) + i] = d[i]

(* Four texts, one after the other. *)
LEMMA JoinedFour ==
    ASSUME NEW T, NEW a \in Seq(T), NEW b \in Seq(T), NEW c \in Seq(T), NEW d \in Seq(T)
    PROVE  FollowFour(T, a \o b \o c \o d, a, b, c, d)
<1> DEFINE x == a \o b
           y == x \o c
           s == y \o d
<1>1. /\ x \in Seq(T) /\ Len(x) = Len(a) + Len(b)
      /\ Len(a) \in Nat /\ Len(b) \in Nat
      /\ \A i \in 1 .. Len(a) : x[i] = a[i]
      /\ \A i \in 1 .. Len(b) : x[Len(a) + i] = b[i]
  <2>1. Follows(T, x, a, b)
    BY Joined, Zenon
  <2> HIDE DEF x
  <2>2. QED
    BY <2>1 DEF Follows
<1> HIDE DEF x
<1>2. /\ y \in Seq(T) /\ Len(y) = Len(x) + Len(c)
      /\ Len(x) \in Nat /\ Len(c) \in Nat
      /\ \A i \in 1 .. Len(x) : y[i] = x[i]
      /\ \A i \in 1 .. Len(c) : y[Len(x) + i] = c[i]
  <2>1. Follows(T, y, x, c)
    BY <1>1, Joined, Zenon
  <2> HIDE DEF y
  <2>2. QED
    BY <2>1 DEF Follows
<1> HIDE DEF y
<1>3. /\ s \in Seq(T) /\ Len(s) = Len(y) + Len(d)
      /\ Len(y) \in Nat /\ Len(d) \in Nat
      /\ \A i \in 1 .. Len(y) : s[i] = y[i]
      /\ \A i \in 1 .. Len(d) : s[Len(y) + i] = d[i]
  <2>1. Follows(T, s, y, d)
    BY <1>2, Joined, Zenon
  <2> HIDE DEF s
  <2>2. QED
    BY <2>1 DEF Follows
<1> HIDE DEF s
<1>4. \A i \in 1 .. Len(a) : s[i] = a[i]
  <2> TAKE i \in 1 .. Len(a)
  <2>1. i \in 1 .. Len(x) /\ i \in 1 .. Len(y)
    BY <1>1, <1>2
  <2>2. QED
    BY <1>1, <1>2, <1>3, <2>1
<1>5. \A i \in 1 .. Len(b) : s[Len(a) + i] = b[i]
  <2> TAKE i \in 1 .. Len(b)
  <2>1. Len(a) + i \in 1 .. Len(x) /\ Len(a) + i \in 1 .. Len(y)
    BY <1>1, <1>2
  <2>2. s[Len(a) + i] = y[Len(a) + i] /\ y[Len(a) + i] = x[Len(a) + i]
    BY <1>2, <1>3, <2>1
  <2>3. QED
    BY <1>1, <2>2
<1>6. \A i \in 1 .. Len(c) : s[Len(a) + Len(b) + i] = c[i]
  <2> TAKE i \in 1 .. Len(c)
  <2>1. Len(x) + i \in 1 .. Len(y)
    BY <1>1, <1>2
  <2>2. s[Len(x) + i] = c[i]
    BY <1>2, <1>3, <2>1
  <2>3. QED
    BY <1>1, <2>2
<1>7. \A i \in 1 .. Len(d) : s[Len(a) + Len(b) + Len(c) + i] = d[i]
  BY <1>1, <1>2, <1>3
<1>8. Len(s) = Len(a) + Len(b) + Len(c) + Len(d)
  BY <1>1, <1>2, <1>3
<1>9. QED
  BY <1>1, <1>2, <1>3, <1>4, <1>5, <1>6, <1>7, <1>8, Zenon DEF s, y, x, FollowFour

(* The letters of the texts that every start line has. *)
Ten(s, a, b, c, d, e, f, g, h, i, j) ==
    /\ Len(s) = 10 /\ s \in Seq({a, b, c, d, e, f, g, h, i, j})
    /\ s[1] = a /\ s[2] = b /\ s[3] = c /\ s[4] = d /\ s[5] = e
    /\ s[6] = f /\ s[7] = g /\ s[8] = h /\ s[9] = i /\ s[10] = j

(* A tuple of ten has ten places. *)
LEMMA TenLetters ==
    ASSUME NEW a, NEW b, NEW c, NEW d, NEW e, NEW f, NEW g, NEW h, NEW i, NEW j
    PROVE  Ten(<<a, b, c, d, e, f, g, h, i, j>>, a, b, c, d, e, f, g, h, i, j)
BY DEF Ten

Nine(s, a, b, c, d, e, f, g, h, i) ==
    /\ Len(s) = 9 /\ s \in Seq({a, b, c, d, e, f, g, h, i})
    /\ s[1] = a /\ s[2] = b /\ s[3] = c /\ s[4] = d /\ s[5] = e
    /\ s[6] = f /\ s[7] = g /\ s[8] = h /\ s[9] = i

(* A tuple of nine has nine places. *)
LEMMA NineLetters ==
    ASSUME NEW a, NEW b, NEW c, NEW d, NEW e, NEW f, NEW g, NEW h, NEW i
    PROVE  Nine(<<a, b, c, d, e, f, g, h, i>>, a, b, c, d, e, f, g, h, i)
BY DEF Nine

(* The end of a request line, letter by letter. *)
LEMMA VersionText ==
    LET s == Text(" HTTP/1.1\n")
    IN  /\ Len(s) = 10 /\ s \in Seq(Marks)
        /\ s[1] = SPACE /\ s[2] = "H" /\ s[3] = "T" /\ s[4] = "T" /\ s[5] = "P"
        /\ s[6] = "/" /\ s[7] = "1" /\ s[8] = "." /\ s[9] = "1" /\ s[10] = LF
<1> DEFINE A == {" ", "H", "T", "P", "/", "1", ".", LF}
           s == Text(" HTTP/1.1\n")
<1>1. s = <<" ", "H", "T", "T", "P", "/", "1", ".", "1", LF>>
  BY TextAssumption, LettersAssumption
<1>2. /\ Len(s) = 10 /\ s \in Seq({" ", "H", "T", "T", "P", "/", "1", ".", "1", LF})
      /\ s[1] = " " /\ s[2] = "H" /\ s[3] = "T" /\ s[4] = "T" /\ s[5] = "P"
      /\ s[6] = "/" /\ s[7] = "1" /\ s[8] = "." /\ s[9] = "1" /\ s[10] = LF
  <2>1. Ten(<<" ", "H", "T", "T", "P", "/", "1", ".", "1", LF>>,
            " ", "H", "T", "T", "P", "/", "1", ".", "1", LF)
    BY TenLetters, Zenon
  <2>2. Ten(s, " ", "H", "T", "T", "P", "/", "1", ".", "1", LF)
    BY <1>1, <2>1, Zenon
  <2> HIDE DEF s
  <2>3. QED
    BY <2>2, Zenon DEF Ten
<1> HIDE DEF s
<1>3. {" ", "H", "T", "T", "P", "/", "1", ".", "1", LF} \subseteq Marks
  BY Zenon DEF Marks, SPACE
<1>4. s \in Seq(Marks)
  BY <1>2, <1>3, SeqLarger, Zenon
<1>5. QED
  BY <1>2, <1>4, Zenon DEF s, SPACE

(* The beginning of a status line, letter by letter. *)
LEMMA StatusText ==
    LET s == Text("HTTP/1.1 ")
    IN  /\ Len(s) = 9 /\ s \in Seq(Marks)
        /\ s[1] = "H" /\ s[2] = "T" /\ s[3] = "T" /\ s[4] = "P" /\ s[5] = "/"
        /\ s[6] = "1" /\ s[7] = "." /\ s[8] = "1" /\ s[9] = SPACE
<1> DEFINE s == Text("HTTP/1.1 ")
<1>1. s = <<"H", "T", "T", "P", "/", "1", ".", "1", " ">>
  BY TextAssumption, LettersAssumption
<1>2. /\ Len(s) = 9 /\ s \in Seq({"H", "T", "T", "P", "/", "1", ".", "1", " "})
      /\ s[1] = "H" /\ s[2] = "T" /\ s[3] = "T" /\ s[4] = "P" /\ s[5] = "/"
      /\ s[6] = "1" /\ s[7] = "." /\ s[8] = "1" /\ s[9] = " "
  <2>1. Nine(<<"H", "T", "T", "P", "/", "1", ".", "1", " ">>,
             "H", "T", "T", "P", "/", "1", ".", "1", " ")
    BY NineLetters, Zenon
  <2>2. Nine(s, "H", "T", "T", "P", "/", "1", ".", "1", " ")
    BY <1>1, <2>1, Zenon
  <2> HIDE DEF s
  <2>3. QED
    BY <2>2, Zenon DEF Nine
<1> HIDE DEF s
<1>3. {"H", "T", "T", "P", "/", "1", ".", "1", " "} \subseteq Marks
  BY Zenon DEF Marks, SPACE
<1>4. s \in Seq(Marks)
  BY <1>2, <1>3, SeqLarger, Zenon
<1>5. QED
  BY <1>2, <1>4, Zenon DEF s, SPACE

(* The bytes of a request's line. *)
VersionLetters == Text(" HTTP/1.1\n")

RequestLine(T, line, name, path) ==
    LET ml == Len(name)
        pl == Len(path)
    IN  /\ line \in Seq(T) /\ Len(line) = ml + pl + 11
        /\ ml \in 1 .. 16 /\ pl \in Nat \ {0}
        /\ \A i \in 1 .. ml : line[i] = Nth(name, i - 1)
        /\ line[ml + 1] = SPACE
        /\ \A i \in 1 .. pl : line[ml + 1 + i] = path[i]
        /\ \A i \in 1 .. 10 : line[ml + 1 + pl + i] = VersionLetters[i]

(* A request line, letter by letter. *)
LEMMA RequestLineIs ==
    ASSUME NEW m, Sendable(m), m.type = "HTTP_REQUEST"
    PROVE  RequestLine(Letters(m), StartLine(m), m.method, m.path)
<1> DEFINE T == Letters(m)
           a == Text(m.method)
           b == <<SPACE>>
           c == m.path
           d == Text(" HTTP/1.1\n")
           s == a \o b \o c \o d
<1>1. StartLine(m) = s
  BY Zenon DEF StartLine, SPACE
<1>2. STRING \subseteq T /\ Marks \subseteq T /\ {SubSeq(m.method, i, i) : i \in 1 .. Len(m.method)} \subseteq T
  BY DEF Letters
<1>3. m.method \in MethodNames /\ c # <<>> /\ c \in Seq(STRING)
  BY SendableParts, Zenon
<1>4. Len(m.method) \in 1 .. 16
  BY <1>3, LengthAssumption
<1>5. SPACE \in T
  BY <1>2, Zenon DEF Marks
<1> HIDE DEF T
<1>6. Len(m.method) \in Nat
  BY <1>4
<1>7. a \in Seq(T) /\ Len(a) = Len(m.method) /\ \A i \in 1 .. Len(m.method) : a[i] = Nth(m.method, i - 1)
  <2> DEFINE E == {SubSeq(m.method, i, i) : i \in 1 .. Len(m.method)}
  <2>1. /\ Text(m.method) \in Seq(E) /\ Len(Text(m.method)) = Len(m.method)
        /\ \A i \in 1 .. Len(m.method) : Text(m.method)[i] = SubSeq(m.method, i, i)
                                         /\ Text(m.method)[i] = Nth(m.method, i - 1)
    BY <1>6, TextIs
  <2>2. E \subseteq T
    BY <1>2
  <2> HIDE DEF E
  <2>3. a \in Seq(T)
    BY <2>1, <2>2, SeqLarger, Zenon
  <2>4. QED
    BY <2>1, <2>3, Zenon
<1>8. b \in Seq(T) /\ Len(b) = 1 /\ b[1] = SPACE
  BY <1>5
<1>9. c \in Seq(T) /\ Len(c) \in Nat \ {0}
  <2>1. Len(c) \in Nat \ {0}
    BY <1>3
  <2>2. c \in Seq(T)
    BY <1>2, <1>3, SeqLarger, Zenon
  <2>3. QED
    BY <2>1, <2>2
<1>10. d \in Seq(T) /\ Len(d) = 10
  BY <1>2, VersionText, SeqLarger, Zenon
<1> HIDE DEF a, b, c, d
<1>11. /\ s \in Seq(T) /\ Len(s) = Len(a) + Len(b) + Len(c) + Len(d)
       /\ \A i \in 1 .. Len(a) : s[i] = a[i]
       /\ \A i \in 1 .. Len(b) : s[Len(a) + i] = b[i]
       /\ \A i \in 1 .. Len(c) : s[Len(a) + Len(b) + i] = c[i]
       /\ \A i \in 1 .. Len(d) : s[Len(a) + Len(b) + Len(c) + i] = d[i]
  <2>1. FollowFour(T, s, a, b, c, d)
    BY <1>7, <1>8, <1>9, <1>10, JoinedFour, Zenon
  <2> HIDE DEF s
  <2>2. QED
    BY <2>1 DEF FollowFour
<1> HIDE DEF s
<1>12. Len(s) = Len(m.method) + Len(c) + 11
  BY <1>6, <1>7, <1>8, <1>9, <1>10, <1>11
<1>13. \A i \in 1 .. Len(m.method) : s[i] = Nth(m.method, i - 1)
  BY <1>7, <1>11
<1>14. s[Len(m.method) + 1] = SPACE
  BY <1>7, <1>8, <1>11
<1>15. \A i \in 1 .. Len(c) : s[Len(m.method) + 1 + i] = c[i]
  BY <1>7, <1>8, <1>11
<1>16. \A i \in 1 .. 10 : s[Len(m.method) + 1 + Len(c) + i] = d[i]
  BY <1>7, <1>8, <1>10, <1>11
<1>17. QED
  BY <1>1, <1>4, <1>9, <1>11, <1>12, <1>13, <1>14, <1>15, <1>16, Zenon DEF T, c, d, RequestLine, VersionLetters

(* Every status has three digits. *)
LEMMA StatusIs ==
    ASSUME NEW n \in status_strings
    PROVE  n \in 0 .. MaxLength /\ n > 99
<1>1. n \in 100 .. 600
  BY DEF status_strings
<1>2. QED
  BY <1>1 DEF MaxLength

(* The bytes of a response's line. *)
StatusLetters == Text("HTTP/1.1 ")

StatusLine(T, line, v) ==
    /\ line \in Seq(T) /\ Len(line) = 16
    /\ \A i \in 1 .. 9 : line[i] = StatusLetters[i]
    /\ line[10] \in NUM /\ Digit[line[10]] = v \div 100
    /\ line[11] \in NUM /\ v \div 10 = 10 * (v \div 100) + Digit[line[11]]
    /\ line[12] \in NUM /\ v = 10 * (v \div 10) + Digit[line[12]]
    /\ line[13] = SPACE /\ line[14] = "O" /\ line[15] = "K" /\ line[16] = LF
    /\ v \in 100 .. 999

(* A status line, letter by letter. *)
LEMMA StatusLineIs ==
    ASSUME NEW m, Sendable(m), m.type = "HTTP_RESPONSE"
    PROVE  StatusLine(Letters(m), StartLine(m), m.status)
<1> DEFINE T == Letters(m)
           v == m.status
           a == Text("HTTP/1.1 ")
           b == to_string(v)
           c == <<SPACE>>
           d == Text(Phrase)
           e == <<LF>>
           s == a \o b \o c \o d
           t == s \o e
<1>1. StartLine(m) = t
  <2>1. m.type # "HTTP_REQUEST"
    OBVIOUS
  <2>2. QED
    BY <2>1, Zenon DEF StartLine, SPACE
<1>2. v \in 0 .. MaxLength /\ v > 99
  BY SendableParts, StatusIs
<1>3. Marks \subseteq T /\ NUM \subseteq T
  BY DEF Letters
<1>4. SPACE \in T /\ LF \in T /\ "O" \in T /\ "K" \in T
  BY <1>3, Zenon DEF Marks
<1> HIDE DEF T, v
<1>5. a \in Seq(T) /\ Len(a) = 9
  BY <1>3, StatusText, SeqLarger, Zenon
<1>6. /\ b \in Seq(NUM) /\ Len(b) = 3 /\ Leading(v, 1) = Digit[b[1]] /\ Leading(v, Len(b)) = v
      /\ \A i \in 1 .. Len(b) - 1 : Leading(v, i + 1) = 10 * Leading(v, i) + Digit[b[i + 1]]
  BY <1>2, WrittenLength
<1>7. b \in Seq(T)
  BY <1>3, <1>6, SeqLarger
<1>8. c \in Seq(T) /\ Len(c) = 1 /\ c[1] = SPACE
  BY <1>4
<1>9. d = <<"O", "K">>
  BY TextAssumption, LettersAssumption, Zenon
<1>10. d \in Seq(T) /\ Len(d) = 2 /\ d[1] = "O" /\ d[2] = "K"
  BY <1>4, <1>9
<1>11. e \in Seq(T) /\ Len(e) = 1 /\ e[1] = LF
  BY <1>4
<1> HIDE DEF a, b, c, d, e
<1>12. /\ s \in Seq(T) /\ Len(s) = Len(a) + Len(b) + Len(c) + Len(d)
       /\ \A i \in 1 .. Len(a) : s[i] = a[i]
       /\ \A i \in 1 .. Len(b) : s[Len(a) + i] = b[i]
       /\ \A i \in 1 .. Len(c) : s[Len(a) + Len(b) + i] = c[i]
       /\ \A i \in 1 .. Len(d) : s[Len(a) + Len(b) + Len(c) + i] = d[i]
  <2>1. FollowFour(T, s, a, b, c, d)
    BY <1>5, <1>7, <1>8, <1>10, JoinedFour, Zenon
  <2> HIDE DEF s
  <2>2. QED
    BY <2>1 DEF FollowFour
<1> HIDE DEF s
<1>13. /\ t \in Seq(T) /\ Len(t) = Len(s) + Len(e)
       /\ \A i \in 1 .. Len(s) : t[i] = s[i]
       /\ \A i \in 1 .. Len(e) : t[Len(s) + i] = e[i]
  <2>1. Follows(T, t, s, e)
    BY <1>11, <1>12, Joined, Zenon
  <2> HIDE DEF t
  <2>2. QED
    BY <2>1 DEF Follows
<1> HIDE DEF t
<1>14. Len(s) = 15 /\ Len(t) = 16
  BY <1>5, <1>6, <1>8, <1>10, <1>11, <1>12, <1>13
<1>15. \A i \in 1 .. 9 : t[i] = a[i]
  <2> TAKE i \in 1 .. 9
  <2>1. i \in 1 .. Len(a) /\ i \in 1 .. Len(s)
    BY <1>5, <1>14
  <2>2. QED
    BY <1>12, <1>13, <2>1
<1>16. t[10] = b[1] /\ t[11] = b[2] /\ t[12] = b[3]
  <2>1. 1 \in 1 .. Len(b) /\ 2 \in 1 .. Len(b) /\ 3 \in 1 .. Len(b)
    BY <1>6
  <2>2. s[Len(a) + 1] = b[1] /\ s[Len(a) + 2] = b[2] /\ s[Len(a) + 3] = b[3]
    BY <1>12, <2>1
  <2>3. QED
    BY <1>5, <1>13, <1>14, <2>2
<1>17. t[13] = SPACE /\ t[14] = "O" /\ t[15] = "K" /\ t[16] = LF
  <2>1. 1 \in 1 .. Len(c) /\ 1 \in 1 .. Len(d) /\ 2 \in 1 .. Len(d) /\ 1 \in 1 .. Len(e)
    BY <1>8, <1>10, <1>11
  <2>2. s[Len(a) + Len(b) + 1] = c[1]
    BY <1>12, <2>1
  <2>3. s[Len(a) + Len(b) + Len(c) + 1] = d[1] /\ s[Len(a) + Len(b) + Len(c) + 2] = d[2]
    BY <1>12, <2>1
  <2>4. t[Len(s) + 1] = e[1]
    BY <1>13, <2>1
  <2>5. s[13] = c[1] /\ s[14] = d[1] /\ s[15] = d[2]
    BY <1>5, <1>6, <1>8, <2>2, <2>3
  <2>6. QED
    BY <1>8, <1>10, <1>11, <1>13, <1>14, <2>4, <2>5
<1>18. Leading(v, 1) = v \div 100 /\ Leading(v, 2) = v \div 10 /\ Leading(v, 3) = v
  <2>1. v > 99
    BY <1>2
  <2>2. QED
    BY <2>1 DEF Leading
<1>19. b[1] \in NUM /\ b[2] \in NUM /\ b[3] \in NUM
  <2>1. b \in Seq(NUM) /\ Len(b) = 3
    BY <1>6
  <2>2. QED
    BY <2>1, SMTT(40)
<1>20. v \div 10 = 10 * (v \div 100) + Digit[b[2]] /\ v = 10 * (v \div 10) + Digit[b[3]]
  <2>1. 1 \in 1 .. Len(b) - 1 /\ 2 \in 1 .. Len(b) - 1
    BY <1>6
  <2>2. Leading(v, 1 + 1) = 10 * Leading(v, 1) + Digit[b[1 + 1]]
    BY <1>6, <2>1, Zenon
  <2>3. Leading(v, 2 + 1) = 10 * Leading(v, 2) + Digit[b[2 + 1]]
    BY <1>6, <2>1, Zenon
  <2>4. 1 + 1 = 2 /\ 2 + 1 = 3
    OBVIOUS
  <2>5. QED
    BY <1>18, <2>2, <2>3, <2>4, Zenon
<1>21. Digit[b[1]] = v \div 100
  BY <1>6, <1>18
<1>22. v \in 100 .. 999
  BY <1>2 DEF MaxLength
<1>23. QED
  BY <1>1, <1>13, <1>14, <1>15, <1>16, <1>17, <1>19, <1>20, <1>21, <1>22, ZenonT(40) DEF T, v, a, StatusLine, StatusLetters

(* A text with one more letter. *)
LEMMA Appended ==
    ASSUME NEW T, NEW s \in Seq(T), NEW x \in T
    PROVE  /\ Append(s, x) \in Seq(T) /\ Len(Append(s, x)) = Len(s) + 1 /\ Append(s, x)[Len(s) + 1] = x
           /\ \A i \in 1 .. Len(s) : Append(s, x)[i] = s[i]
OBVIOUS

(* Every start line is a text, and not empty. *)
LEMMA StartLineIs ==
    ASSUME NEW m, Sendable(m)
    PROVE  StartLine(m) \in Seq(Letters(m)) /\ Len(StartLine(m)) \in Nat \ {0}
<1>1. CASE m.type = "HTTP_REQUEST"
  <2>1. /\ StartLine(m) \in Seq(Letters(m)) /\ Len(StartLine(m)) = Len(m.method) + Len(m.path) + 11
        /\ Len(m.method) \in 1 .. 16 /\ Len(m.path) \in Nat \ {0}
    <3>1. RequestLine(Letters(m), StartLine(m), m.method, m.path)
      BY <1>1, RequestLineIs, Zenon
    <3>2. QED
      BY <3>1, Zenon DEF RequestLine
  <2>2. \A a, b \in Nat : a + b + 11 \in Nat \ {0}
    OBVIOUS
  <2>3. Len(m.method) \in Nat /\ Len(m.path) \in Nat
    BY <2>1
  <2>4. QED
    BY <2>1, <2>2, <2>3, Zenon
<1>2. CASE m.type = "HTTP_RESPONSE"
  <2>1. StartLine(m) \in Seq(Letters(m)) /\ Len(StartLine(m)) = 16
    <3>1. StatusLine(Letters(m), StartLine(m), m.status)
      BY <1>2, StatusLineIs, Zenon
    <3>2. QED
      BY <3>1, ZenonT(40) DEF StatusLine
  <2>2. QED
    BY <2>1
<1>3. QED
  BY <1>1, <1>2, SendableParts, Zenon

(* Where lines begin. *)
LEMMA StartIs ==
    ASSUME NEW m, Sendable(m), NEW c \in 0 .. MaxLength
    PROVE  /\ Start(m, c, 1) = Len(StartLine(m))
           /\ \A i \in 1 .. Count(m) + 1 : Start(m, c, i) \in Nat /\ Start(m, c, i) > 0
           /\ \A i \in 1 .. Count(m) : Start(m, c, i + 1) = Start(m, c, i) + Len(HeaderLines(m, c)[i])
           /\ Start(m, c, Count(m) + 1) = Len(StartLine(m)) + Len(S!FlattenSeq(HeaderLines(m, c)))
<1> DEFINE T == Letters(m)
           lines == HeaderLines(m, c)
           n == Count(m)
           F(i) == S!FlattenSeq(First(lines, i))
           a == Len(StartLine(m))
<1>1. lines \in Seq(Seq(T)) /\ Len(lines) = n
  BY LinesAre, Zenon
<1>2. a \in Nat \ {0}
  BY StartLineIs
<1>3. \A i : Start(m, c, i) = a + Len(F(i - 1))
  BY DEF Start
<1>4. n \in Nat
  BY <1>1
<1> HIDE DEF T, lines, n, a
<1>5. \A i \in 0 .. n : F(i) \in Seq(T)
  BY <1>1, FlattenFirst, Zenon
<1>6. F(0) = <<>> /\ F(n) = S!FlattenSeq(lines)
  <2>1. 0 \in 0 .. Len(lines) /\ n \in 0 .. Len(lines)
    BY <1>1, <1>4
  <2>2. F(0) = <<>>
    BY <1>1, <2>1, FlattenFirst, Zenon
  <2>3. First(lines, n) = lines
    BY <1>1, <2>1, FlattenFirst, Zenon
  <2>4. QED
    BY <2>2, <2>3
<1>7. \A i \in 1 .. n : Len(F(i)) = Len(F(i - 1)) + Len(lines[i])
  BY <1>1, FlattenAt, Zenon
<1> HIDE DEF F
<1>8. Start(m, c, 1) = a
  <2>1. Start(m, c, 1) = a + Len(F(1 - 1)) /\ 1 - 1 = 0
    BY <1>3
  <2>2. Len(F(0)) = 0
    BY <1>6
  <2>3. QED
    BY <1>2, <2>1, <2>2
<1>9. \A i \in 1 .. n + 1 : Start(m, c, i) \in Nat /\ Start(m, c, i) > 0
  <2> TAKE i \in 1 .. n + 1
  <2>1. i - 1 \in 0 .. n
    BY <1>4
  <2>2. Len(F(i - 1)) \in Nat
    BY <1>5, <2>1
  <2>3. QED
    BY <1>2, <1>3, <2>2
<1>10. \A i \in 1 .. n : Start(m, c, i + 1) = Start(m, c, i) + Len(lines[i])
  <2> TAKE i \in 1 .. n
  <2>1. i - 1 \in 0 .. n /\ i \in 0 .. n /\ i + 1 - 1 = i
    BY <1>4
  <2>2. Len(F(i - 1)) \in Nat /\ Len(lines[i]) \in Nat
    BY <1>1, <1>5, <2>1
  <2>3. Start(m, c, i + 1) = a + Len(F(i + 1 - 1)) /\ Start(m, c, i) = a + Len(F(i - 1))
    BY <1>3
  <2>4. Len(F(i)) = Len(F(i - 1)) + Len(lines[i])
    BY <1>7
  <2>5. Start(m, c, i + 1) = a + Len(F(i))
    BY <2>1, <2>3
  <2> DEFINE g == Len(F(i - 1))
             k == Len(lines[i])
             h == Len(F(i))
  <2>6. g \in Int /\ k \in Int /\ a \in Int
    BY <1>2, <2>2
  <2>9. h = g + k /\ Start(m, c, i) = a + g /\ Start(m, c, i + 1) = a + h
    BY <2>3, <2>4, <2>5, Zenon
  <2> HIDE DEF g, k, h
  <2>7. Start(m, c, i + 1) = Start(m, c, i) + k
    BY <2>6, <2>9
  <2>8. QED
    BY <2>7 DEF k
<1>11. Start(m, c, n + 1) = a + Len(S!FlattenSeq(lines))
  <2>1. Start(m, c, n + 1) = a + Len(F(n + 1 - 1)) /\ n + 1 - 1 = n
    BY <1>3, <1>4
  <2>2. QED
    BY <1>6, <2>1
<1>12. QED
  BY <1>8, <1>9, <1>10, <1>11 DEF lines, n, a

(* The bytes of a message and the NUL after them. *)
WireLayout(m, c, T, bytes, w, e, head, body) ==
    /\ bytes \in Seq(T) /\ w \in Seq(T) /\ e \in Nat /\ Len(body) \in Nat
    /\ Len(bytes) = e + 2 + Len(body) /\ Len(w) = e + 3 + Len(body)
    /\ \A r \in 1 .. Len(head) : w[r] = head[r]
    /\ \A i \in 1 .. Count(m) : \A d \in 1 .. Len(HeaderLines(m, c)[i]) :
          w[Start(m, c, i) + d] = HeaderLines(m, c)[i][d]
    /\ w[e + 1] = CR /\ w[e + 2] = LF
    /\ \A j \in 1 .. Len(body) : w[e + 2 + j] = body[j]
    /\ w[e + 3 + Len(body)] = NUL

(* Where the start line, the lines, the blank line and the body are among the bytes. *)
LEMMA WireIs ==
    ASSUME NEW m, Sendable(m), NEW c \in 0 .. MaxLength
    PROVE  WireLayout(m, c, Letters(m), Bytes(m, c), Append(Bytes(m, c), NUL),
                      Start(m, c, Count(m) + 1), StartLine(m), m.body)
<1> DEFINE T == Letters(m)
           lines == HeaderLines(m, c)
           n == Count(m)
           a == StartLine(m)
           f == S!FlattenSeq(lines)
           b == <<CR, LF>>
           d == m.body
           s == a \o f \o b \o d
           w == Append(s, NUL)
           e == Start(m, c, n + 1)
<1>1. Bytes(m, c) = s
  BY DEF Bytes
<1>2. lines \in Seq(Seq(T)) /\ Len(lines) = n
  BY LinesAre, Zenon
<1>3. STRING \subseteq T /\ Marks \subseteq T
  BY DEF Letters
<1>4. CR \in T /\ LF \in T /\ NUL \in T
  BY <1>3, Zenon DEF Marks
<1>5. a \in Seq(T) /\ Len(a) \in Nat \ {0}
  BY StartLineIs
<1>6. /\ Start(m, c, 1) = Len(a) /\ e = Len(a) + Len(f)
      /\ \A i \in 1 .. n + 1 : Start(m, c, i) \in Nat
  BY StartIs
<1>7. d \in Seq(STRING)
  BY SendableParts, Zenon
<1>8. d \in Seq(T)
  BY <1>3, <1>7, SeqLarger, Zenon
<1>9. \A i \in 1 .. n : Start(m, c, i) = Len(a) + Len(S!FlattenSeq(First(lines, i - 1)))
  BY DEF Start
<1>10. f \in Seq(T)
  <2>1. <<>> \in Seq(T)
    OBVIOUS
  <2>2. QED
    BY <1>2, <2>1, FlattenAppend, Zenon
<1> HIDE DEF T, lines, n, a, d, f, e
<1>11. b \in Seq(T) /\ Len(b) = 2 /\ b[1] = CR /\ b[2] = LF
  BY <1>4
<1> HIDE DEF b
<1>12. /\ s \in Seq(T) /\ Len(s) = Len(a) + Len(f) + Len(b) + Len(d)
       /\ Len(f) \in Nat /\ Len(d) \in Nat
       /\ \A i \in 1 .. Len(a) : s[i] = a[i]
       /\ \A i \in 1 .. Len(f) : s[Len(a) + i] = f[i]
       /\ \A i \in 1 .. Len(b) : s[Len(a) + Len(f) + i] = b[i]
       /\ \A i \in 1 .. Len(d) : s[Len(a) + Len(f) + Len(b) + i] = d[i]
  <2>1. FollowFour(T, s, a, f, b, d)
    BY <1>5, <1>8, <1>10, <1>11, JoinedFour, Zenon
  <2> HIDE DEF s
  <2>2. QED
    BY <2>1 DEF FollowFour
<1> HIDE DEF s
<1>13. Len(s) = e + 2 + Len(d) /\ Len(s) \in Nat /\ e \in Nat
  BY <1>5, <1>6, <1>11, <1>12
<1>14. w \in Seq(T) /\ Len(w) = Len(s) + 1 /\ w[Len(s) + 1] = NUL /\ \A i \in 1 .. Len(s) : w[i] = s[i]
  BY <1>4, <1>12, Appended, SMTT(40)
<1> HIDE DEF w
<1>15. \A r \in 1 .. Len(a) : w[r] = a[r]
  <2> TAKE r \in 1 .. Len(a)
  <2>1. r \in 1 .. Len(s)
    BY <1>5, <1>11, <1>12
  <2>2. QED
    BY <1>12, <1>14, <2>1
<1>16. \A i \in 1 .. n : \A k \in 1 .. Len(lines[i]) : w[Start(m, c, i) + k] = lines[i][k]
  <2> TAKE i \in 1 .. n
  <2> TAKE k \in 1 .. Len(lines[i])
  <2> DEFINE g == S!FlattenSeq(First(lines, i - 1))
  <2>1. /\ Len(g) + Len(lines[i]) <= Len(f)
        /\ \A j \in 1 .. Len(lines[i]) : f[Len(g) + j] = lines[i][j]
    BY <1>2, FlattenAt, Zenon DEF f
  <2>2. Start(m, c, i) = Len(a) + Len(g)
    BY <1>9
  <2>3. Len(g) \in Nat
    <3>1. i \in 1 .. Len(lines) /\ i - 1 \in 0 .. Len(lines)
      BY <1>2
    <3>2. g \in Seq(T)
      BY <1>2, <3>1, FlattenFirst, Zenon
    <3> HIDE DEF g
    <3>3. QED
      BY <3>2
  <2> HIDE DEF g
  <2>4. lines[i] \in Seq(T)
    BY <1>2
  <2>5. Len(g) + k \in 1 .. Len(f) /\ Start(m, c, i) + k = Len(a) + (Len(g) + k)
    BY <1>5, <1>12, <2>1, <2>2, <2>3, <2>4
  <2>6. s[Len(a) + (Len(g) + k)] = f[Len(g) + k]
    BY <1>12, <2>5
  <2>7. Len(a) + (Len(g) + k) \in 1 .. Len(s)
    BY <1>5, <1>11, <1>12, <2>5, SMTT(40)
  <2>8. QED
    BY <1>14, <2>1, <2>5, <2>6, <2>7
<1>17. w[e + 1] = CR /\ w[e + 2] = LF
  <2>1. 1 \in 1 .. Len(b) /\ 2 \in 1 .. Len(b)
    BY <1>11
  <2>2. s[Len(a) + Len(f) + 1] = CR /\ s[Len(a) + Len(f) + 2] = LF
    BY <1>11, <1>12, <2>1
  <2>3. e + 1 \in 1 .. Len(s) /\ e + 2 \in 1 .. Len(s)
    BY <1>12, <1>13
  <2>4. QED
    BY <1>6, <1>14, <2>2, <2>3
<1>18. \A j \in 1 .. Len(d) : w[e + 2 + j] = d[j]
  <2> TAKE j \in 1 .. Len(d)
  <2>1. s[Len(a) + Len(f) + Len(b) + j] = d[j]
    BY <1>12
  <2>2. e + 2 + j \in 1 .. Len(s) /\ e + 2 + j = Len(a) + Len(f) + Len(b) + j
    BY <1>5, <1>6, <1>11, <1>12, <1>13
  <2>3. QED
    BY <1>14, <2>1, <2>2
<1>19. Len(w) = e + 3 + Len(d) /\ w[e + 3 + Len(d)] = NUL
  <2>1. Len(s) + 1 = e + 3 + Len(d)
    <3>1. Len(s) = e + 2 + Len(d) /\ e \in Nat /\ Len(d) \in Nat
      BY <1>12, <1>13
    <3> DEFINE k == Len(d)
    <3> HIDE DEF k
    <3>2. QED
      BY <3>1 DEF k
  <2>2. QED
    BY <1>14, <2>1
<1>20. QED
  BY <1>1, <1>12, <1>13, <1>14, <1>15, <1>16, <1>17, <1>18, <1>19, Zenon DEF T, lines, n, a, d, e, w, WireLayout

(* Names of headers that are not left out differ in more than case. *)
LEMMA KeptNames ==
    ASSUME NEW m, Sendable(m), NEW c \in 0 .. MaxLength,
           NEW j \in 1 .. Count(m), NEW k \in 1 .. Count(m), ~Skipped(m, j), ~Skipped(m, k),
           tolower(Name(m, c, j)) = tolower(Name(m, c, k))
    PROVE  j = k
<1> DEFINE n == Len(m.headers)
           length == Text("content-length")
<1>1. n \in Nat /\ Count(m) = n + 1
  BY HeadersAre DEF Count
<1>2. \A i \in 1 .. n : Name(m, c, i) = m.headers[i][1]
  BY HeadersAre, Zenon
<1>3. tolower(Name(m, c, n + 1)) = length
  <2>1. Name(m, c, Count(m)) = length
    BY HeadersAre, Zenon DEF LengthName
  <2>2. tolower(length) = length
    BY TextAssumption, LettersAssumption, Zenon
  <2>3. QED
    BY <1>1, <2>1, <2>2
<1>4. \A i \in 1 .. n : tolower(Name(m, c, i)) = length => Skipped(m, i)
  <2> TAKE i \in 1 .. n
  <2>1. i <= n
    OBVIOUS
  <2>2. QED
    BY <1>2, <2>1, Zenon DEF Skipped
<1> HIDE DEF length
<1>5. j \in 1 .. n \/ j = n + 1
  BY <1>1
<1>6. k \in 1 .. n \/ k = n + 1
  BY <1>1
<1>7. CASE j \in 1 .. n /\ k \in 1 .. n
  BY <1>2, <1>7, SendableParts, Zenon
<1>8. CASE j = n + 1 \/ k = n + 1
  BY <1>3, <1>4, <1>5, <1>6, <1>8, Zenon
<1>9. QED
  BY <1>5, <1>6, <1>7, <1>8

(* A header among those that are known. *)
WithHeader(headers, key, val) ==
    [name \in DOMAIN headers \cup {key} |-> IF name = key THEN val ELSE headers[name]]

(* What is known of the headers when a line has been read. *)
LEMMA HeadersNext ==
    ASSUME NEW m, Sendable(m), NEW c \in 0 .. MaxLength, NEW i \in 1 .. Count(m), ~Skipped(m, i)
    PROVE  HeadersBefore(m, c, i + 1) = WithHeader(HeadersBefore(m, c, i), tolower(Name(m, c, i)), Value(m, c, i))
<1> DEFINE K == KeptBefore(m, i)
           L == KeptBefore(m, i + 1)
           N(j) == tolower(Name(m, c, j))
           V(j) == Value(m, c, j)
           Chosen(A, name) == CHOOSE j \in A : N(j) = name
           before == [name \in {N(j) : j \in K} |-> V(Chosen(K, name))]
           after  == [name \in {N(j) : j \in L} |-> V(Chosen(L, name))]
           made   == [name \in DOMAIN before \cup {N(i)} |-> IF name = N(i) THEN V(i) ELSE before[name]]
<1>1. Count(m) \in Nat
  BY HeadersAre
<1>2. L = K \cup {i} /\ i \notin K /\ L \subseteq 1 .. Count(m)
  BY <1>1 DEF KeptBefore
<1>3. \A j, k \in L : N(j) = N(k) => j = k
  <2>1. \A j \in L : ~Skipped(m, j)
    BY DEF KeptBefore
  <2>2. QED
    BY <1>2, <2>1, KeptNames, Zenon
<1>4. HeadersBefore(m, c, i) = before /\ HeadersBefore(m, c, i + 1) = after
  BY DEF HeadersBefore
<1> HIDE DEF K, L, N, V
<1>5. \A A : \A j \in A : A \subseteq L => Chosen(A, N(j)) = j
  <2> SUFFICES ASSUME NEW A, NEW j \in A, A \subseteq L
               PROVE  Chosen(A, N(j)) = j
    BY Zenon
  <2>1. Chosen(A, N(j)) \in A /\ N(Chosen(A, N(j))) = N(j)
    BY Zenon
  <2>2. QED
    BY <1>3, <2>1, Zenon
<1>6. {N(j) : j \in L} = {N(j) : j \in K} \cup {N(i)}
  BY <1>2
<1> DEFINE D == {N(j) : j \in K}
           E == {N(j) : j \in L}
<1>7. DOMAIN before = D /\ DOMAIN after = E /\ E = D \cup {N(i)}
  BY <1>6
<1>8. \A name \in E : V(Chosen(L, name)) = IF name = N(i) THEN V(i) ELSE before[name]
  <2> TAKE name \in E
  <2>1. CASE name = N(i)
    <3>1. Chosen(L, N(i)) = i
      BY <1>2, <1>5
    <3> HIDE DEF Chosen, before
    <3>2. Chosen(L, name) = i
      BY <2>1, <3>1
    <3>3. QED
      BY <2>1, <3>2
  <2>2. CASE name # N(i)
    <3>1. PICK j \in K : name = N(j)
      BY <1>6, <2>2, Zenon
    <3>2. Chosen(K, N(j)) = j /\ Chosen(L, N(j)) = j
      BY <1>2, <1>5, <3>1
    <3>3. before[name] = V(Chosen(K, name))
      <4>1. name \in {N(k) : k \in K}
        BY <3>1
      <4>2. QED
        BY <4>1, Zenon
    <3> HIDE DEF Chosen, before
    <3>4. Chosen(L, name) = Chosen(K, name)
      BY <3>1, <3>2
    <3>5. QED
      BY <2>2, <3>3, <3>4
  <2>3. QED
    BY <2>1, <2>2
<1>9. after = made
  <2>1. made = [name \in E |-> IF name = N(i) THEN V(i) ELSE before[name]]
    BY <1>7, Zenon
  <2> HIDE DEF before, Chosen, E
  <2> DEFINE F(name) == V(Chosen(L, name))
             G(name) == IF name = N(i) THEN V(i) ELSE before[name]
  <2>2. \A name \in E : F(name) = G(name)
    BY <1>8, Zenon
  <2>3. [name \in E |-> F(name)] = [name \in E |-> G(name)]
    <3> HIDE DEF F, G
    <3> QED BY <2>2
  <2>4. QED
    BY <2>1, <2>3, Zenon DEF E
<1>10. QED
  <2>1. HeadersBefore(m, c, i + 1) = made
    BY <1>4, <1>9, Zenon
  <2>2. made = [name \in DOMAIN HeadersBefore(m, c, i) \cup {N(i)} |->
                   IF name = N(i) THEN V(i) ELSE HeadersBefore(m, c, i)[name]]
    BY <1>4, Zenon
  <2>3. QED
    BY <2>1, <2>2, Zenon DEF N, V, WithHeader

(* Before the first line no header is known. *)
LEMMA HeadersFirst ==
    ASSUME NEW m, NEW c
    PROVE  HeadersBefore(m, c, 1) = <<>>
<1>1. KeptBefore(m, 1) = {}
  BY DEF KeptBefore
<1>2. QED
  BY <1>1 DEF HeadersBefore

(* The next line that is written. *)
LEMMA NextLine ==
    ASSUME NEW m, Sendable(m), NEW c \in 0 .. MaxLength, NEW i \in 1 .. Count(m)
    PROVE  \E j \in 1 .. Count(m) :
              /\ ~Skipped(m, j) /\ Start(m, c, j) = Start(m, c, i)
              /\ HeadersBefore(m, c, j) = HeadersBefore(m, c, i)
<1>1. CASE ~Skipped(m, i)
  BY <1>1
<1>2. CASE Skipped(m, i)
  <2> DEFINE j == i + 1
  <2>1. Len(m.headers) \in Nat /\ Count(m) = Len(m.headers) + 1
    BY HeadersAre DEF Count
  <2>2. i \in 1 .. Len(m.headers) /\ j \in 1 .. Count(m)
    BY <1>2, <2>1 DEF Skipped
  <2>3. ~Skipped(m, j)
    <3>1. Skipped(m, j) => j \in 1 .. Len(m.headers) /\ j # i
      BY <2>2 DEF Skipped
    <3>2. Skipped(m, j) => tolower(m.headers[j][1]) = tolower(m.headers[i][1])
      BY <1>2, Zenon DEF Skipped
    <3>3. QED
      BY <2>2, <3>1, <3>2, SendableParts, Zenon
  <2>4. Start(m, c, j) = Start(m, c, i)
    <3>1. HeaderLines(m, c)[i] = <<>>
      BY <1>2, LinesAre
    <3>2. Start(m, c, i) \in Nat
      <4>1. i \in 1 .. Count(m) + 1
        BY <2>1, <2>2
      <4>2. QED
        BY <4>1, StartIs, Zenon
    <3>3. Start(m, c, i + 1) = Start(m, c, i) + Len(HeaderLines(m, c)[i])
      BY StartIs, Zenon
    <3>4. Len(HeaderLines(m, c)[i]) = 0
      BY <3>1
    <3>5. QED
      BY <3>2, <3>3, <3>4
  <2>5. KeptBefore(m, j) = KeptBefore(m, i)
    BY <1>2 DEF KeptBefore
  <2>6. HeadersBefore(m, c, j) = HeadersBefore(m, c, i)
    <3> DEFINE G(K) == [name \in {tolower(Name(m, c, k)) : k \in K} |->
                          Value(m, c, CHOOSE k \in K : tolower(Name(m, c, k)) = name)]
    <3> HIDE DEF j
    <3>1. \A l : HeadersBefore(m, c, l) = G(KeptBefore(m, l))
      BY Zenon DEF HeadersBefore
    <3> HIDE DEF G
    <3>2. QED
      BY <2>5, <3>1, Zenon
  <2> HIDE DEF j
  <2>7. QED
    <3> USE <2>2
    <3> WITNESS j \in 1 .. Count(m)
    <3> QED
      BY <2>3, <2>4, <2>6, Zenon
<1>3. QED
  BY <1>1, <1>2

(* A byte of a line that is written, with what the line looks like there. *)
LEMMA WireLine ==
    ASSUME NEW m, Sendable(m), NEW c \in 0 .. MaxLength, NEW i \in 1 .. Count(m), ~Skipped(m, i)
    PROVE  LET w    == Append(Bytes(m, c), NUL)
               s    == Start(m, c, i)
               name == Name(m, c, i)
               val  == Value(m, c, i)
               nl   == Len(name)
               vl   == Len(val)
           IN  /\ nl \in Nat \ {0} /\ vl \in Nat /\ s \in Nat /\ Len(HeaderLines(m, c)[i]) = nl + vl + 3
               /\ Start(m, c, i + 1) = s + nl + vl + 3
               /\ \A d \in 0 .. nl - 1 : w[s + d + 1] = name[d + 1] /\ w[s + d + 1] \in TOKEN
               /\ w[s + nl + 1] = ":" /\ w[s + nl + 2] = SPACE
               /\ \A d \in 1 .. vl : w[s + nl + 2 + d] = val[d] /\ w[s + nl + 2 + d] \notin {CR, LF}
               /\ vl > 0 => w[s + nl + 3] \notin {SPACE, TAB}
               /\ w[s + nl + vl + 3] = LF
<1> DEFINE w    == Append(Bytes(m, c), NUL)
           s    == Start(m, c, i)
           name == Name(m, c, i)
           val  == Value(m, c, i)
           nl   == Len(name)
           vl   == Len(val)
           line == HeaderLines(m, c)[i]
           T == Letters(m)
           mark == ":"
<1>1. /\ name \in Seq(T) /\ val \in Seq(T)
      /\ nl \in Nat \ {0} /\ \A j \in 1 .. nl : name[j] \in TOKEN
      /\ vl \in Nat /\ \A j \in 1 .. vl : val[j] \notin {CR, LF}
      /\ vl # 0 => val[1] \notin {SPACE, TAB}
  BY HeaderIs, Zenon
<1>2. line = Line(name, val)
  BY LinesAre, Zenon
<1>3. /\ Len(line) = nl + vl + 3
      /\ \A d \in 1 .. nl : line[d] = name[d]
      /\ line[nl + 1] = mark /\ line[nl + 2] = SPACE
      /\ \A d \in 1 .. vl : line[nl + 2 + d] = val[d]
      /\ line[nl + vl + 3] = LF
  <2>1. Marks \subseteq T
    BY DEF Letters
  <2>2. QED
    <3>1. Lined(T, line, name, val)
      BY <1>1, <1>2, <2>1, LineIs, Zenon
    <3> HIDE DEF T, line, name, val, nl, vl
    <3>2. QED
      BY <3>1, Zenon DEF Lined, nl, vl
<1>4. s \in Nat /\ Start(m, c, i + 1) = s + Len(line)
  <2>1. Count(m) \in Nat
    BY HeadersAre
  <2>2. i \in 1 .. Count(m) + 1
    BY <2>1
  <2>3. QED
    BY <2>2, StartIs, Zenon
<1>5. \A d \in 1 .. Len(line) : w[s + d] = line[d]
  <2>1. WireLayout(m, c, Letters(m), Bytes(m, c), w, Start(m, c, Count(m) + 1), StartLine(m), m.body)
    BY WireIs, Zenon
  <2> HIDE DEF w
  <2>2. QED
    BY <2>1, Zenon DEF WireLayout, s, line
<1> HIDE DEF w, s, name, val, nl, vl, line, mark, T
<1>6. nl \in Nat /\ nl > 0 /\ vl \in Nat /\ Len(line) = nl + vl + 3 /\ s \in Nat
  BY <1>1, <1>3, <1>4
<1>7. Start(m, c, i + 1) = s + nl + vl + 3
  BY <1>4, <1>6
<1>8. \A d \in 0 .. nl - 1 : w[s + d + 1] = name[d + 1] /\ w[s + d + 1] \in TOKEN
  <2> TAKE d \in 0 .. nl - 1
  <2>1. d + 1 \in 1 .. nl /\ d + 1 \in 1 .. Len(line) /\ s + (d + 1) = s + d + 1
    BY <1>6
  <2>2. w[s + (d + 1)] = line[d + 1]
    BY <1>5, <2>1
  <2>3. line[d + 1] = name[d + 1]
    BY <1>3, <2>1
  <2>4. name[d + 1] \in TOKEN
    BY <1>1, <2>1
  <2>5. w[s + d + 1] = w[s + (d + 1)]
    BY <2>1, Zenon
  <2>6. QED
    BY <2>2, <2>3, <2>4, <2>5, Zenon
<1>9. w[s + nl + 1] = mark /\ w[s + nl + 2] = SPACE /\ w[s + nl + vl + 3] = LF
  <2>1. /\ nl + 1 \in 1 .. Len(line) /\ nl + 2 \in 1 .. Len(line) /\ nl + vl + 3 \in 1 .. Len(line)
        /\ s + (nl + 1) = s + nl + 1 /\ s + (nl + 2) = s + nl + 2 /\ s + (nl + vl + 3) = s + nl + vl + 3
    BY <1>6
  <2>2. w[s + (nl + 1)] = line[nl + 1] /\ w[s + (nl + 2)] = line[nl + 2]
        /\ w[s + (nl + vl + 3)] = line[nl + vl + 3]
    BY <1>5, <2>1, Zenon
  <2>3. QED
    BY <1>3, <2>1, <2>2
<1>10. \A d \in 1 .. vl : w[s + nl + 2 + d] = val[d] /\ w[s + nl + 2 + d] \notin {CR, LF}
  <2> TAKE d \in 1 .. vl
  <2>1. nl + 2 + d \in 1 .. Len(line) /\ s + (nl + 2 + d) = s + nl + 2 + d
    BY <1>6
  <2>2. w[s + (nl + 2 + d)] = line[nl + 2 + d]
    BY <1>5, <2>1
  <2>3. line[nl + 2 + d] = val[d]
    BY <1>3
  <2>4. val[d] \notin {CR, LF}
    BY <1>1
  <2>5. w[s + nl + 2 + d] = w[s + (nl + 2 + d)]
    BY <2>1, Zenon
  <2>6. QED
    BY <2>2, <2>3, <2>4, <2>5, Zenon
<1>11. vl > 0 => w[s + nl + 3] \notin {SPACE, TAB}
  <2>1. vl > 0 => 1 \in 1 .. vl /\ s + nl + 2 + 1 = s + nl + 3 /\ vl # 0
    BY <1>4, <1>6
  <2>2. vl > 0 => w[s + nl + 2 + 1] = val[1]
    BY <1>10, <2>1
  <2>3. QED
    BY <1>1, <2>1, <2>2
<1>12. QED
  BY <1>1, <1>3, <1>4, <1>7, <1>8, <1>9, <1>10, <1>11, Zenon DEF w, s, name, val, nl, vl, line, mark
(* The same, as one fact about the texts and the places. *)
LineLayout(w, s, n, next, name, val) ==
    LET nl == Len(name)
        vl == Len(val)
    IN  /\ nl \in Nat \ {0} /\ vl \in Nat /\ s \in Nat /\ n = nl + vl + 3
        /\ next = s + nl + vl + 3
        /\ \A d \in 0 .. nl - 1 : w[s + d + 1] = name[d + 1] /\ w[s + d + 1] \in TOKEN
        /\ w[s + nl + 1] = ":" /\ w[s + nl + 2] = SPACE
        /\ \A d \in 1 .. vl : w[s + nl + 2 + d] = val[d] /\ w[s + nl + 2 + d] \notin {CR, LF}
        /\ vl > 0 => w[s + nl + 3] \notin {SPACE, TAB}
        /\ w[s + nl + vl + 3] = LF

(* The bytes of one line, where it is among the others. *)
LEMMA LineLaid ==
    ASSUME NEW m, Sendable(m), NEW c \in 0 .. MaxLength, NEW i \in 1 .. Count(m), ~Skipped(m, i)
    PROVE  LineLayout(Append(Bytes(m, c), NUL), Start(m, c, i), Len(HeaderLines(m, c)[i]),
                      Start(m, c, i + 1), Name(m, c, i), Value(m, c, i))
  BY WireLine, ZenonT(40) DEF LineLayout
-----------------------------------------------------------------------------
(* The strings and the fields after a byte has made q of p. *)
GivenTo(q, st, ch) == [k \in DOMAIN st |-> IF k \in q.data THEN Append(st[k], ch) ELSE st[k]]

MadeBy(p, q, st) == ((p.marks \cup q.data) \ q.marks) \cup (q.calls \cap DOMAIN st)

StringsAfter(p, q, st, ch) ==
    [k \in DOMAIN GivenTo(q, st, ch) |-> IF k \in MadeBy(p, q, st) THEN <<>> ELSE GivenTo(q, st, ch)[k]]

on_url_by(q, f, s) == [f EXCEPT !.url = s, !.method = q.method]

FieldsAfter(p, q, st, f, ch) ==
    LET s    == GivenTo(q, st, ch)
        made == MadeBy(p, q, st)
    IN  CASE "url" \in made          -> on_url_by(q, f, s["url"])
          [] "header_field" \in made -> on_header_field(f, s["header_field"])
          [] "header_value" \in made -> on_header_value(f, s["header_value"])
          [] "body" \in made         -> on_body(f, s["body"])
          [] OTHER                   -> f

Names == {"url", "status", "header_field", "header_value", "body"}

(* One string has been given, the others are empty. *)
LEMMA OnlyIs ==
    ASSUME NEW k \in Names, NEW s
    PROVE  /\ DOMAIN NoStrings = Names /\ DOMAIN Only(k, s) = Names
           /\ Only(k, s)[k] = s /\ \A j \in Names : j # k => Only(k, s)[j] = <<>>
           /\ \A j \in Names : NoStrings[j] = <<>>
           /\ Only(k, <<>>) = NoStrings
BY DEF NoStrings, Only, Names

(* A byte that is outside every callback's data changes no string and no field. *)
LEMMA TurnNothing ==
    ASSUME NEW p, NEW q, NEW ch, NEW f, p.marks = {}, q.marks = {}, q.data = {}, q.calls \cap Names = {}
    PROVE  StringsAfter(p, q, NoStrings, ch) = NoStrings /\ FieldsAfter(p, q, NoStrings, f, ch) = f
<1>1. DOMAIN NoStrings = Names
  BY DEF NoStrings, Names
<1>2. MadeBy(p, q, NoStrings) = {}
  BY <1>1 DEF MadeBy
<1>3. GivenTo(q, NoStrings, ch) = NoStrings
  BY <1>1 DEF GivenTo, NoStrings
<1>4. StringsAfter(p, q, NoStrings, ch) = NoStrings
  BY <1>1, <1>2, <1>3 DEF StringsAfter, NoStrings
<1>5. QED
  BY <1>2, <1>4 DEF FieldsAfter

(* A byte of one callback's data is added to its string. *)
LEMMA GivenOne ==
    ASSUME NEW q, NEW k \in Names, NEW s, NEW ch, q.data = {k}
    PROVE  GivenTo(q, Only(k, s), ch) = Only(k, Append(s, ch))
BY DEF GivenTo, Only, NoStrings, Names

(* A callback will be given the byte. *)
LEMMA TurnGathers ==
    ASSUME NEW p, NEW q, NEW ch, NEW f, NEW k \in Names, NEW s,
           p.marks \subseteq {k}, q.marks = {k}, q.data = {k}, q.calls \cap Names = {}
    PROVE  /\ StringsAfter(p, q, Only(k, s), ch) = Only(k, Append(s, ch))
           /\ FieldsAfter(p, q, Only(k, s), f, ch) = f
<1>1. DOMAIN Only(k, s) = Names
  BY OnlyIs
<1>2. MadeBy(p, q, Only(k, s)) = {}
  BY <1>1 DEF MadeBy
<1>3. GivenTo(q, Only(k, s), ch) = Only(k, Append(s, ch))
  BY GivenOne
<1>4. StringsAfter(p, q, Only(k, s), ch) = Only(k, Append(s, ch))
  BY <1>2, <1>3 DEF StringsAfter, Only, NoStrings
<1>5. QED
  BY <1>2, <1>4 DEF FieldsAfter

(* A callback is given what has been gathered. *)
LEMMA TurnGives ==
    ASSUME NEW p, NEW q, NEW ch, NEW f, NEW k \in Names, NEW s,
           p.marks = {k}, q.marks = {}, q.data = {}, q.calls \cap Names = {}
    PROVE  /\ StringsAfter(p, q, Only(k, s), ch) = NoStrings
           /\ FieldsAfter(p, q, Only(k, s), f, ch) =
                 CASE k = "url"          -> on_url_by(q, f, s)
                   [] k = "header_field" -> on_header_field(f, s)
                   [] k = "header_value" -> on_header_value(f, s)
                   [] k = "body"         -> on_body(f, s)
                   [] OTHER              -> f
<1>1. DOMAIN Only(k, s) = Names
  BY OnlyIs
<1>2. MadeBy(p, q, Only(k, s)) = {k}
  BY <1>1 DEF MadeBy
<1>3. GivenTo(q, Only(k, s), ch) = Only(k, s)
  BY DEF GivenTo, Only, NoStrings
<1>4. StringsAfter(p, q, Only(k, s), ch) = NoStrings
  BY <1>2, <1>3 DEF StringsAfter, Only, NoStrings
<1>5. Only(k, s)[k] = s
  BY OnlyIs
<1> DEFINE o == Only(k, s)
<1> HIDE DEF o
<1>6. FieldsAfter(p, q, o, f, ch) =
                 CASE k = "url"          -> on_url_by(q, f, s)
                   [] k = "header_field" -> on_header_field(f, s)
                   [] k = "header_value" -> on_header_value(f, s)
                   [] k = "body"         -> on_body(f, s)
                   [] OTHER              -> f
  <2>1. MadeBy(p, q, o) = {k} /\ GivenTo(q, o, ch) = o /\ o[k] = s
    BY <1>2, <1>3, <1>5 DEF o
  <2>2. k = "url" \/ k = "status" \/ k = "header_field" \/ k = "header_value" \/ k = "body"
    BY DEF Names
  <2> HIDE DEF on_url_by, on_header_field, on_header_value, on_body
  <2>3. QED
    BY <2>1, <2>2 DEF FieldsAfter
<1>7. QED
  BY <1>4, <1>6 DEF o

(* The same, each as one fact about a turn. *)
Turns(p, q, st, ch, f, made, g) == StringsAfter(p, q, st, ch) = made /\ FieldsAfter(p, q, st, f, ch) = g

Gathers(p, q, k) ==
    k \in Names /\ p.marks \subseteq {k} /\ q.marks = {k} /\ q.data = {k} /\ q.calls \cap Names = {}

Gives(p, q, k) ==
    k \in Names /\ p.marks = {k} /\ q.marks = {} /\ q.data = {} /\ q.calls \cap Names = {}

(* A byte inside a callback's data: its string grows, no field changes. *)
LEMMA Gathered ==
    ASSUME NEW p, NEW q, NEW ch, NEW f, NEW k, NEW s, Gathers(p, q, k)
    PROVE  Turns(p, q, Only(k, s), ch, f, Only(k, Append(s, ch)), f)
<1>1. k \in Names /\ p.marks \subseteq {k} /\ q.marks = {k} /\ q.data = {k} /\ q.calls \cap Names = {}
  BY DEF Gathers
<1>2. QED
  BY <1>1, TurnGathers DEF Turns

(* The byte that ends a path gives it to on_url. *)
LEMMA UrlGiven ==
    ASSUME NEW p, NEW q, NEW ch, NEW f, NEW s, Gives(p, q, "url")
    PROVE  Turns(p, q, Only("url", s), ch, f, NoStrings, on_url_by(q, f, s))
BY TurnGives DEF Turns, Gives

(* The byte that ends a name gives it to on_header_field. *)
LEMMA NameGiven ==
    ASSUME NEW p, NEW q, NEW ch, NEW f, NEW s, Gives(p, q, "header_field")
    PROVE  Turns(p, q, Only("header_field", s), ch, f, NoStrings, on_header_field(f, s))
BY TurnGives DEF Turns, Gives

(* The byte that ends a value gives it to on_header_value. *)
LEMMA ValueGiven ==
    ASSUME NEW p, NEW q, NEW ch, NEW f, NEW s, Gives(p, q, "header_value")
    PROVE  Turns(p, q, Only("header_value", s), ch, f, NoStrings, on_header_value(f, s))
BY TurnGives DEF Turns, Gives

(* The byte that ends a body gives it to on_body. *)
LEMMA BodyGiven ==
    ASSUME NEW p, NEW q, NEW ch, NEW f, NEW s, Gives(p, q, "body")
    PROVE  Turns(p, q, Only("body", s), ch, f, NoStrings, on_body(f, s))
BY TurnGives DEF Turns, Gives

(* The last byte of the body, with what has been gathered of it. *)
LEMMA TurnGivesBody ==
    ASSUME NEW p, NEW q, NEW ch, NEW f, NEW s,
           p.marks \subseteq {"body"}, q.marks = {}, q.data = {"body"}, q.calls \cap Names = {}
    PROVE  /\ StringsAfter(p, q, Only("body", s), ch) = NoStrings
           /\ FieldsAfter(p, q, Only("body", s), f, ch) = on_body(f, Append(s, ch))
<1>1. DOMAIN Only("body", s) = Names /\ "body" \in Names
  BY OnlyIs DEF Names
<1>2. MadeBy(p, q, Only("body", s)) = {"body"}
  BY <1>1 DEF MadeBy
<1>3. GivenTo(q, Only("body", s), ch) = Only("body", Append(s, ch))
  BY <1>1, GivenOne
<1>4. StringsAfter(p, q, Only("body", s), ch) = NoStrings
  BY <1>2, <1>3 DEF StringsAfter, Only, NoStrings
<1>5. Only("body", Append(s, ch))["body"] = Append(s, ch)
  BY <1>1, OnlyIs
<1>6. FieldsAfter(p, q, Only("body", s), f, ch) = on_body(f, Only("body", Append(s, ch))["body"])
  BY <1>2, <1>3 DEF FieldsAfter
<1>7. QED
  BY <1>4, <1>5, <1>6

(* An empty value is given with the byte after its line. *)
LEMMA TurnGivesNothing ==
    ASSUME NEW p, NEW q, NEW ch, NEW f,
           p.marks = {}, q.calls \cap Names = {"header_value"}, q.data = q.marks
    PROVE  /\ q.marks = {} => StringsAfter(p, q, NoStrings, ch) = NoStrings
           /\ q.marks = {"header_field"} =>
                 StringsAfter(p, q, NoStrings, ch) = Only("header_field", <<ch>>)
           /\ q.marks \subseteq {"header_field"} =>
                 FieldsAfter(p, q, NoStrings, f, ch) = on_header_value(f, <<>>)
<1>1. DOMAIN NoStrings = Names /\ \A k \in Names : NoStrings[k] = <<>>
  BY OnlyIs DEF Names
<1>2. MadeBy(p, q, NoStrings) = {"header_value"}
  BY <1>1 DEF MadeBy
<1>3. q.marks = {} => StringsAfter(p, q, NoStrings, ch) = NoStrings
  <2> SUFFICES ASSUME q.marks = {} PROVE StringsAfter(p, q, NoStrings, ch) = NoStrings
    OBVIOUS
  <2>1. GivenTo(q, NoStrings, ch) = NoStrings
    BY DEF GivenTo, NoStrings
  <2>2. QED
    BY <1>2, <2>1 DEF StringsAfter, NoStrings
<1>4. q.marks = {"header_field"} => StringsAfter(p, q, NoStrings, ch) = Only("header_field", <<ch>>)
  <2> SUFFICES ASSUME q.marks = {"header_field"}
               PROVE  StringsAfter(p, q, NoStrings, ch) = Only("header_field", <<ch>>)
    OBVIOUS
  <2>1. GivenTo(q, NoStrings, ch) = Only("header_field", <<ch>>)
    BY DEF GivenTo, NoStrings, Only
  <2>2. QED
    BY <1>2, <2>1 DEF StringsAfter, NoStrings, Only
<1>5. q.marks \subseteq {"header_field"} => FieldsAfter(p, q, NoStrings, f, ch) = on_header_value(f, <<>>)
  <2> SUFFICES ASSUME q.marks \subseteq {"header_field"}
               PROVE  FieldsAfter(p, q, NoStrings, f, ch) = on_header_value(f, <<>>)
    OBVIOUS
  <2>1. GivenTo(q, NoStrings, ch)["header_value"] = <<>>
    BY <1>1 DEF GivenTo, Names
  <2>2. FieldsAfter(p, q, NoStrings, f, ch) = on_header_value(f, GivenTo(q, NoStrings, ch)["header_value"])
    BY <1>2 DEF FieldsAfter
  <2>3. QED
    BY <2>1, <2>2
<1>6. QED
  BY <1>3, <1>4, <1>5

(* The members of a parser of messages. *)
Fielded(f) == DOMAIN f = {"url", "method", "temp_header_field", "headers", "body"}

UrlPut(f, g, q, s) ==
    Fielded(g) /\ g.url = s /\ g.method = q.method /\ g.headers = f.headers /\ g.body = f.body

NamePut(f, g, s) ==
    /\ Fielded(g) /\ g.temp_header_field = tolower(s)
    /\ g.url = f.url /\ g.method = f.method /\ g.headers = f.headers /\ g.body = f.body

ValuePut(f, g, s) ==
    /\ Fielded(g) /\ g.url = f.url /\ g.method = f.method /\ g.body = f.body
    /\ g.headers = [name \in DOMAIN f.headers \cup {f.temp_header_field} |->
                       IF name = f.temp_header_field THEN s ELSE f.headers[name]]

BodyPut(f, g, s) ==
    Fielded(g) /\ g.url = f.url /\ g.method = f.method /\ g.headers = f.headers /\ g.body = f.body \o s

(* on_url changes the path and the method. *)
LEMMA UrlIsPut ==
    ASSUME NEW f, Fielded(f), NEW q, NEW s
    PROVE  UrlPut(f, on_url_by(q, f, s), q, s)
BY DEF UrlPut, Fielded, on_url_by

(* on_header_field keeps the name in lower case. *)
LEMMA NameIsPut ==
    ASSUME NEW f, Fielded(f), NEW s
    PROVE  NamePut(f, on_header_field(f, s), s)
BY DEF NamePut, Fielded, on_header_field

(* on_header_value puts the value under the name that was kept. *)
LEMMA ValueIsPut ==
    ASSUME NEW f, Fielded(f), NEW s
    PROVE  ValuePut(f, on_header_value(f, s), s)
<1> DEFINE hs == [name \in DOMAIN f.headers \cup {f.temp_header_field} |->
                     IF name = f.temp_header_field THEN s ELSE f.headers[name]]
           g  == on_header_value(f, s)
<1>1. g = [f EXCEPT !.headers = hs]
  BY Zenon DEF on_header_value
<1> HIDE DEF hs, g
<1>2. Fielded(g) /\ g.url = f.url /\ g.method = f.method /\ g.body = f.body /\ g.headers = hs
  BY <1>1 DEF Fielded
<1>3. QED
  BY <1>2, Zenon DEF ValuePut, hs, g

(* on_body changes the body alone. *)
LEMMA BodyIsPut ==
    ASSUME NEW f, Fielded(f), NEW s
    PROVE  BodyPut(f, on_body(f, s), s)
BY DEF BodyPut, Fielded, on_body

(* Callbacks keep the form of the fields. *)
LEMMA FieldsAfterFielded ==
    ASSUME NEW f, Fielded(f), NEW p, NEW q, NEW st, NEW ch
    PROVE  Fielded(FieldsAfter(p, q, st, f, ch))
<1> DEFINE s == GivenTo(q, st, ch)
           made == MadeBy(p, q, st)
<1>1. /\ Fielded(on_url_by(q, f, s["url"])) /\ Fielded(on_header_field(f, s["header_field"]))
      /\ Fielded(on_header_value(f, s["header_value"])) /\ Fielded(on_body(f, s["body"]))
  <2>1. /\ UrlPut(f, on_url_by(q, f, s["url"]), q, s["url"])
        /\ NamePut(f, on_header_field(f, s["header_field"]), s["header_field"])
        /\ ValuePut(f, on_header_value(f, s["header_value"]), s["header_value"])
        /\ BodyPut(f, on_body(f, s["body"]), s["body"])
    BY UrlIsPut, NameIsPut, ValueIsPut, BodyIsPut, Zenon
  <2>2. QED
    BY <2>1, Zenon DEF UrlPut, NamePut, ValuePut, BodyPut
<1>2. \/ FieldsAfter(p, q, st, f, ch) = on_url_by(q, f, s["url"])
      \/ FieldsAfter(p, q, st, f, ch) = on_header_field(f, s["header_field"])
      \/ FieldsAfter(p, q, st, f, ch) = on_header_value(f, s["header_value"])
      \/ FieldsAfter(p, q, st, f, ch) = on_body(f, s["body"])
      \/ FieldsAfter(p, q, st, f, ch) = f
  BY DEF FieldsAfter
<1>3. QED
  BY <1>1, <1>2, Zenon
-----------------------------------------------------------------------------
(* The transitions on the version of a request, and of a response. *)
LEMMA RequestMoves ==
    /\ Moved("s_req_http_start", "H") = {<<"s_req_http_start", "H", "s_req_http_H">>}
    /\ Moved("s_req_http_H", "T") = {<<"s_req_http_H", "T", "s_req_http_HT">>}
    /\ Moved("s_req_http_HT", "T") = {<<"s_req_http_HT", "T", "s_req_http_HTT">>}
    /\ Moved("s_req_http_HTT", "P") = {<<"s_req_http_HTT", "P", "s_req_http_HTTP">>}
    /\ Moved("s_req_http_HTTP", "/") = {<<"s_req_http_HTTP", "/", "s_req_first_http_major">>}
    /\ Moved("s_req_http_major", ".") = {<<"s_req_http_major", ".", "s_req_first_http_minor">>}
    /\ Moved("s_req_http_minor", LF) = {<<"s_req_http_minor", LF, "s_header_field_start">>}
<1>1. Moved("s_req_http_start", "H") = {<<"s_req_http_start", "H", "s_req_http_H">>}
  <2>1. SPACE # "H"
    BY DEF SPACE
  <2>2. QED
    BY <2>1 DEF Moved, Moves
<1>2. Moved("s_req_http_H", "T") = {<<"s_req_http_H", "T", "s_req_http_HT">>}
  BY DEF Moved, Moves
<1>3. Moved("s_req_http_HT", "T") = {<<"s_req_http_HT", "T", "s_req_http_HTT">>}
  BY DEF Moved, Moves
<1>4. Moved("s_req_http_HTT", "P") = {<<"s_req_http_HTT", "P", "s_req_http_HTTP">>}
  BY DEF Moved, Moves
<1>5. Moved("s_req_http_HTTP", "/") = {<<"s_req_http_HTTP", "/", "s_req_first_http_major">>}
  BY DEF Moved, Moves
<1>6. Moved("s_req_http_major", ".") = {<<"s_req_http_major", ".", "s_req_first_http_minor">>}
  BY DEF Moved, Moves
<1>7. Moved("s_req_http_minor", LF) = {<<"s_req_http_minor", LF, "s_header_field_start">>}
  BY DEF Moved, Moves, LF, CR
<1>8. QED
  BY <1>1, <1>2, <1>3, <1>4, <1>5, <1>6, <1>7, Zenon

(* The same of a response. *)
LEMMA ResponseMoves ==
    /\ Moved("s_res_H", "T") = {<<"s_res_H", "T", "s_res_HT">>}
    /\ Moved("s_res_HT", "T") = {<<"s_res_HT", "T", "s_res_HTT">>}
    /\ Moved("s_res_HTT", "P") = {<<"s_res_HTT", "P", "s_res_HTTP">>}
    /\ Moved("s_res_HTTP", "/") = {<<"s_res_HTTP", "/", "s_res_first_http_major">>}
    /\ Moved("s_res_http_major", ".") = {<<"s_res_http_major", ".", "s_res_first_http_minor">>}
    /\ Moved("s_res_http_minor", SPACE) = {<<"s_res_http_minor", SPACE, "s_res_first_status_code">>}
    /\ Moved("s_res_status_code", SPACE) = {<<"s_res_status_code", SPACE, "s_res_status_start">>}
<1>1. Moved("s_res_H", "T") = {<<"s_res_H", "T", "s_res_HT">>}
  BY DEF Moved, Moves
<1>2. Moved("s_res_HT", "T") = {<<"s_res_HT", "T", "s_res_HTT">>}
  BY DEF Moved, Moves
<1>3. Moved("s_res_HTT", "P") = {<<"s_res_HTT", "P", "s_res_HTTP">>}
  BY DEF Moved, Moves
<1>4. Moved("s_res_HTTP", "/") = {<<"s_res_HTTP", "/", "s_res_first_http_major">>}
  BY DEF Moved, Moves
<1>5. Moved("s_res_http_major", ".") = {<<"s_res_http_major", ".", "s_res_first_http_minor">>}
  BY DEF Moved, Moves
<1>6. SPACE # CR /\ SPACE # LF
  BY DEF SPACE, CR, LF
<1>7. Moved("s_res_http_minor", SPACE) = {<<"s_res_http_minor", SPACE, "s_res_first_status_code">>}
  BY DEF Moved, Moves
<1>8. Moved("s_res_status_code", SPACE) = {<<"s_res_status_code", SPACE, "s_res_status_start">>}
  BY <1>6 DEF Moved, Moves
<1>9. QED
  BY <1>1, <1>2, <1>3, <1>4, <1>5, <1>7, <1>8, Zenon

(* A byte has been read that the message has there, or the parser has stopped. *)
Onward(p, q, st, f, m, c, r, ch) ==
    \/ Failed(q)
    \/ q.exited /\ q.upgrade
    \/ /\ q.type = p.type /\ q.exited = p.exited
       /\ Reading(q, StringsAfter(p, q, st, ch), FieldsAfter(p, q, st, f, ch), m, c, r + 1)

(* The beginnings of a text grow letter by letter. *)
LEMMA FirstIs ==
    ASSUME NEW T, NEW s \in Seq(T)
    PROVE  /\ First(s, 0) = <<>> /\ First(s, Len(s)) = s
           /\ \A n \in 0 .. Len(s) - 1 : Append(First(s, n), s[n + 1]) = First(s, n + 1)
           /\ \A n \in 0 .. Len(s) : First(s, n) \in Seq(T) /\ Len(First(s, n)) = n
<1>1. First(s, 0) = <<>>
  BY DEF First
<1>2. First(s, Len(s)) = s
  BY DEF First
<1>3. ASSUME NEW n \in 0 .. Len(s) - 1
      PROVE  Append(First(s, n), s[n + 1]) = First(s, n + 1)
  <2>1. /\ First(s, n) \in Seq(T) /\ Len(First(s, n)) = n
        /\ First(s, n + 1) \in Seq(T) /\ Len(First(s, n + 1)) = n + 1
        /\ \A i \in 1 .. n : First(s, n)[i] = s[i]
        /\ \A i \in 1 .. n + 1 : First(s, n + 1)[i] = s[i]
    BY DEF First
  <2>2. s[n + 1] \in T
    BY <1>3
  <2> DEFINE a == First(s, n)
             b == First(s, n + 1)
             x == s[n + 1]
  <2>3. /\ Append(a, x) \in Seq(T) /\ Len(Append(a, x)) = n + 1 /\ Append(a, x)[n + 1] = x
        /\ \A i \in 1 .. n : Append(a, x)[i] = a[i]
    BY <2>1, <2>2, Appended
  <2> HIDE DEF a, b
  <2>4. n + 1 \in Nat /\ \A i \in 1 .. n + 1 : i \in 1 .. n \/ i = n + 1
    OBVIOUS
  <2>5. \A i \in 1 .. n + 1 : Append(a, x)[i] = b[i]
    BY <2>1, <2>3, <2>4 DEF a, b
  <2>6. Append(a, x) = b
    BY <2>1, <2>3, <2>5, SeqEqual DEF b
  <2>7. QED
    BY <2>6 DEF a, b
<1>4. \A n \in 0 .. Len(s) : First(s, n) \in Seq(T) /\ Len(First(s, n)) = n
  BY DEF First
<1>5. QED
  BY <1>1, <1>2, <1>3, <1>4

(* A line begins, once those before it have been read. *)
LEMMA LineNext ==
    ASSUME NEW m, Sendable(m), NEW c \in 0 .. MaxLength, NEW i \in 1 .. Count(m),
           NEW q, NEW f, Begun(q, f, m), q.state \in LineStates, q.marks = {},
           HeadersRead(q, f) = HeadersBefore(m, c, i)
    PROVE  Reading(q, NoStrings, f, m, c, Start(m, c, i))
<1>1. PICK j \in 1 .. Count(m) :
              /\ ~Skipped(m, j) /\ Start(m, c, j) = Start(m, c, i)
              /\ HeadersBefore(m, c, j) = HeadersBefore(m, c, i)
  BY NextLine, Zenon
<1> DEFINE s == Start(m, c, i)
           n == Len(HeaderLines(m, c)[j])
<1>2. s \in Nat /\ n \in Nat /\ n > 0
  <2>1. n = Len(Name(m, c, j)) + Len(Value(m, c, j)) + 3 /\ Start(m, c, j) \in Nat
        /\ Len(Name(m, c, j)) \in Nat \ {0} /\ Len(Value(m, c, j)) \in Nat
    BY <1>1, WireLine
  <2>2. QED
    BY <1>1, <2>1
<1>3. s - Start(m, c, j) = 0 /\ 0 \in 0 .. n - 1
  BY <1>1, <1>2
<1>4. OnLine(q, NoStrings, f, m, c, j, 0)
  <2>1. OnLength(q, c, 0)
    BY LengthNameIs DEF OnLength, Length
  <2>2. QED
    BY <1>1, <2>1, Zenon DEF OnLine
<1> HIDE DEF s, n
<1>5. QED
  BY <1>1, <1>3, <1>4, Zenon DEF Reading, s, n

(* What is needed to read a byte of a message whose bytes are w. *)
Reads(m, c, p, f, w) ==
    /\ Sendable(m) /\ c \in 0 .. MaxLength /\ Len(m.body) \in 0 .. c
    /\ Sound(p) /\ ~Stopped(p) /\ p.type = m.type /\ Fielded(f)
    /\ w = Append(Bytes(m, c), NUL)

(* Between the lines of a message that begins nothing is gathered. *)
LEMMA GotNothing ==
    ASSUME NEW p, NEW q, NEW D, NEW s, NEW f, NEW ch, p.marks = {}, Got(p, q, D, s, {}, {}, {})
    PROVE  StringsAfter(p, q, NoStrings, ch) = NoStrings /\ FieldsAfter(p, q, NoStrings, f, ch) = f
<1>1. q.marks = {} /\ q.data = {} /\ q.calls \cap Names = {}
  BY DEF Got
<1>2. QED
  BY <1>1, TurnNothing

(* What a step keeps and sets. *)
LEMMA GotIs ==
    ASSUME NEW p, NEW q, NEW D, NEW s, NEW marks, NEW data, NEW calls, Got(p, q, D, s, marks, data, calls)
    PROVE  /\ q.state = s /\ q.marks = marks /\ q.data = data /\ q.calls = calls
           /\ "type" \notin D => q.type = p.type
           /\ "method" \notin D => q.method = p.method
           /\ "index" \notin D => q.index = p.index
           /\ "status_code" \notin D => q.status_code = p.status_code
           /\ "flags" \notin D => q.flags = p.flags
           /\ "content_length" \notin D => q.content_length = p.content_length
           /\ "header_state" \notin D => q.header_state = p.header_state
           /\ "skipping" \notin D => q.skipping = p.skipping
           /\ "upgrade" \notin D => q.upgrade = p.upgrade
           /\ "exited" \notin D => q.exited = p.exited
           /\ "http_errno" \notin D => q.http_errno = p.http_errno
BY DEF Got, Like

(* A byte between the lines of a message that begins nothing. *)
LEMMA OnwardNothing ==
    ASSUME NEW p, NEW q, NEW D, NEW s, NEW f, NEW m, NEW c, NEW r, NEW ch, "type" \notin D, "exited" \notin D,
           p.marks = {}, Got(p, q, D, s, {}, {}, {}), Reading(q, NoStrings, f, m, c, r + 1)
    PROVE  Onward(p, q, NoStrings, f, m, c, r, ch)
<1>1. StringsAfter(p, q, NoStrings, ch) = NoStrings /\ FieldsAfter(p, q, NoStrings, f, ch) = f
  BY GotNothing
<1>2. q.type = p.type /\ q.exited = p.exited
  BY DEF Got, Like
<1> DEFINE a == StringsAfter(p, q, NoStrings, ch)
           b == FieldsAfter(p, q, NoStrings, f, ch)
<1>3. Reading(q, a, b, m, c, r + 1)
  <2>1. a = NoStrings /\ b = f
    BY <1>1
  <2> HIDE DEF a, b
  <2>2. QED
    BY <2>1
<1>4. QED
  BY <1>2, <1>3, Zenon DEF Onward

(* A byte at which only the state moves. *)
LEMMA MoveBetween ==
    ASSUME NEW p, Sound(p), ~Stopped(p), p.marks = {}, NEW ch, ~Failed(Read(p, ch)), NEW s \in States,
           p.state \notin ChunkStates, p.passed = 0, p.state # "s_body_identity",
           Moved(p.state, ch) = {<<p.state, ch, s>>}
    PROVE  Got(p, Read(p, ch), {}, s, {}, {}, {})
<1> DEFINE q == Read(p, ch)
<1>1. Got(p, q, {}, s, p.marks, p.marks, {})
  BY MoveRead, Zenon
<1> HIDE DEF q
<1>2. QED
  BY <1>1 DEF q

(* A byte that gathers or gives what a callback is given. *)
LEMMA OnwardTurns ==
    ASSUME NEW p, NEW q, NEW st, NEW made, NEW f, NEW g, NEW m, NEW c, NEW r, NEW ch,
           Turns(p, q, st, ch, f, made, g), q.type = p.type, q.exited = p.exited,
           Reading(q, made, g, m, c, r + 1)
    PROVE  Onward(p, q, st, f, m, c, r, ch)
<1> DEFINE a == StringsAfter(p, q, st, ch)
           b == FieldsAfter(p, q, st, f, ch)
<1>1. a = made /\ b = g
  BY DEF Turns
<1> HIDE DEF a, b
<1>2. Reading(q, a, b, m, c, r + 1)
  BY <1>1
<1>3. QED
  BY <1>2, Zenon DEF Onward, a, b

(* The bytes of the start line are the first. *)
LEMMA HeadByte ==
    ASSUME NEW m, NEW c, NEW p, NEW f, NEW w, Reads(m, c, p, f, w), NEW k \in 1 .. Len(StartLine(m))
    PROVE  w[k] = StartLine(m)[k]
<1>1. Sendable(m) /\ c \in 0 .. MaxLength /\ w = Append(Bytes(m, c), NUL)
  BY DEF Reads
<1>2. WireLayout(m, c, Letters(m), Bytes(m, c), Append(Bytes(m, c), NUL),
                 Start(m, c, Count(m) + 1), StartLine(m), m.body)
  BY <1>1, WireIs, Zenon
<1>3. QED
  BY <1>1, <1>2, Zenon DEF WireLayout

(* The line of a request. *)
LEMMA RequestBytes ==
    ASSUME NEW m, Sendable(m), m.type = "HTTP_REQUEST"
    PROVE  /\ Len(StartLine(m)) = Len(m.method) + Len(m.path) + 11
           /\ Len(m.method) \in 1 .. 16 /\ Len(m.path) \in Nat \ {0}
           /\ \A i \in 1 .. Len(m.method) : StartLine(m)[i] = Nth(m.method, i - 1)
           /\ StartLine(m)[Len(m.method) + 1] = SPACE
           /\ \A i \in 1 .. Len(m.path) : StartLine(m)[Len(m.method) + 1 + i] = m.path[i]
           /\ \A i \in 1 .. 10 : StartLine(m)[Len(m.method) + 1 + Len(m.path) + i] = VersionLetters[i]
<1>1. RequestLine(Letters(m), StartLine(m), m.method, m.path)
  BY RequestLineIs, Zenon
<1>2. QED
  BY <1>1, Zenon DEF RequestLine

(* The first byte of a method, and the byte at which another method begins to be tried. *)
OnlyFirst(ch, m) == {x \in FirstMethods : Nth(x, 0) = ch} = {m}
Begins(p, q, m) ==
    /\ Got(p, q, {"method", "index", "flags", "content_length"}, "s_req_method", {}, {}, {})
    /\ q.method = m /\ q.index = 1

(* The first letter of a method's name, where one method is tried for it. *)
LEMMA MethodBegins ==
    ASSUME NEW p, Sound(p), ~Stopped(p), p.state = "s_start_req", p.marks = {},
           NEW ch \in ALPHA, NEW m, OnlyFirst(ch, m), ~Failed(Read(p, ch))
    PROVE  Begins(p, Read(p, ch), m)
<1> DEFINE q == Read(p, ch)
<1>1. {x \in FirstMethods : Nth(x, 0) = ch} = {m}
  BY Zenon DEF OnlyFirst
<1>2. /\ Got(p, q, {"method", "index", "flags", "content_length"}, "s_req_method", p.marks, p.marks, {})
      /\ q.method = m /\ q.index = 1
  BY <1>1, ReadStartRequest, Zenon
<1> HIDE DEF q
<1>3. QED
  BY <1>2 DEF Begins, q

OnlyOther(method, i, ch, o) == {x \in OtherMethods : x[1] = method /\ x[2] = i /\ x[3] = ch} = {o}
Swerves(p, q, m) ==
    /\ Got(p, q, {"index", "method"}, "s_req_method", {}, {}, {})
    /\ q.index = p.index + 1 /\ q.method = m

(* A letter that the method tried has not, where one other is tried then. *)
LEMMA MethodSwerves ==
    ASSUME NEW p, Sound(p), ~Stopped(p), p.state = "s_req_method", p.marks = {}, NEW ch, ch # NUL,
           ch # SPACE, ch # Nth(p.method, p.index), NEW o, OnlyOther(p.method, p.index, ch, o),
           ~Failed(Read(p, ch))
    PROVE  Swerves(p, Read(p, ch), o[4])
<1> DEFINE q == Read(p, ch)
<1>1. {x \in OtherMethods : x[1] = p.method /\ x[2] = p.index /\ x[3] = ch} = {o}
  BY Zenon DEF OnlyOther
<1>2. /\ Got(p, q, {"index", "method"}, "s_req_method", p.marks, p.marks, {})
      /\ q.index = p.index + 1 /\ q.method = o[4]
  BY <1>1, ReadMethodOther, ZenonT(40)
<1> HIDE DEF q
<1>3. QED
  BY <1>2 DEF Swerves, q

(* The parts of a request's line are apart. *)
LEMMA PartsApart ==
    ASSUME NEW ml \in Nat, NEW pl \in Nat, ml > 0, pl > 0, NEW r
    PROVE  /\ r = 0 => ~(r \in 1 .. ml) /\ ~(r = ml + 1) /\ ~(r \in ml + 2 .. ml + pl + 1) /\ ~(r \in ml + pl + 2 .. ml + pl + 10)
           /\ r \in 1 .. ml => ~(r = 0) /\ ~(r = ml + 1) /\ ~(r \in ml + 2 .. ml + pl + 1) /\ ~(r \in ml + pl + 2 .. ml + pl + 10)
           /\ r = ml + 1 => ~(r = 0) /\ ~(r \in 1 .. ml) /\ ~(r \in ml + 2 .. ml + pl + 1) /\ ~(r \in ml + pl + 2 .. ml + pl + 10)
           /\ r \in ml + 2 .. ml + pl + 1 => ~(r = 0) /\ ~(r \in 1 .. ml) /\ ~(r = ml + 1) /\ ~(r \in ml + pl + 2 .. ml + pl + 10)
           /\ r \in ml + pl + 2 .. ml + pl + 10 => ~(r = 0) /\ ~(r \in 1 .. ml) /\ ~(r = ml + 1) /\ ~(r \in ml + 2 .. ml + pl + 1)
<1>1. r = 0 => ~(r \in 1 .. ml) /\ ~(r = ml + 1) /\ ~(r \in ml + 2 .. ml + pl + 1) /\ ~(r \in ml + pl + 2 .. ml + pl + 10)
  OBVIOUS
<1>2. r \in 1 .. ml => ~(r = 0) /\ ~(r = ml + 1) /\ ~(r \in ml + 2 .. ml + pl + 1) /\ ~(r \in ml + pl + 2 .. ml + pl + 10)
  OBVIOUS
<1>3. r = ml + 1 => ~(r = 0) /\ ~(r \in 1 .. ml) /\ ~(r \in ml + 2 .. ml + pl + 1) /\ ~(r \in ml + pl + 2 .. ml + pl + 10)
  OBVIOUS
<1>4. r \in ml + 2 .. ml + pl + 1 => ~(r = 0) /\ ~(r \in 1 .. ml) /\ ~(r = ml + 1) /\ ~(r \in ml + pl + 2 .. ml + pl + 10)
  OBVIOUS
<1>5. r \in ml + pl + 2 .. ml + pl + 10 => ~(r = 0) /\ ~(r \in 1 .. ml) /\ ~(r = ml + 1) /\ ~(r \in ml + 2 .. ml + pl + 1)
  OBVIOUS
<1>6. QED
  BY <1>1, <1>2, <1>3, <1>4, <1>5, Zenon

(* Where on its line a request is. *)
RequestPlace(p, st, f, m, r) ==
    /\ r = 0 => p.state = "s_start_req" /\ p.marks = {} /\ st = NoStrings
    /\ r \in 1 .. Len(m.method) => /\ p.state = "s_req_method" /\ p.index = r /\ p.method = Tried[m.method][r]
                        /\ p.marks = {} /\ st = NoStrings
    /\ r = Len(m.method) + 1 => /\ p.state = "s_req_spaces_before_url" /\ p.method = m.method
                     /\ p.marks = {} /\ st = NoStrings
    /\ r \in Len(m.method) + 2 .. Len(m.method) + Len(m.path) + 1 =>
          /\ p.state \in UrlStates /\ p.method = m.method
          /\ p.marks = {"url"} /\ st = Only("url", First(m.path, r - Len(m.method) - 1))
    /\ r \in Len(m.method) + Len(m.path) + 2 .. Len(m.method) + Len(m.path) + 10 =>
          /\ p.state = VersionStates[r - Len(m.method) - Len(m.path) - 1] /\ p.method = m.method
          /\ p.marks = {} /\ st = NoStrings
          /\ f.url = m.path /\ f.method = m.method

(* The parts of a request line, by the place. *)
LEMMA RequestAt ==
    ASSUME NEW p, NEW st, NEW f, NEW m, NEW r, OnRequestLine(p, st, f, m, r),
           Len(m.method) \in Nat \ {0}, Len(m.path) \in Nat \ {0}
    PROVE  RequestPlace(p, st, f, m, r)
<1> DEFINE ml == Len(m.method)
           pl == Len(m.path)
           A == p.state = "s_start_req" /\ p.marks = {} /\ st = NoStrings
           B == /\ p.state = "s_req_method" /\ p.index = r /\ p.method = Tried[m.method][r]
                /\ p.marks = {} /\ st = NoStrings
           C == /\ p.state = "s_req_spaces_before_url" /\ p.method = m.method
                /\ p.marks = {} /\ st = NoStrings
           D == /\ p.state \in UrlStates /\ p.method = m.method
                /\ p.marks = {"url"} /\ st = Only("url", First(m.path, r - ml - 1))
           E == /\ p.state = VersionStates[r - ml - pl - 1] /\ p.method = m.method
                /\ p.marks = {} /\ st = NoStrings
                /\ f.url = m.path /\ f.method = m.method
<1>1. \/ r = 0 /\ A
      \/ r \in 1 .. ml /\ B
      \/ r = ml + 1 /\ C
      \/ r \in ml + 2 .. ml + pl + 1 /\ D
      \/ r \in ml + pl + 2 .. ml + pl + 10 /\ E
  BY Zenon DEF OnRequestLine
<1>8. ml \in Nat /\ ml > 0 /\ pl \in Nat /\ pl > 0
  OBVIOUS
<1> HIDE DEF A, B, C, D, E, ml, pl
<1>2. r = 0 => A
  BY <1>1, <1>8, PartsApart, Zenon
<1>3. r \in 1 .. ml => B
  BY <1>1, <1>8, PartsApart, Zenon
<1>4. r = ml + 1 => C
  BY <1>1, <1>8, PartsApart, Zenon
<1>5. r \in ml + 2 .. ml + pl + 1 => D
  BY <1>1, <1>8, PartsApart, Zenon
<1>6. r \in ml + pl + 2 .. ml + pl + 10 => E
  BY <1>1, <1>8, PartsApart, Zenon
<1>7. QED
  BY <1>2, <1>3, <1>4, <1>5, <1>6, Zenon DEF A, B, C, D, E, ml, pl, RequestPlace

(* The name of a method. *)
LEMMA ReadingMethod ==
    ASSUME NEW m, NEW c, NEW p, NEW f, NEW w, Reads(m, c, p, f, w), m.type = "HTTP_REQUEST",
           NEW r \in 0 .. Len(m.method), f.body = <<>>, f.headers = <<>>,
           NEW st, OnRequestLine(p, st, f, m, r)
    PROVE  Onward(p, Read(p, w[r + 1]), st, f, m, c, r, w[r + 1])
<1> DEFINE ml == Len(m.method)
           pl == Len(m.path)
           line == StartLine(m)
           n == Len(line)
           methods == Tried[m.method]
           ch == w[r + 1]
           q  == Read(p, ch)
<1>1. /\ Sendable(m) /\ c \in 0 .. MaxLength /\ Sound(p) /\ ~Stopped(p) /\ p.type = m.type
      /\ w = Append(Bytes(m, c), NUL)
  BY DEF Reads
<1>2. /\ n = ml + pl + 11 /\ ml \in 1 .. 16 /\ pl \in Nat \ {0}
      /\ \A i \in 1 .. ml : line[i] = Nth(m.method, i - 1)
      /\ line[ml + 1] = SPACE
  BY <1>1, RequestBytes, Zenon
<1>3. \A k \in 1 .. n : w[k] = line[k]
  BY HeadByte, ZenonT(40)
<1>4. r \in 0 .. ml
  OBVIOUS
<1> HIDE DEF line, n, ml, pl
<1>7. ml \in Nat /\ ml > 0 /\ pl \in Nat /\ pl > 0 /\ n = ml + pl + 11 /\ r \in Nat
  BY <1>2, <1>4
<1>15. r + 1 < n /\ r + 1 # 0 /\ r <= ml /\ r + 1 \in 1 .. n
  BY <1>7, <1>4
<1>16. /\ r < ml => ch = Nth(m.method, r)
       /\ r = ml => ch = SPACE
  <2>1. r < ml => r + 1 \in 1 .. ml /\ (r + 1) - 1 = r
    BY <1>7
  <2>2. w[r + 1] = line[r + 1]
    BY <1>3, <1>15, Zenon
  <2>3. r < ml => line[r + 1] = Nth(m.method, (r + 1) - 1)
    BY <1>2, <2>1, Zenon
  <2>4. r = ml => line[r + 1] = SPACE
    BY <1>2, Zenon
  <2>5. QED
    BY <2>1, <2>2, <2>3, <2>4, Zenon
<1>17. /\ r = 0 => p.state = "s_start_req" /\ p.marks = {} /\ st = NoStrings
       /\ r \in 1 .. ml => /\ p.state = "s_req_method" /\ p.index = r /\ p.method = Tried[m.method][r]
                           /\ p.marks = {} /\ st = NoStrings
  <2>1. Len(m.method) \in Nat \ {0} /\ Len(m.path) \in Nat \ {0}
    BY <1>7 DEF ml, pl
  <2>2. RequestPlace(p, st, f, m, r)
    BY <2>1, RequestAt, Zenon
  <2>3. QED
    BY <2>2, Zenon DEF RequestPlace, ml
<1>5. m.method \in MethodNames
  BY <1>1, SendableParts
<1>6. /\ \A i \in 0 .. ml - 1 : Nth(m.method, i) \in ALPHA \cup {"-"}
      /\ Nth(m.method, 0) \in ALPHA
      /\ {x \in FirstMethods : Nth(x, 0) = Nth(m.method, 0)} = {methods[1]}
      /\ \A i \in 1 .. ml - 1 :
            \/ Nth(methods[i], i) = Nth(m.method, i) /\ methods[i + 1] = methods[i]
            \/ /\ Nth(methods[i], i) # Nth(m.method, i)
               /\ \E o \in OtherMethods :
                     /\ {x \in OtherMethods : x[1] = methods[i] /\ x[2] = i /\ x[3] = Nth(m.method, i)} = {o}
                     /\ methods[i + 1] = o[4]
      /\ methods[ml] = m.method
  BY <1>5, MethodsAssumption, Zenon DEF ml
(* The next byte of a line that has begun. *)
<1>8. ASSUME NEW D, NEW s, "type" \notin D, "exited" \notin D, Got(p, q, D, s, {}, {}, {}), p.marks = {}, st = NoStrings,
             OnRequestLine(q, NoStrings, f, m, r + 1)
      PROVE  Onward(p, q, st, f, m, c, r, ch)
  <2>1. Reading(q, NoStrings, f, m, c, r + 1)
    BY <1>8, <1>15, Zenon DEF Reading, n, line
  <2> HIDE DEF q, ch
  <2>2. Onward(p, q, NoStrings, f, m, c, r, ch)
    BY <1>8, <2>1, OnwardNothing, Zenon
  <2>3. QED
    BY <1>8, <2>2
<1>9. CASE Failed(q)
  BY <1>9, Zenon DEF Onward
<1> HIDE DEF q, ch, methods
<1>10. CASE r = 0 /\ ~Failed(q)
  <2>1. p.state = "s_start_req" /\ p.marks = {} /\ st = NoStrings
    BY <1>17, <1>10, Zenon
  <2>2. ch \in ALPHA /\ OnlyFirst(ch, methods[1])
    BY <1>16, <1>6, <1>7, <1>10 DEF OnlyFirst
  <2>9. Begins(p, q, methods[1])
    BY <1>1, <1>10, <2>1, <2>2, MethodBegins, Zenon DEF q
  <2>3. /\ Got(p, q, {"method", "index", "flags", "content_length"}, "s_req_method", {}, {}, {})
        /\ q.method = methods[1] /\ q.index = 1
    BY <2>9, Zenon DEF Begins
  <2>4. q.state = "s_req_method" /\ q.marks = {}
    BY <2>3, GotIs
  <2>5. r + 1 = 1 /\ 1 \in 1 .. ml
    BY <1>7, <1>10
  <2>6. OnRequestLine(q, NoStrings, f, m, r + 1)
    BY <2>3, <2>4, <2>5, Zenon DEF OnRequestLine, methods, ml
  <2>7. /\ "type" \notin {"method", "index", "flags", "content_length"}
        /\ "exited" \notin {"method", "index", "flags", "content_length"}
    OBVIOUS
  <2>8. QED
    BY <1>8, <2>1, <2>3, <2>6, <2>7, Zenon DEF q, ch
<1>11. CASE r \in 1 .. ml - 1 /\ ~Failed(q)
  <2>1. p.state = "s_req_method" /\ p.marks = {} /\ st = NoStrings /\ p.index = r /\ p.method = methods[r]
    <3>1. r \in 1 .. ml
      BY <1>11, <1>7
    <3>2. QED
      BY <1>17, <3>1, Zenon DEF methods
  <2>2. ch = Nth(m.method, r) /\ ch \in ALPHA \cup {"-"} /\ r + 1 \in 1 .. ml
    BY <1>16, <1>6, <1>7, <1>11
  <2>3. ch # NUL /\ ch # SPACE
    <3>1. ALPHA \subseteq TOKEN /\ SPACE \notin TOKEN
      BY LetterApart, Zenon
    <3>2. SPACE # "-"
      BY Zenon DEF SPACE
    <3>3. QED
      BY <2>2, <3>1, <3>2, TextAssumption, LettersAssumption, Zenon
  <2>4. \E D : /\ "type" \notin D /\ "exited" \notin D /\ Got(p, q, D, "s_req_method", {}, {}, {})
               /\ q.index = r + 1 /\ q.method = methods[r + 1]
    <3>1. CASE Nth(methods[r], r) = Nth(m.method, r) /\ methods[r + 1] = methods[r]
      <4>1. Got(p, q, {"index"}, "s_req_method", {}, {}, {}) /\ q.index = p.index + 1
        BY <1>1, <1>11, <2>1, <2>2, <2>3, <3>1, ReadMethodNext, Zenon DEF q, ch
      <4>2. q.method = p.method
        BY <4>1, GotIs
      <4>3. "type" \notin {"index"} /\ "exited" \notin {"index"}
        OBVIOUS
      <4>4. QED
        BY <2>1, <3>1, <4>1, <4>2, <4>3, Zenon
    <3>2. CASE /\ Nth(methods[r], r) # Nth(m.method, r)
               /\ \E o \in OtherMethods :
                     /\ {x \in OtherMethods : x[1] = methods[r] /\ x[2] = r /\ x[3] = Nth(m.method, r)} = {o}
                     /\ methods[r + 1] = o[4]
      <4>1. PICK o \in OtherMethods :
                     /\ {x \in OtherMethods : x[1] = methods[r] /\ x[2] = r /\ x[3] = Nth(m.method, r)} = {o}
                     /\ methods[r + 1] = o[4]
        BY <3>2, Zenon
      <4>2. /\ Got(p, q, {"index", "method"}, "s_req_method", {}, {}, {})
            /\ q.index = p.index + 1 /\ q.method = o[4]
        <5>1. OnlyOther(p.method, p.index, ch, o)
          BY <2>1, <2>2, <4>1, Zenon DEF OnlyOther
        <5>2. ch # Nth(p.method, p.index)
          BY <2>1, <2>2, <3>2, Zenon
        <5>3. Swerves(p, q, o[4])
          BY <1>1, <1>11, <2>1, <2>3, <5>1, <5>2, MethodSwerves, Zenon DEF q
        <5>4. QED
          BY <5>3, Zenon DEF Swerves
      <4>3. "type" \notin {"index", "method"} /\ "exited" \notin {"index", "method"}
        OBVIOUS
      <4>4. QED
        BY <2>1, <4>1, <4>2, <4>3, Zenon
    <3>3. QED
      BY <1>6, <1>11, <3>1, <3>2, Zenon
  <2>5. PICK D : /\ "type" \notin D /\ "exited" \notin D /\ Got(p, q, D, "s_req_method", {}, {}, {})
                 /\ q.index = r + 1 /\ q.method = methods[r + 1]
    BY <2>4, Zenon
  <2>6. q.state = "s_req_method" /\ q.marks = {}
    BY <2>5, GotIs
  <2>7. OnRequestLine(q, NoStrings, f, m, r + 1)
    BY <2>2, <2>5, <2>6, Zenon DEF OnRequestLine, methods, ml
  <2>8. QED
    BY <1>8, <2>1, <2>5, <2>7, Zenon DEF q, ch
<1>12. CASE r = ml /\ ~Failed(q)
  <2>1. /\ p.state = "s_req_method" /\ p.marks = {} /\ st = NoStrings
        /\ p.index = ml /\ p.method = m.method
    <3>1. r \in 1 .. ml
      BY <1>12, <1>7
    <3>2. QED
      BY <1>6, <1>12, <1>17, <3>1, Zenon DEF methods
  <2>2. ch = SPACE
    BY <1>16, <1>12, Zenon
  <2>3. Nth(p.method, p.index) = NUL
    BY <1>7, <2>1 DEF Nth, ml
  <2>4. Got(p, q, {"index"}, "s_req_spaces_before_url", {}, {}, {})
    BY <1>1, <1>12, <2>1, <2>2, <2>3, ReadMethodEnd, Zenon DEF q, ch
  <2>5. q.state = "s_req_spaces_before_url" /\ q.marks = {} /\ q.method = m.method
    BY <2>1, <2>4, GotIs
  <2>6. OnRequestLine(q, NoStrings, f, m, r + 1)
    BY <1>12, <2>5, Zenon DEF OnRequestLine, ml
  <2>7. "type" \notin {"index"} /\ "exited" \notin {"index"}
    OBVIOUS
  <2>8. QED
    BY <1>8, <2>1, <2>4, <2>6, <2>7, Zenon DEF q, ch
<1>13. r = 0 \/ r \in 1 .. ml - 1 \/ r = ml
  BY <1>7, <1>15
<1>14. QED
  BY <1>9, <1>10, <1>11, <1>12, <1>13, Zenon DEF q, ch

(* A byte of a url, and the blank after it. *)
LEMMA UrlGathers ==
    ASSUME NEW p, Sound(p), ~Stopped(p), NEW ch, ch \notin {SPACE, CR, LF}, ~Failed(Read(p, ch)),
           \/ p.state = "s_req_spaces_before_url" /\ p.marks = {}
           \/ p.state \in UrlStates /\ p.marks = {"url"}
    PROVE  /\ Gathers(p, Read(p, ch), "url") /\ Read(p, ch).state \in UrlStates
           /\ Read(p, ch).marks = {"url"} /\ Read(p, ch).type = p.type
           /\ Read(p, ch).exited = p.exited /\ Read(p, ch).method = p.method
<1> DEFINE q == Read(p, ch)
<1>1. PICK to \in UrlStates : Got(p, q, {}, to, {"url"}, {"url"}, {})
  BY ReadUrl, Zenon
<1> HIDE DEF q
<1>2. /\ q.state \in UrlStates /\ q.marks = {"url"} /\ q.data = {"url"} /\ q.calls = {}
      /\ q.type = p.type /\ q.exited = p.exited /\ q.method = p.method
  BY <1>1 DEF Got, Like
<1>3. Gathers(p, q, "url")
  BY <1>2 DEF Gathers, Names
<1>4. QED
  BY <1>2, <1>3, Zenon DEF q

(* The blank after a path gives it. *)
LEMMA UrlGives ==
    ASSUME NEW p, Sound(p), ~Stopped(p), p.state \in UrlStates, p.marks = {"url"}, ~Failed(Read(p, SPACE))
    PROVE  /\ Gives(p, Read(p, SPACE), "url") /\ Read(p, SPACE).state = "s_req_http_start"
           /\ Read(p, SPACE).marks = {} /\ Read(p, SPACE).type = p.type
           /\ Read(p, SPACE).exited = p.exited /\ Read(p, SPACE).method = p.method
<1> DEFINE q == Read(p, SPACE)
<1>1. Got(p, q, {}, "s_req_http_start", {}, {}, {})
  BY ReadUrlEnd, Zenon
<1> HIDE DEF q
<1>2. /\ q.state = "s_req_http_start" /\ q.marks = {} /\ q.data = {} /\ q.calls = {}
      /\ q.type = p.type /\ q.exited = p.exited /\ q.method = p.method
  BY <1>1 DEF Got, Like
<1>3. Gives(p, q, "url")
  BY <1>2 DEF Gives, Names
<1>4. QED
  BY <1>2, <1>3, Zenon DEF q

(* A url, from the blank in front of it to the one that ends it. *)
LEMMA ReadingUrl ==
    ASSUME NEW m, NEW c, NEW p, NEW f, NEW w, Reads(m, c, p, f, w), m.type = "HTTP_REQUEST",
           NEW d \in 0 .. Len(m.path), f.body = <<>>, f.headers = <<>>,
           NEW r, r = Len(m.method) + 1 + d,
           NEW st, OnRequestLine(p, st, f, m, r)
    PROVE  Onward(p, Read(p, w[r + 1]), st, f, m, c, r, w[r + 1])
<1> DEFINE ml == Len(m.method)
           path == m.path
           pl == Len(path)
           line == StartLine(m)
           n == Len(line)
           ch == w[r + 1]
           q  == Read(p, ch)
<1>1. /\ Sendable(m) /\ c \in 0 .. MaxLength /\ Sound(p) /\ ~Stopped(p) /\ p.type = m.type
      /\ Fielded(f)
  BY DEF Reads
<1>2. /\ n = ml + pl + 11 /\ ml \in 1 .. 16 /\ pl \in Nat \ {0}
      /\ \A i \in 1 .. pl : line[ml + 1 + i] = path[i]
      /\ \A i \in 1 .. 10 : line[ml + 1 + pl + i] = VersionLetters[i]
  BY <1>1, RequestBytes, Zenon
<1>3. \A k \in 1 .. n : w[k] = line[k]
  BY HeadByte, ZenonT(40)
<1>4. d \in 0 .. pl /\ r = ml + 1 + d
  OBVIOUS
<1>5. path \in Seq(STRING) /\ \A i \in 1 .. pl : path[i] \notin {SPACE, CR, LF}
  BY <1>1, SendableParts
<1>6. /\ First(path, 0) = <<>> /\ First(path, pl) = path
      /\ \A k \in 0 .. pl - 1 : Append(First(path, k), path[k + 1]) = First(path, k + 1)
  BY <1>5, FirstIs, Zenon
<1>17. n = ml + pl + 11 /\ ml \in 1 .. 16 /\ pl \in Nat \ {0}
  BY <1>2, Zenon
<1>7. ml \in Nat /\ ml > 0 /\ pl \in Nat /\ pl > 0 /\ ml = Len(m.method) /\ pl = Len(m.path)
  <2> HIDE DEF ml, pl, n
  <2>1. ml \in Nat /\ ml > 0 /\ pl \in Nat /\ pl > 0
    BY <1>17
  <2>2. QED
    BY <2>1, Zenon DEF ml, pl
<1>8. /\ r = ml + 1 => /\ p.state = "s_req_spaces_before_url" /\ p.method = m.method
                       /\ p.marks = {} /\ st = NoStrings
      /\ r \in ml + 2 .. ml + pl + 1 =>
            /\ p.state \in UrlStates /\ p.method = m.method
            /\ p.marks = {"url"} /\ st = Only("url", First(m.path, r - ml - 1))
  <2>1. Len(m.method) \in Nat \ {0} /\ Len(m.path) \in Nat \ {0}
    <3> HIDE DEF ml, pl, n
    <3>1. ml \in Nat \ {0} /\ pl \in Nat \ {0}
      BY <1>7
    <3>2. QED
      BY <3>1, Zenon DEF ml, pl
  <2>2. RequestPlace(p, st, f, m, r)
    BY <2>1, RequestAt, Zenon
  <2>3. QED
    BY <2>2, Zenon DEF RequestPlace, ml, pl
<1> HIDE DEF line, n, ml, pl, q, ch, path
<1>9. ml \in Nat /\ ml > 0 /\ pl \in Nat /\ pl > 0 /\ n = ml + pl + 11
  BY <1>17
<1>10. /\ r + 1 \in 1 .. n
       /\ r + 1 < n
       /\ r - ml - 1 = d
       /\ d = 0 => r = ml + 1
       /\ d > 0 => r \in ml + 2 .. ml + pl + 1
       /\ d < pl => /\ d + 1 \in 1 .. pl /\ r + 1 = ml + 1 + (d + 1)
                    /\ r + 1 \in ml + 2 .. ml + pl + 1
                    /\ (r + 1) - ml - 1 = d + 1 /\ d \in 0 .. pl - 1
       /\ d = pl => /\ r + 1 = ml + 1 + pl + 1 /\ r + 1 \in ml + pl + 2 .. ml + pl + 10
                    /\ (r + 1) - ml - pl - 1 = 1 /\ d > 0
       /\ d < pl \/ d = pl
  BY <1>4, <1>9
<1>11. ch = w[r + 1] /\ w[r + 1] = line[r + 1]
  BY <1>3, <1>10, Zenon DEF ch
<1>12. /\ p.method = m.method /\ st = Only("url", First(path, d))
       /\ d = 0 => p.state = "s_req_spaces_before_url" /\ p.marks = {}
       /\ d > 0 => p.state \in UrlStates /\ p.marks = {"url"}
  <2>1. CASE d = 0
    <3>1. NoStrings = Only("url", <<>>)
      BY OnlyIs, Zenon DEF Names
    <3>2. ~(d > 0)
      BY <2>1
    <3>3. QED
      BY <1>6, <1>8, <1>10, <2>1, <3>1, <3>2, Zenon
  <2>2. CASE d > 0
    <3>1. ~(d = 0)
      BY <2>2
    <3>2. QED
      BY <1>8, <1>10, <2>2, <3>1, Zenon DEF path
  <2>3. d = 0 \/ d > 0
    BY <1>4, <1>9
  <2>4. QED
    BY <2>1, <2>2, <2>3, Zenon
<1>13. CASE Failed(q)
  BY <1>13, Zenon DEF Onward, q, ch
<1>14. CASE d < pl /\ ~Failed(q)
  <2>1. ch = path[d + 1] /\ ch \notin {SPACE, CR, LF}
    BY <1>2, <1>5, <1>10, <1>11, <1>14, ZenonT(40)
  <2>2. \/ p.state = "s_req_spaces_before_url" /\ p.marks = {}
        \/ p.state \in UrlStates /\ p.marks = {"url"}
    BY <1>4, <1>9, <1>12
  <2>3. /\ Gathers(p, q, "url") /\ q.state \in UrlStates /\ q.marks = {"url"}
        /\ q.type = p.type /\ q.exited = p.exited /\ q.method = p.method
    BY <1>1, <1>14, <2>1, <2>2, UrlGathers, ZenonT(40) DEF q
  <2>4. q.method = m.method
    BY <1>12, <2>3
  <2>5. Append(First(path, d), ch) = First(path, d + 1)
    BY <1>6, <1>10, <1>14, <2>1, Zenon
  <2>6. OnRequestLine(q, Only("url", First(path, d + 1)), f, m, r + 1)
    BY <1>10, <1>14, <2>3, <2>4, Zenon DEF OnRequestLine, ml, pl, path
  <2>7. Reading(q, Only("url", First(path, d + 1)), f, m, c, r + 1)
    BY <1>10, <2>6, Zenon DEF Reading, n, line
  <2>8. Turns(p, q, Only("url", First(path, d)), ch, f, Only("url", Append(First(path, d), ch)), f)
    BY <2>3, Gathered, Zenon
  <2>9. Turns(p, q, st, ch, f, Only("url", First(path, d + 1)), f)
    BY <1>12, <2>5, <2>8
  <2>10. QED
    BY <2>3, <2>7, <2>9, OnwardTurns, Zenon DEF q, ch
<1>15. CASE d = pl /\ ~Failed(q)
  <2>1. ch = SPACE
    <3>1. line[ml + 1 + pl + 1] = VersionLetters[1]
      <4>1. 1 \in 1 .. 10
        OBVIOUS
      <4>2. QED
        BY <1>2, <4>1, Zenon
    <3>2. QED
      BY <1>10, <1>11, <1>15, <3>1, VersionText, Zenon DEF VersionLetters
  <2>2. p.state \in UrlStates /\ p.marks = {"url"} /\ st = Only("url", path)
    BY <1>6, <1>10, <1>12, <1>15, Zenon
  <2>3. Read(p, SPACE) = q
    BY <2>1 DEF q
  <2>11. ~Failed(Read(p, SPACE))
    BY <2>3, <1>15
  <2>12. /\ Gives(p, Read(p, SPACE), "url") /\ Read(p, SPACE).state = "s_req_http_start"
         /\ Read(p, SPACE).marks = {} /\ Read(p, SPACE).type = p.type
         /\ Read(p, SPACE).exited = p.exited /\ Read(p, SPACE).method = p.method
    BY <1>1, <2>2, <2>11, UrlGives, Zenon
  <2>4. /\ Gives(p, q, "url") /\ q.state = "s_req_http_start" /\ q.marks = {}
        /\ q.type = p.type /\ q.exited = p.exited /\ q.method = m.method
    BY <1>12, <2>3, <2>12
  <2> DEFINE g == on_url_by(q, f, path)
  <2>5. Turns(p, q, Only("url", path), ch, f, NoStrings, g)
    BY <2>4, UrlGiven, Zenon
  <2>6. g.url = path /\ g.method = m.method /\ g.headers = <<>> /\ g.body = <<>>
    <3>1. UrlPut(f, g, q, path)
      BY <1>1, UrlIsPut, Zenon
    <3> HIDE DEF g
    <3>2. QED
      BY <2>4, <3>1 DEF UrlPut
  <2>7. VersionStates[1] = "s_req_http_start"
    BY DEF VersionStates
  <2> HIDE DEF g
  <2>8. OnRequestLine(q, NoStrings, g, m, r + 1)
    BY <1>10, <1>15, <2>4, <2>6, <2>7, Zenon DEF OnRequestLine, ml, pl, path
  <2>9. Reading(q, NoStrings, g, m, c, r + 1)
    BY <1>10, <2>6, <2>8, Zenon DEF Reading, n, line
  <2>10. Turns(p, q, st, ch, f, NoStrings, g)
    BY <2>2, <2>5
  <2>13. QED
    BY <2>4, <2>9, <2>10, OnwardTurns, Zenon DEF q, ch
<1>16. QED
  BY <1>10, <1>13, <1>14, <1>15, Zenon DEF q, ch

(* A byte of a version: where the parser goes with it. *)
LEMMA VersionByte ==
    ASSUME NEW p, Sound(p), ~Stopped(p), NEW k \in 1 .. 9, p.state = VersionStates[k], p.marks = {},
           NEW ch, ch = VersionLetters[k + 1]
    PROVE  LET q == Read(p, ch)
           IN  \/ Failed(q) /\ Crowded(p)
               \/ /\ k < 9 => Got(p, q, {}, VersionStates[k + 1], {}, {}, {})
                  /\ k = 9 => Got(p, q, {}, "s_header_field_start", {}, {}, {})
<1> DEFINE q == Read(p, ch)
           t == VersionLetters
<1> SUFFICES ASSUME ~(Failed(q) /\ Crowded(p))
             PROVE  /\ k < 9 => Got(p, q, {}, VersionStates[k + 1], {}, {}, {})
                    /\ k = 9 => Got(p, q, {}, "s_header_field_start", {}, {}, {})
  OBVIOUS
<1>1. /\ t[2] = "H" /\ t[3] = "T" /\ t[4] = "T" /\ t[5] = "P"
      /\ t[6] = "/" /\ t[7] = "1" /\ t[8] = "." /\ t[9] = "1" /\ t[10] = LF
  BY VersionText, Zenon DEF VersionLetters
<1>2. /\ VersionStates[1] = "s_req_http_start" /\ VersionStates[2] = "s_req_http_H"
      /\ VersionStates[3] = "s_req_http_HT" /\ VersionStates[4] = "s_req_http_HTT"
      /\ VersionStates[5] = "s_req_http_HTTP" /\ VersionStates[6] = "s_req_first_http_major"
      /\ VersionStates[7] = "s_req_http_major" /\ VersionStates[8] = "s_req_first_http_minor"
      /\ VersionStates[9] = "s_req_http_minor"
  BY DEF VersionStates
<1>3. k = 1 \/ k = 2 \/ k = 3 \/ k = 4 \/ k = 5 \/ k = 6 \/ k = 7 \/ k = 8 \/ k = 9
  OBVIOUS
<1>4. \A i \in 1 .. 9 : VersionStates[i] \in Lines \cap States
  BY DEF VersionStates, Lines, States, Lasting
<1>5. p.passed = 0 /\ p.state \notin ChunkStates /\ p.state # "s_body_identity"
  <2>1. p.state \in Lines
    BY <1>4
  <2>2. p.state \notin ChunkStates /\ p.state \notin Loops /\ p.state # "s_body_identity"
    BY <2>1, Disjoint DEF Bodies
  <2>3. QED
    BY <2>2, Outside
<1>6. "s_header_field_start" \in States
  BY DEF States, Lasting, Heads
<1>7. ASSUME NEW to \in States, Moved(p.state, ch) = {<<p.state, ch, to>>}
      PROVE  Got(p, q, {}, to, {}, {}, {})
  BY <1>5, <1>7, MoveRead, Zenon
<1> HIDE DEF t, q
<1>8. CASE k = 1
  <2>1. ch = "H" /\ k + 1 = 2 /\ k # 9
    BY <1>1, <1>8 DEF t
  <2>2. QED
    BY <1>2, <1>4, <1>7, <1>8, <2>1, RequestMoves
<1>9. CASE k = 2
  <2>1. ch = "T" /\ k + 1 = 3 /\ k # 9
    BY <1>1, <1>9 DEF t
  <2>2. QED
    BY <1>2, <1>4, <1>7, <1>9, <2>1, RequestMoves
<1>10. CASE k = 3
  <2>1. ch = "T" /\ k + 1 = 4 /\ k # 9
    BY <1>1, <1>10 DEF t
  <2>2. QED
    BY <1>2, <1>4, <1>7, <1>10, <2>1, RequestMoves
<1>11. CASE k = 4
  <2>1. ch = "P" /\ k + 1 = 5 /\ k # 9
    BY <1>1, <1>11 DEF t
  <2>2. QED
    BY <1>2, <1>4, <1>7, <1>11, <2>1, RequestMoves
<1>12. CASE k = 5
  <2>1. ch = "/" /\ k + 1 = 6 /\ k # 9
    BY <1>1, <1>12 DEF t
  <2>2. QED
    BY <1>2, <1>4, <1>7, <1>12, <2>1, RequestMoves
<1>13. CASE k = 6
  <2>1. ch = "1" /\ k + 1 = 7 /\ k # 9
    BY <1>1, <1>13 DEF t
  <2>2. <<"http_major", "s_req_first_http_major", "s_req_http_major", "INVALID_VERSION">> \in Numbers
    BY DEF Numbers
  <2>3. Got(p, q, {}, "s_req_http_major", {}, {}, {})
    BY <1>2, <1>13, <2>1, <2>2, ReadVersion DEF q
  <2>4. QED
    BY <1>2, <1>13, <2>1, <2>3
<1>14. CASE k = 7
  <2>1. ch = "." /\ k + 1 = 8 /\ k # 9
    BY <1>1, <1>14 DEF t
  <2>2. QED
    BY <1>2, <1>4, <1>7, <1>14, <2>1, RequestMoves
<1>15. CASE k = 8
  <2>1. ch = "1" /\ k + 1 = 9 /\ k # 9
    BY <1>1, <1>15 DEF t
  <2>2. <<"http_minor", "s_req_first_http_minor", "s_req_http_minor", "INVALID_VERSION">> \in Numbers
    BY DEF Numbers
  <2>3. Got(p, q, {}, "s_req_http_minor", {}, {}, {})
    BY <1>2, <1>15, <2>1, <2>2, ReadVersion DEF q
  <2>4. QED
    BY <1>2, <1>15, <2>1, <2>3
<1>16. CASE k = 9
  <2>1. ch = LF /\ ~(k < 9)
    BY <1>1, <1>16 DEF t
  <2>2. QED
    BY <1>2, <1>6, <1>7, <1>16, <2>1, RequestMoves, Zenon
<1>17. QED
  BY <1>3, <1>8, <1>9, <1>10, <1>11, <1>12, <1>13, <1>14, <1>15, <1>16, Zenon DEF q

(* The version of a request, and the end of its line. *)
At(r, x) == r = x

(* The end of a request line is read. *)
LEMMA ReadingVersion ==
    ASSUME NEW m, NEW c, NEW p, NEW f, NEW w, Reads(m, c, p, f, w), m.type = "HTTP_REQUEST",
           NEW k \in 1 .. 9, f.body = <<>>, f.headers = <<>>,
           NEW r, At(r, Len(m.method) + Len(m.path) + 1 + k),
           NEW st, OnRequestLine(p, st, f, m, r)
    PROVE  Onward(p, Read(p, w[r + 1]), st, f, m, c, r, w[r + 1])
<1> DEFINE ml == Len(m.method)
           pl == Len(m.path)
           line == StartLine(m)
           n == Len(line)
           ch == w[r + 1]
           q  == Read(p, ch)
<1>1. /\ Sendable(m) /\ c \in 0 .. MaxLength /\ Sound(p) /\ ~Stopped(p) /\ p.type = m.type
      /\ Fielded(f)
  BY DEF Reads
<1>2. /\ n = ml + pl + 11 /\ ml \in 1 .. 16 /\ pl \in Nat \ {0}
      /\ \A i \in 1 .. 10 : line[ml + 1 + pl + i] = VersionLetters[i]
  BY <1>1, RequestBytes, Zenon
<1>3. \A j \in 1 .. n : w[j] = line[j]
  BY HeadByte
<1>4. r = ml + pl + 1 + k
  BY Zenon DEF At
<1>5. n = ml + pl + 11 /\ ml \in 1 .. 16 /\ pl \in Nat \ {0}
  BY <1>2, Zenon
<1> HIDE DEF line, n, ml, pl, q, ch
<1>7. ml \in Nat /\ ml > 0 /\ pl \in Nat /\ pl > 0 /\ n = ml + pl + 11
  BY <1>5
<1>17. r \in ml + pl + 2 .. ml + pl + 10
  BY <1>4, <1>7
<1>18. r - ml - pl - 1 = k
  BY <1>4, <1>7
<1>19. r + 1 \in 1 .. n
  BY <1>4, <1>7
<1>20. k + 1 \in 1 .. 10
  BY <1>4, <1>7
<1>21. r + 1 = ml + 1 + pl + (k + 1)
  BY <1>4, <1>7
<1>22. k < 9 \/ k = 9
  OBVIOUS
<1>23. k < 9 => r + 1 < n
  BY <1>4, <1>7
<1>24. k < 9 =>  r + 1 \in ml + pl + 2 .. ml + pl + 10
  BY <1>4, <1>7
<1>25. k < 9 =>  (r + 1) - ml - pl - 1 = k + 1
  BY <1>4, <1>7
<1>26. k = 9 => r + 1 = n
  BY <1>4, <1>7
<1>8. /\ r \in ml + pl + 2 .. ml + pl + 10
      /\ r - ml - pl - 1 = k
      /\ r + 1 \in 1 .. n
      /\ k + 1 \in 1 .. 10
      /\ r + 1 = ml + 1 + pl + (k + 1)
      /\ k < 9 \/ k = 9
  BY <1>17, <1>18, <1>19, <1>20, <1>21, <1>22, Zenon
<1>9. /\ k < 9 => /\ r + 1 < n /\ r + 1 \in ml + pl + 2 .. ml + pl + 10
                 /\ (r + 1) - ml - pl - 1 = k + 1
      /\ k = 9 => r + 1 = n
  BY <1>23, <1>24, <1>25, <1>26, Zenon
<1>10. /\ p.state = VersionStates[k] /\ p.method = m.method
       /\ p.marks = {} /\ st = NoStrings
       /\ f.url = m.path /\ f.method = m.method
  <2>1. ml \in Nat \ {0} /\ pl \in Nat \ {0}
    BY <1>7
  <2>2. Len(m.method) \in Nat \ {0} /\ Len(m.path) \in Nat \ {0}
    BY <2>1, Zenon DEF ml, pl
  <2>3. RequestPlace(p, st, f, m, r)
    BY <2>2, RequestAt, Zenon
  <2>4. r \in Len(m.method) + Len(m.path) + 2 .. Len(m.method) + Len(m.path) + 10
    BY <1>8, Zenon DEF ml, pl
  <2>5. /\ p.state = VersionStates[r - ml - pl - 1] /\ p.method = m.method
        /\ p.marks = {} /\ st = NoStrings
        /\ f.url = m.path /\ f.method = m.method
    BY <2>3, <2>4, Zenon DEF RequestPlace, ml, pl
  <2>6. r - ml - pl - 1 = k
    BY <1>8, Zenon
  <2>7. QED
    BY <2>5, <2>6
<1>11. ch = VersionLetters[k + 1]
  BY <1>2, <1>3, <1>8, Zenon DEF ch
<1>12. \/ Failed(q)
       \/ /\ k < 9 => Got(p, q, {}, VersionStates[k + 1], {}, {}, {})
          /\ k = 9 => Got(p, q, {}, "s_header_field_start", {}, {}, {})
  BY <1>1, <1>10, <1>11, VersionByte, Zenon DEF q, ch
<1>13. CASE Failed(q)
  BY <1>13, Zenon DEF Onward, q, ch
<1>14. CASE k < 9 /\ ~Failed(q)
  <2>1. Got(p, q, {}, VersionStates[k + 1], {}, {}, {})
    BY <1>12, <1>14, Zenon
  <2>2. q.state = VersionStates[k + 1] /\ q.marks = {} /\ q.type = p.type /\ q.exited = p.exited /\ q.method = m.method
    BY <1>10, <2>1, GotIs
  <2>4. OnRequestLine(q, NoStrings, f, m, r + 1)
    BY <1>9, <1>10, <1>14, <2>2, Zenon DEF OnRequestLine, ml, pl
  <2>5. Reading(q, NoStrings, f, m, c, r + 1)
    BY <1>9, <1>14, <2>4, Zenon DEF Reading, n, line
  <2>6. Onward(p, q, NoStrings, f, m, c, r, ch)
    BY <1>10, <2>1, <2>5, OnwardNothing
  <2>7. QED
    BY <1>10, <2>6 DEF q, ch
<1>15. CASE k = 9 /\ ~Failed(q)
  <2>1. Got(p, q, {}, "s_header_field_start", {}, {}, {})
    BY <1>12, <1>15, Zenon
  <2>2. q.state = "s_header_field_start" /\ q.marks = {} /\ q.type = p.type /\ q.exited = p.exited /\ q.method = m.method
        /\ q.flags = p.flags
    BY <1>10, <2>1, GotIs
  <2>4. p.flags = {}
    <3>1. \A i \in 1 .. 9 : VersionStates[i] \in Lines
      BY DEF VersionStates, Lines
    <3>2. QED
      BY <1>1, <1>10, <3>1 DEF Sound, Flagging, Stopped
  <2>5. Begun(q, f, m)
    <3>1. m.type # "HTTP_RESPONSE"
      OBVIOUS
    <3>2. QED
      BY <1>10, <2>2, <2>4, <3>1 DEF Begun
  <2>6. 1 \in 1 .. Count(m) /\ r + 1 = Start(m, c, 1)
    <3>1. Len(m.headers) \in Nat
      BY <1>1, HeadersAre
    <3>2. Count(m) = Len(m.headers) + 1
      BY DEF Count
    <3>3. Start(m, c, 1) = Len(StartLine(m))
      BY <1>1, StartIs, Zenon
    <3>4. 1 \in 1 .. Count(m)
      BY <3>1, <3>2
    <3>5. QED
      BY <1>9, <1>15, <3>3, <3>4, Zenon DEF n, line
  <2>7. HeadersRead(q, f) = HeadersBefore(m, c, 1)
    BY <2>2, HeadersFirst DEF HeadersRead
  <2>8. q.state \in LineStates
    BY <2>2 DEF LineStates
  <2>9. Reading(q, NoStrings, f, m, c, r + 1)
    <3>1. Reading(q, NoStrings, f, m, c, Start(m, c, 1))
      BY <1>1, <2>2, <2>5, <2>6, <2>7, <2>8, LineNext, Zenon
    <3>2. QED
      BY <2>6, <3>1, Zenon
  <2>10. Onward(p, q, NoStrings, f, m, c, r, ch)
    BY <1>10, <2>1, <2>9, OnwardNothing
  <2>11. QED
    BY <1>10, <2>10 DEF q, ch
<1>16. QED
  BY <1>8, <1>13, <1>14, <1>15, Zenon DEF q, ch

(* A request's line. *)
LEMMA ReadingRequestLine ==
    ASSUME NEW m, NEW c, NEW p, NEW f, NEW w, Reads(m, c, p, f, w), m.type = "HTTP_REQUEST",
           NEW r \in Nat, r < Len(StartLine(m)), f.body = <<>>, f.headers = <<>>,
           NEW st, OnRequestLine(p, st, f, m, r)
    PROVE  Onward(p, Read(p, w[r + 1]), st, f, m, c, r, w[r + 1])
<1> DEFINE ml == Len(m.method)
           pl == Len(m.path)
           n  == Len(StartLine(m))
<1>1. Sendable(m)
  BY DEF Reads
<1>2. n = ml + pl + 11 /\ ml \in 1 .. 16 /\ pl \in Nat \ {0}
  BY <1>1, RequestBytes, Zenon
<1>3. r < n
  OBVIOUS
<1> HIDE DEF ml, pl, n
<1>4. ml \in Nat /\ pl \in Nat
  BY <1>2
<1>5. \/ r \in 0 .. ml
      \/ r - ml - 1 \in 0 .. pl /\ r = ml + 1 + (r - ml - 1)
      \/ r - ml - pl - 1 \in 1 .. 9 /\ r = ml + pl + 1 + (r - ml - pl - 1)
  BY <1>2, <1>3, <1>4
<1>6. CASE r \in 0 .. ml
  BY <1>6, ReadingMethod, Zenon DEF ml
<1>7. ASSUME NEW d \in 0 .. pl, r = ml + 1 + d
      PROVE  Onward(p, Read(p, w[r + 1]), st, f, m, c, r, w[r + 1])
  BY <1>7, ReadingUrl, Zenon DEF ml, pl
<1>8. ASSUME NEW k \in 1 .. 9, r = ml + pl + 1 + k
      PROVE  Onward(p, Read(p, w[r + 1]), st, f, m, c, r, w[r + 1])
  BY <1>8, ReadingVersion, Zenon DEF ml, pl, At
<1>9. QED
  BY <1>5, <1>6, <1>7, <1>8, Zenon
-----------------------------------------------------------------------------
(* The states of a status line belong to a line. *)
LEMMA StatusStatesAre ==
    /\ \A i \in 1 .. 16 : StatusStates[i] \in States /\ StatusStates[i] \notin ChunkStates \cup Loops \cup Bodies
    /\ \A i \in 2 .. 16 : StatusStates[i] \in Lines
<1>1. \A i \in 2 .. 16 : StatusStates[i] \in Lines
  BY DEF StatusStates, Lines
<1>2. StatusStates[1] = "s_start_res" /\ "s_start_res" \in Idle
  BY DEF StatusStates, Idle
<1>3. Lines \cup Idle \subseteq States /\ (Lines \cup Idle) \cap (ChunkStates \cup Loops \cup Bodies) = {}
  BY Disjoint DEF States, Lasting
<1>4. \A i \in 1 .. 16 : i = 1 \/ i \in 2 .. 16
  OBVIOUS
<1>5. \A i \in 1 .. 16 : StatusStates[i] \in Lines \cup Idle
  BY <1>1, <1>2, <1>4
<1>6. QED
  BY <1>1, <1>3, <1>5, Zenon

(* A byte of a status line: the first also forgets what the last message had. *)
Headway(p, q, s) ==
    \E D \in {{}, {"flags", "content_length"}} :
        ("flags" \in D => q.flags = {}) /\ Got(p, q, D, s, {}, {}, {})

(* The version of a response, and the blank after it. *)
LEMMA StatusByte ==
    ASSUME NEW p, Sound(p), ~Stopped(p), NEW k \in 1 .. 9, p.state = StatusStates[k], p.marks = {},
           NEW ch, ch = StatusLetters[k]
    PROVE  LET q == Read(p, ch)
           IN  \/ Failed(q) /\ Crowded(p)
               \/ Headway(p, q, StatusStates[k + 1])
<1> DEFINE q == Read(p, ch)
           t == StatusLetters
<1> SUFFICES ASSUME ~(Failed(q) /\ Crowded(p))
             PROVE  Headway(p, q, StatusStates[k + 1])
  OBVIOUS
<1>1. /\ t[1] = "H" /\ t[2] = "T" /\ t[3] = "T" /\ t[4] = "P" /\ t[5] = "/"
      /\ t[6] = "1" /\ t[7] = "." /\ t[8] = "1" /\ t[9] = SPACE
  BY StatusText, Zenon DEF StatusLetters
<1>2. /\ StatusStates[1] = "s_start_res" /\ StatusStates[2] = "s_res_H"
      /\ StatusStates[3] = "s_res_HT" /\ StatusStates[4] = "s_res_HTT"
      /\ StatusStates[5] = "s_res_HTTP" /\ StatusStates[6] = "s_res_first_http_major"
      /\ StatusStates[7] = "s_res_http_major" /\ StatusStates[8] = "s_res_first_http_minor"
      /\ StatusStates[9] = "s_res_http_minor" /\ StatusStates[10] = "s_res_first_status_code"
  BY DEF StatusStates
<1>3. k = 1 \/ k = 2 \/ k = 3 \/ k = 4 \/ k = 5 \/ k = 6 \/ k = 7 \/ k = 8 \/ k = 9
  OBVIOUS
<1>4. /\ p.passed = 0 /\ p.state \notin ChunkStates /\ p.state # "s_body_identity"
      /\ StatusStates[k + 1] \in States
  <2>1. k \in 1 .. 16 /\ k + 1 \in 1 .. 16
    OBVIOUS
  <2>2. p.state \notin ChunkStates /\ p.state \notin Loops /\ p.state # "s_body_identity"
    BY <2>1, StatusStatesAre DEF Bodies
  <2>3. QED
    BY <2>1, <2>2, Outside, StatusStatesAre
<1>5. ASSUME NEW to, to \in States, Moved(p.state, ch) = {<<p.state, ch, to>>}
      PROVE  Headway(p, q, to)
  <2>1. Got(p, q, {}, to, {}, {}, {})
    BY <1>4, <1>5, MoveRead, Zenon
  <2>2. QED
    BY <2>1, Zenon DEF Headway
<1> HIDE DEF t, q
<1>6. CASE k = 1
  <2>1. ch = "H" /\ k + 1 = 2
    BY <1>1, <1>6 DEF t
  <2>2. Got(p, q, {"flags", "content_length"}, "s_res_H", {}, {}, {}) /\ q.flags = {}
    BY <1>2, <1>6, <2>1, ReadStartResponse DEF q
  <2>3. QED
    BY <1>2, <2>1, <2>2, Zenon DEF Headway
<1>7. CASE k = 2
  <2>1. ch = "T" /\ k + 1 = 3
    BY <1>1, <1>7 DEF t
  <2>2. Moved(p.state, ch) = {<<p.state, ch, StatusStates[k + 1]>>}
    BY <1>2, <1>7, <2>1, ResponseMoves, Zenon
  <2>3. QED
    BY <1>4, <1>5, <2>2, Zenon
<1>8. CASE k = 3
  <2>1. ch = "T" /\ k + 1 = 4
    BY <1>1, <1>8 DEF t
  <2>2. Moved(p.state, ch) = {<<p.state, ch, StatusStates[k + 1]>>}
    BY <1>2, <1>8, <2>1, ResponseMoves, Zenon
  <2>3. QED
    BY <1>4, <1>5, <2>2, Zenon
<1>9. CASE k = 4
  <2>1. ch = "P" /\ k + 1 = 5
    BY <1>1, <1>9 DEF t
  <2>2. Moved(p.state, ch) = {<<p.state, ch, StatusStates[k + 1]>>}
    BY <1>2, <1>9, <2>1, ResponseMoves, Zenon
  <2>3. QED
    BY <1>4, <1>5, <2>2, Zenon
<1>10. CASE k = 5
  <2>1. ch = "/" /\ k + 1 = 6
    BY <1>1, <1>10 DEF t
  <2>2. Moved(p.state, ch) = {<<p.state, ch, StatusStates[k + 1]>>}
    BY <1>2, <1>10, <2>1, ResponseMoves, Zenon
  <2>3. QED
    BY <1>4, <1>5, <2>2, Zenon
<1>11. CASE k = 6
  <2>1. ch = "1" /\ k + 1 = 7
    BY <1>1, <1>11 DEF t
  <2>2. <<"http_major", "s_res_first_http_major", "s_res_http_major", "INVALID_VERSION">> \in Numbers
    BY DEF Numbers
  <2>3. Got(p, q, {}, "s_res_http_major", {}, {}, {})
    BY <1>2, <1>11, <2>1, <2>2, ReadVersion DEF q
  <2>4. QED
    BY <1>2, <2>1, <2>3, Zenon DEF Headway
<1>12. CASE k = 7
  <2>1. ch = "." /\ k + 1 = 8
    BY <1>1, <1>12 DEF t
  <2>2. Moved(p.state, ch) = {<<p.state, ch, StatusStates[k + 1]>>}
    BY <1>2, <1>12, <2>1, ResponseMoves, Zenon
  <2>3. QED
    BY <1>4, <1>5, <2>2, Zenon
<1>13. CASE k = 8
  <2>1. ch = "1" /\ k + 1 = 9
    BY <1>1, <1>13 DEF t
  <2>2. <<"http_minor", "s_res_first_http_minor", "s_res_http_minor", "INVALID_VERSION">> \in Numbers
    BY DEF Numbers
  <2>3. Got(p, q, {}, "s_res_http_minor", {}, {}, {})
    BY <1>2, <1>13, <2>1, <2>2, ReadVersion DEF q
  <2>4. QED
    BY <1>2, <2>1, <2>3, Zenon DEF Headway
<1>14. CASE k = 9
  <2>1. ch = SPACE /\ k + 1 = 10
    BY <1>1, <1>14 DEF t
  <2>2. Moved(p.state, ch) = {<<p.state, ch, StatusStates[k + 1]>>}
    BY <1>2, <1>14, <2>1, ResponseMoves, Zenon
  <2>3. QED
    BY <1>4, <1>5, <2>2, Zenon
<1>15. QED
  BY <1>3, <1>6, <1>7, <1>8, <1>9, <1>10, <1>11, <1>12, <1>13, <1>14, Zenon DEF q

Reason == Text("OK")

(* A tuple of two is a text. *)
LEMMA TwoLetters ==
    ASSUME NEW T, NEW a \in T, NEW b \in T, NEW s, s = <<a, b>>
    PROVE  s \in Seq(T) /\ Len(s) = 2 /\ s[1] = a /\ s[2] = b
OBVIOUS

(* The phrase of a status, letter by letter. *)
LEMMA ReasonIs ==
    Reason \in Seq(Marks) /\ Len(Reason) = 2 /\ Reason[1] = "O" /\ Reason[2] = "K"
<1>1. Reason = <<"O", "K">>
  BY TextAssumption, LettersAssumption, Zenon DEF Reason, Phrase
<1>2. "O" \in Marks /\ "K" \in Marks
  BY Zenon DEF Marks
<1>3. QED
  BY <1>1, <1>2, TwoLetters, Zenon

(* What a reason phrase gives. *)
LEMMA StatusGiven ==
    ASSUME NEW p, NEW q, NEW ch, NEW f, NEW s, Gives(p, q, "status")
    PROVE  Turns(p, q, Only("status", s), ch, f, NoStrings, f)
BY TurnGives DEF Turns, Gives

(* A digit of a status. *)
CountsStatus(p, q, x) == Got(p, q, {"status_code"}, "s_res_status_code", {}, {}, {}) /\ q.status_code = x

(* A digit of a status is added to it. *)
LEMMA StatusCounts ==
    ASSUME NEW p, Sound(p), ~Stopped(p), NEW ch \in NUM, p.marks = {},
           p.state \in {"s_res_first_status_code", "s_res_status_code"}, ~Failed(Read(p, ch)), NEW x,
           x = StatusWith(p, ch), x <= 999
    PROVE  CountsStatus(p, Read(p, ch), x)
<1> DEFINE q == Read(p, ch)
<1>1. Got(p, q, {"status_code"}, "s_res_status_code", p.marks, p.marks, {}) /\ q.status_code = x
  BY ReadStatus, ZenonT(40)
<1> HIDE DEF q
<1>2. QED
  BY <1>1 DEF CountsStatus, q

(* A response's line, up to its reason phrase. *)
LEMMA ReadingStatusHead ==
    ASSUME NEW m, NEW c, NEW p, NEW f, NEW w, Reads(m, c, p, f, w), m.type = "HTTP_RESPONSE",
           NEW r \in 0 .. 12, f.body = <<>>, f.headers = <<>>,
           NEW st, OnStatusLine(p, st, f, m, r)
    PROVE  Onward(p, Read(p, w[r + 1]), st, f, m, c, r, w[r + 1])
<1> DEFINE line == StartLine(m)
           n == Len(line)
           v == m.status
           ch == w[r + 1]
           q  == Read(p, ch)
<1>1. /\ Sendable(m) /\ c \in 0 .. MaxLength /\ Sound(p) /\ ~Stopped(p) /\ p.type = m.type
      /\ Fielded(f)
  BY DEF Reads
<1>2. /\ n = 16 /\ \A i \in 1 .. 9 : line[i] = StatusLetters[i]
      /\ line[10] \in NUM /\ Digit[line[10]] = v \div 100
      /\ line[11] \in NUM /\ v \div 10 = 10 * (v \div 100) + Digit[line[11]]
      /\ line[12] \in NUM /\ v = 10 * (v \div 10) + Digit[line[12]]
      /\ line[13] = SPACE /\ v \in 100 .. 999
  <2>1. StatusLine(Letters(m), line, v)
    BY <1>1, StatusLineIs, Zenon
  <2> HIDE DEF line, v
  <2>2. QED
    BY <2>1, ZenonT(40) DEF StatusLine, n
<1>3. \A k \in 1 .. n : w[k] = line[k]
  BY HeadByte
<1>4. ch = line[r + 1]
  BY <1>2, <1>3
<1>5. /\ p.state = StatusStates[r + 1] /\ f.url = <<>>
      /\ r = 10 => p.status_code = v \div 100
      /\ r = 11 => p.status_code = v \div 10
      /\ r = 12 => p.status_code = v
      /\ p.marks = {} /\ st = NoStrings
  BY DEF OnStatusLine
<1> HIDE DEF q, ch, line, n, v
<1>6. ASSUME NEW D, NEW s, "type" \notin D, "exited" \notin D, Got(p, q, D, s, {}, {}, {}),
             OnStatusLine(q, NoStrings, f, m, r + 1)
      PROVE  Onward(p, q, st, f, m, c, r, ch)
  <2>3. r + 1 < n
    BY <1>2
  <2>4. m.type # "HTTP_REQUEST"
    OBVIOUS
  <2>5. Reading(q, NoStrings, f, m, c, r + 1)
    BY <1>6, <2>3, <2>4, Zenon DEF Reading, n, line
  <2>6. Onward(p, q, NoStrings, f, m, c, r, ch)
    BY <1>5, <1>6, <2>5, OnwardNothing
  <2>7. QED
    BY <1>5, <2>6
<1>7. CASE Failed(q)
  BY <1>7, Zenon DEF Onward, q, ch
<1>8. StatusStates[10] = "s_res_first_status_code" /\ StatusStates[11] = "s_res_status_code"
      /\ StatusStates[12] = "s_res_status_code" /\ StatusStates[13] = "s_res_status_code"
      /\ StatusStates[14] = "s_res_status_start"
  BY DEF StatusStates
<1>9. CASE r \in 0 .. 8 /\ ~Failed(q)
  <2>1. r + 1 \in 1 .. 9 /\ (r + 1) + 1 = r + 2 /\ r + 1 \in 0 .. 15
        /\ r + 1 < 14 /\ r + 1 # 10 /\ r + 1 # 11 /\ r + 1 \notin 12 .. 15
    BY <1>9
  <2>2. ch = StatusLetters[r + 1]
    BY <1>2, <1>4, <2>1, SMTT(40)
  <2>3. PICK D : "type" \notin D /\ "exited" \notin D /\ Got(p, q, D, StatusStates[(r + 1) + 1], {}, {}, {})
    <3>1. Headway(p, q, StatusStates[(r + 1) + 1])
      BY <1>1, <1>5, <1>9, <2>1, <2>2, StatusByte, Zenon DEF q, ch
    <3>2. \A D \in {{}, {"flags", "content_length"}} : "type" \notin D /\ "exited" \notin D
      OBVIOUS
    <3>3. QED
      BY <3>1, <3>2, Zenon DEF Headway
  <2>4. q.state = StatusStates[(r + 1) + 1] /\ q.marks = {}
    BY <2>3, GotIs
  <2>5. OnStatusLine(q, NoStrings, f, m, r + 1)
    BY <1>5, <2>1, <2>4, Zenon DEF OnStatusLine
  <2>6. QED
    BY <1>6, <2>3, <2>5, Zenon DEF q, ch
<1>10. CASE r \in 9 .. 11 /\ ~Failed(q)
  <2> DEFINE x == IF r = 9 THEN v \div 100 ELSE IF r = 10 THEN v \div 10 ELSE v
  <2>1. /\ p.state \in {"s_res_first_status_code", "s_res_status_code"} /\ ch \in NUM
        /\ x = StatusWith(p, ch)
    <3>1. CASE r = 9
      BY <1>2, <1>4, <1>5, <1>8, <3>1, SMTT(40) DEF StatusWith
    <3>2. CASE r = 10
      BY <1>2, <1>4, <1>5, <1>8, <3>2, SMTT(40) DEF StatusWith
    <3>3. CASE r = 11
      BY <1>2, <1>4, <1>5, <1>8, <3>3, SMTT(40) DEF StatusWith
    <3>4. QED
      BY <1>10, <3>1, <3>2, <3>3
  <2>2. x <= 999
    <3>1. v \in 100 .. 999
      BY <1>2
    <3>2. v \div 100 <= 999 /\ v \div 10 <= 999 /\ v <= 999
      BY <3>1
    <3>3. QED
      BY <3>2
  <2> HIDE DEF x
  <2>3. Got(p, q, {"status_code"}, "s_res_status_code", {}, {}, {}) /\ q.status_code = x
    <3>1. CountsStatus(p, q, x)
      BY <1>1, <1>5, <1>10, <2>1, <2>2, StatusCounts, ZenonT(40) DEF q
    <3>2. QED
      BY <3>1, Zenon DEF CountsStatus
  <2>4. q.state = "s_res_status_code" /\ q.marks = {}
    BY <2>3, GotIs
  <2>5. OnStatusLine(q, NoStrings, f, m, r + 1)
    <3>1. r = 9 \/ r = 10 \/ r = 11
      BY <1>10
    <3>2. CASE r = 9
      BY <1>5, <1>8, <2>3, <2>4, <3>2 DEF OnStatusLine, x, v
    <3>3. CASE r = 10
      BY <1>5, <1>8, <2>3, <2>4, <3>3 DEF OnStatusLine, x, v
    <3>4. CASE r = 11
      BY <1>5, <1>8, <2>3, <2>4, <3>4 DEF OnStatusLine, x, v
    <3>5. QED
      BY <3>1, <3>2, <3>3, <3>4
  <2>6. "type" \notin {"status_code"} /\ "exited" \notin {"status_code"}
    OBVIOUS
  <2>7. QED
    BY <1>6, <2>3, <2>5, <2>6, Zenon DEF q, ch
<1>11. CASE r = 12 /\ ~Failed(q)
  <2>1. ch = SPACE /\ p.state = "s_res_status_code" /\ "s_res_status_start" \in States
    BY <1>2, <1>4, <1>5, <1>8, <1>11 DEF States, Lasting, Lines
  <2>2. p.passed = 0 /\ p.state \notin ChunkStates /\ p.state # "s_body_identity"
    BY <1>1, <2>1, Outside DEF Loops, ChunkStates
  <2>3. Got(p, q, {}, "s_res_status_start", {}, {}, {})
    <3>1. Moved(p.state, ch) = {<<p.state, ch, "s_res_status_start">>}
      BY <2>1, ResponseMoves
    <3>2. QED
      BY <1>1, <1>5, <1>11, <2>1, <2>2, <3>1, MoveBetween, Zenon DEF q
  <2>4. q.state = "s_res_status_start" /\ q.marks = {} /\ q.status_code = v
    BY <1>5, <1>11, <2>3, GotIs
  <2>5. OnStatusLine(q, NoStrings, f, m, r + 1)
    BY <1>5, <1>8, <1>11, <2>4 DEF OnStatusLine, v
  <2>6. "type" \notin {} /\ "exited" \notin {}
    OBVIOUS
  <2>7. QED
    BY <1>6, <2>3, <2>5, <2>6, Zenon DEF q, ch
<1>12. r \in 0 .. 8 \/ r \in 9 .. 11 \/ r = 12
  OBVIOUS
<1>13. QED
  BY <1>7, <1>9, <1>10, <1>11, <1>12, Zenon DEF q, ch

(* The reason phrase of a response, and the end of its line. *)
LEMMA ReadingReason ==
    ASSUME NEW m, NEW c, NEW p, NEW f, NEW w, Reads(m, c, p, f, w), m.type = "HTTP_RESPONSE",
           NEW r \in 13 .. 15, f.body = <<>>, f.headers = <<>>,
           NEW st, OnStatusLine(p, st, f, m, r)
    PROVE  Onward(p, Read(p, w[r + 1]), st, f, m, c, r, w[r + 1])
<1> DEFINE line == StartLine(m)
           n == Len(line)
           ch == w[r + 1]
           q  == Read(p, ch)
<1>1. /\ Sendable(m) /\ c \in 0 .. MaxLength /\ Sound(p) /\ ~Stopped(p) /\ p.type = m.type
      /\ Fielded(f)
  BY DEF Reads
<1>2. n = 16 /\ line[14] = "O" /\ line[15] = "K" /\ line[16] = LF
  <2>1. StatusLine(Letters(m), line, m.status)
    BY <1>1, StatusLineIs, Zenon
  <2> HIDE DEF line
  <2>2. QED
    BY <2>1, ZenonT(40) DEF StatusLine, n
<1>3. \A k \in 1 .. n : w[k] = line[k]
  BY HeadByte
<1>4. ch = line[r + 1]
  BY <1>2, <1>3
<1>5. /\ First(Reason, 0) = <<>> /\ First(Reason, 2) = Reason
      /\ Append(First(Reason, 0), "O") = First(Reason, 1)
      /\ Append(First(Reason, 1), "K") = First(Reason, 2)
  <2>1. 0 \in 0 .. 2 - 1 /\ 1 \in 0 .. 2 - 1
    OBVIOUS
  <2>2. /\ First(Reason, 0) = <<>> /\ First(Reason, Len(Reason)) = Reason
        /\ \A k \in 0 .. Len(Reason) - 1 : Append(First(Reason, k), Reason[k + 1]) = First(Reason, k + 1)
    BY ReasonIs, FirstIs, Zenon
  <2>3. /\ Append(First(Reason, 0), Reason[0 + 1]) = First(Reason, 0 + 1)
        /\ Append(First(Reason, 1), Reason[1 + 1]) = First(Reason, 1 + 1)
    BY <2>1, <2>2, ReasonIs, Zenon
  <2>4. 0 + 1 = 1 /\ 1 + 1 = 2
    OBVIOUS
  <2>5. QED
    BY <2>2, <2>3, <2>4, ReasonIs, Zenon
<1>6. /\ StatusStates[14] = "s_res_status_start" /\ StatusStates[15] = "s_res_status"
      /\ StatusStates[16] = "s_res_status"
  BY DEF StatusStates
<1>7. /\ p.state = StatusStates[r + 1] /\ f.url = <<>> /\ p.status_code = m.status
      /\ r = 13 => p.marks = {} /\ st = Only("status", First(Reason, 0))
      /\ r \in 14 .. 15 => p.marks = {"status"} /\ st = Only("status", First(Reason, r - 13))
  <2>1. /\ p.state = StatusStates[r + 1] /\ f.url = <<>>
        /\ r \in 12 .. 15 => p.status_code = m.status
        /\ IF r < 14 THEN p.marks = {} /\ st = NoStrings
           ELSE p.marks = {"status"} /\ st = Only("status", First(Reason, r - 13))
    BY Zenon DEF OnStatusLine, Reason
  <2>2. NoStrings = Only("status", First(Reason, 0))
    BY <1>5, OnlyIs, Zenon DEF Names
  <2>3. QED
    BY <2>1, <2>2
<1> HIDE DEF q, ch, line, n
<1>8. CASE Failed(q)
  BY <1>8, Zenon DEF Onward, q, ch
<1>9. ASSUME r < 15, ~Failed(q), ch \in {"O", "K"},
             st = Only("status", First(Reason, r - 13)),
             Append(First(Reason, r - 13), ch) = First(Reason, (r + 1) - 13)
      PROVE  Onward(p, q, st, f, m, c, r, ch)
  <2>1. ch \in {"O", "K", LF} /\ ch # LF
    BY <1>9 DEF LF
  <2>2. \/ p.state = "s_res_status_start" /\ p.marks = {} /\ ch # LF
        \/ p.state = "s_res_status" /\ p.marks = {"status"}
    BY <1>6, <1>7, <1>9, <2>1
  <2>3. Got(p, q, {"index"}, "s_res_status", {"status"}, {"status"}, {})
    BY <1>1, <1>9, <2>1, <2>2, ReadReason, Zenon DEF q, ch
  <2>4. q.state = "s_res_status" /\ q.marks = {"status"} /\ q.data = {"status"} /\ q.calls = {}
        /\ q.status_code = m.status /\ q.type = p.type /\ q.exited = p.exited
    BY <1>7, <2>3, GotIs
  <2>5. Turns(p, q, st, ch, f, Only("status", First(Reason, (r + 1) - 13)), f)
    <3>1. Gathers(p, q, "status")
      BY <2>2, <2>4 DEF Gathers, Names
    <3>2. Turns(p, q, Only("status", First(Reason, r - 13)), ch, f,
                Only("status", Append(First(Reason, r - 13), ch)), f)
      BY <3>1, Gathered, Zenon
    <3>3. QED
      BY <1>9, <3>2
  <2> DEFINE s == Only("status", First(Reason, (r + 1) - 13))
  <2>6. OnStatusLine(q, s, f, m, r + 1)
    <3>1. r + 1 \in 14 .. 15 /\ StatusStates[(r + 1) + 1] = "s_res_status"
      BY <1>6, <1>9
    <3> HIDE DEF s
    <3>2. QED
      BY <1>7, <2>4, <3>1 DEF OnStatusLine, s, Reason
  <2>7. r + 1 < n /\ m.type # "HTTP_REQUEST"
    BY <1>2, <1>9
  <2>8. Reading(q, s, f, m, c, r + 1)
    BY <2>6, <2>7, Zenon DEF Reading, n, line
  <2>9. QED
    BY <2>4, <2>5, <2>8, OnwardTurns, Zenon
<1>10. CASE r = 13 /\ ~Failed(q)
  <2>1. ch = "O" /\ r < 15 /\ r - 13 = 0 /\ (r + 1) - 13 = 1
    BY <1>2, <1>4, <1>10
  <2>2. st = Only("status", First(Reason, r - 13)) /\ ch \in {"O", "K"}
    BY <1>7, <1>10, <2>1
  <2>3. QED
    BY <1>5, <1>9, <1>10, <2>1, <2>2, Zenon DEF q, ch
<1>11. CASE r = 14 /\ ~Failed(q)
  <2>1. ch = "K" /\ r < 15 /\ r - 13 = 1 /\ (r + 1) - 13 = 2 /\ r \in 14 .. 15
    BY <1>2, <1>4, <1>11
  <2>2. st = Only("status", First(Reason, r - 13)) /\ ch \in {"O", "K"}
    BY <1>7, <2>1
  <2>3. QED
    BY <1>5, <1>9, <1>11, <2>1, <2>2, Zenon DEF q, ch
<1>12. CASE r = 15 /\ ~Failed(q)
  <2>1. ch = LF /\ r - 13 = 2 /\ r \in 14 .. 15 /\ p.state = "s_res_status"
    BY <1>2, <1>4, <1>6, <1>7, <1>12
  <2>2. Got(p, q, {"index"}, "s_header_field_start", {}, {}, {})
    <3>1. LF \in {"O", "K", LF} /\ p.marks = {"status"}
      BY <1>7, <2>1
    <3>2. QED
      BY <1>1, <1>12, <2>1, <3>1, ReadReason, Zenon DEF q, ch
  <2>3. q.state = "s_header_field_start" /\ q.marks = {} /\ q.data = {} /\ q.calls = {}
        /\ q.status_code = m.status /\ q.type = p.type /\ q.exited = p.exited /\ q.flags = p.flags
    BY <1>7, <2>2, GotIs
  <2>4. Turns(p, q, st, ch, f, NoStrings, f)
    <3>1. Gives(p, q, "status")
      BY <1>7, <2>1, <2>3 DEF Gives, Names
    <3>2. Turns(p, q, Only("status", First(Reason, 2)), ch, f, NoStrings, f)
      BY <3>1, StatusGiven, Zenon
    <3>3. st = Only("status", First(Reason, 2))
      BY <1>7, <2>1
    <3>4. QED
      BY <3>2, <3>3
  <2>5. p.flags = {}
    BY <1>1, <2>1 DEF Sound, Flagging, Stopped, Lines
  <2>6. Begun(q, f, m)
    <3>1. m.path = <<>> /\ m.type # "HTTP_REQUEST"
      BY <1>1, SendableParts
    <3>2. QED
      BY <1>7, <2>3, <2>5, <3>1 DEF Begun
  <2>7. 1 \in 1 .. Count(m) /\ r + 1 = Start(m, c, 1)
    <3>1. Len(m.headers) \in Nat
      BY <1>1, HeadersAre
    <3>2. Count(m) = Len(m.headers) + 1
      BY DEF Count
    <3>3. Start(m, c, 1) = Len(StartLine(m))
      BY <1>1, StartIs, Zenon
    <3>4. 1 \in 1 .. Count(m)
      BY <3>1, <3>2
    <3>5. QED
      BY <1>2, <1>12, <3>3, <3>4 DEF n, line
  <2>8. HeadersRead(q, f) = HeadersBefore(m, c, 1)
    BY <2>3, HeadersFirst DEF HeadersRead
  <2>9. q.state \in LineStates
    BY <2>3 DEF LineStates
  <2>10. Reading(q, NoStrings, f, m, c, r + 1)
    <3>1. Reading(q, NoStrings, f, m, c, Start(m, c, 1))
      BY <1>1, <2>3, <2>6, <2>7, <2>8, <2>9, LineNext, Zenon
    <3>2. QED
      BY <2>7, <3>1, Zenon
  <2>11. QED
    BY <2>3, <2>4, <2>10, OnwardTurns, Zenon DEF q, ch
<1>13. r = 13 \/ r = 14 \/ r = 15
  OBVIOUS
<1>14. QED
  BY <1>8, <1>10, <1>11, <1>12, <1>13, Zenon DEF q, ch

(* What the name of the length makes of a parser, byte by byte. *)
LEMMA LengthBegins ==
    FirstLetter(Lowered(Text(LengthName)[1])) = LengthState(1)
<1>1. LengthState(1) = "h_C"
  <2>1. Length(LengthName) \in 5 .. 17
    BY LengthNameIs, Zenon DEF Length
  <2>2. Length(LengthName) # 1
    BY <2>1
  <2>3. 1 <= 3
    OBVIOUS
  <2>4. <<"h_C", "h_CO", "h_CON">>[1] = "h_C"
    OBVIOUS
  <2>5. QED
    BY <2>2, <2>3, <2>4, Zenon DEF LengthState
<1>2. Lowered(Text(LengthName)[1]) = "c"
  <2>1. 1 \in 1 .. Len(Text(LengthName)) /\ 1 - 1 = 0 /\ 1 \in 1 .. 4
    BY LengthNameIs
  <2>2. Nth(LengthName, 1 - 1) = <<"c", "o", "n", "t">>[1]
    BY <2>1, TextAssumption, LettersAssumption, Zenon DEF LengthName
  <2>3. <<"c", "o", "n", "t">>[1] = "c"
    OBVIOUS
  <2>4. QED
    BY <2>1, <2>2, <2>3, LengthNameIs, Zenon
<1>3. QED
  BY <1>1, <1>2 DEF FirstLetter

(* The name of the length is matched one letter further. *)
LEMMA LengthGoesOn ==
    ASSUME NEW d \in 1 .. Length(LengthName) - 1, NEW p \in Parser,
           p.header_state = LengthState(d), p.index = d - 1
    PROVE  LET q == FieldByte(p, Lowered(Text(LengthName)[d + 1]))
           IN  q.header_state = LengthState(d + 1) /\ q.index = d
<1> DEFINE nl == Length(LengthName)
           ch == Lowered(Text(LengthName)[d + 1])
           q  == FieldByte(p, ch)
<1>1. nl \in 5 .. 17 /\ Len(Text(LengthName)) = nl /\ d \in 1 .. nl - 1
  BY LengthNameIs DEF Length
<1>2. ch = Nth(LengthName, d)
  <2>1. d + 1 \in 1 .. nl /\ (d + 1) - 1 = d
    BY <1>1
  <2>2. QED
    BY <1>1, <2>1, LengthNameIs, Zenon
<1>3. ASSUME d \in 1 .. 3
      PROVE  ch = <<"c", "o", "n", "t">>[d + 1]
  <2>1. d + 1 \in 1 .. 4 /\ (d + 1) - 1 = d
    BY <1>3
  <2>2. Nth(LengthName, (d + 1) - 1) = <<"c", "o", "n", "t">>[d + 1]
    BY <2>1, TextAssumption, LettersAssumption, Zenon DEF LengthName
  <2>3. QED
    BY <1>2, <2>1, <2>2, Zenon
<1>4. LengthState(d) = IF d <= 3 THEN <<"h_C", "h_CO", "h_CON">>[d] ELSE "h_matching_content_length"
  <2> HIDE DEF nl
  <2>1. d # nl
    BY <1>1
  <2>2. QED
    BY <2>1, Zenon DEF LengthState, nl
<1>5. LengthState(d + 1) = IF d + 1 = nl THEN "h_content_length"
                           ELSE IF d + 1 <= 3 THEN <<"h_C", "h_CO", "h_CON">>[d + 1]
                           ELSE "h_matching_content_length"
  BY Zenon DEF LengthState
<1> HIDE DEF ch, nl
<1>6. CASE d \in 1 .. 3
  <2>1. PICK to : to = (IF d = 1 THEN "h_CO" ELSE IF d = 2 THEN "h_CON" ELSE "h_matching_content_length")
    OBVIOUS
  <2>2. LengthState(d + 1) = to
    <3>1. d + 1 # nl
      BY <1>1, <1>6
    <3>2. d = 1 \/ d = 2 \/ d = 3
      BY <1>6
    <3>3. QED
      BY <1>5, <2>1, <3>1, <3>2
  <2>3. /\ p.header_state \in FieldPrefix /\ p.index + 1 = d
        /\ {n \in FieldMoves : n[1] = p.header_state /\ n[2] = ch} = {<<p.header_state, ch, to>>}
    <3>1. d = 1 \/ d = 2 \/ d = 3
      BY <1>6
    <3>2. CASE d = 1
      <4>1. p.header_state = "h_C" /\ ch = "o" /\ to = "h_CO" /\ p.index = 0
        BY <1>3, <1>4, <1>6, <2>1, <3>2
      <4>2. QED
        BY <3>2, <4>1 DEF FieldPrefix, FieldMoves
    <3>3. CASE d = 2
      <4>1. p.header_state = "h_CO" /\ ch = "n" /\ to = "h_CON" /\ p.index = 1
        BY <1>3, <1>4, <1>6, <2>1, <3>3
      <4>2. QED
        BY <3>3, <4>1 DEF FieldPrefix, FieldMoves
    <3>4. CASE d = 3
      <4>1. p.header_state = "h_CON" /\ ch = "t" /\ to = "h_matching_content_length" /\ p.index = 2
        BY <1>3, <1>4, <1>6, <2>1, <3>4
      <4>2. QED
        BY <3>4, <4>1 DEF FieldPrefix, FieldMoves
    <3>5. QED
      BY <3>1, <3>2, <3>3, <3>4
  <2>4. {n[3] : n \in {x \in FieldMoves : x[1] = p.header_state /\ x[2] = ch}} = {to}
    <3>1. <<p.header_state, ch, to>>[3] = to
      OBVIOUS
    <3>2. QED
      BY <2>3, <3>1
  <2>5. q = [p EXCEPT !.index = p.index + 1, !.header_state = CHOOSE t \in {to} : TRUE]
    <3>1. {to} # {}
      OBVIOUS
    <3>2. p.header_state \notin FieldMatching
      BY <1>4, <1>6 DEF FieldMatching
    <3>3. QED
      BY <2>3, <2>4, <3>1, <3>2 DEF FieldByte
  <2>6. (CHOOSE t \in {to} : TRUE) = to
    BY Zenon
  <2> HIDE DEF q
  <2>7. q = [p EXCEPT !.index = d, !.header_state = to]
    BY <2>3, <2>5, <2>6, Zenon
  <2>8. q.index = d /\ q.header_state = to
    BY <2>7 DEF Parser
  <2>9. QED
    BY <2>2, <2>8, Zenon DEF q, ch
<1>7. CASE d \notin 1 .. 3
  <2>1. /\ p.header_state = "h_matching_content_length" /\ p.index + 1 = d
        /\ LengthState(d + 1) = IF d + 1 = nl THEN "h_content_length" ELSE "h_matching_content_length"
    BY <1>1, <1>4, <1>5, <1>7
  <2>2. q = Match(p, ch, "h_general")
    <3>1. p.header_state \notin FieldPrefix /\ p.header_state \in FieldMatching
      BY <2>1 DEF FieldPrefix, FieldMatching
    <3>2. QED
      BY <3>1, Zenon DEF FieldByte
  <2>3. Word[p.header_state] = LengthName /\ Whole[p.header_state] = "h_content_length"
    BY <2>1 DEF Word, Whole, LengthName
  <2>4. (d = Len(LengthName) - 1) <=> (d + 1 = nl)
    BY <1>1 DEF nl, Length
  <2>5. q = [p EXCEPT !.index = d, !.header_state = IF d = Len(LengthName) - 1 THEN Whole[p.header_state]
                                                    ELSE p.header_state]
    BY <1>2, <2>1, <2>2, <2>3, Zenon DEF Match
  <2>6. q.index = d /\ q.header_state = IF d = Len(LengthName) - 1 THEN "h_content_length" ELSE p.header_state
    <3> DEFINE h == IF d = Len(LengthName) - 1 THEN Whole[p.header_state] ELSE p.header_state
    <3>1. q = [p EXCEPT !.index = d, !.header_state = h]
      BY <2>5, Zenon
    <3> HIDE DEF h
    <3>2. q.index = d /\ q.header_state = h
      BY <3>1 DEF Parser
    <3>3. QED
      BY <2>3, <3>2, Zenon DEF h
  <2> HIDE DEF q
  <2>7. q.index = d /\ q.header_state = LengthState(d + 1)
    BY <2>1, <2>4, <2>6, Zenon
  <2>8. QED
    BY <2>7, Zenon DEF q, ch
<1>8. QED
  BY <1>6, <1>7 DEF ch

(* A digit of a length. *)
LEMMA LengthGrows ==
    ASSUME NEW p \in Parser, p.header_state = "h_content_length", NEW ch \in NUM,
           NEW q, q = ValueByte(p, ch), ~Failed(q)
    PROVE  /\ q.content_length = 10 * p.content_length + Digit[ch] /\ q.header_state = p.header_state
           /\ q.flags = p.flags /\ q.skipping = p.skipping
<1>1. ch # SPACE
  BY LetterApart, Zenon
<1>2. q = Grown(p, 10, Digit[ch])
  <2>1. p.header_state \notin ListMatching /\ p.header_state \notin ListWhole \cup {"h_matching_connection_token"}
    BY DEF ListMatching, ListWhole
  <2>2. QED
    BY <1>1, <2>1 DEF ValueByte
<1>3. Digit[ch] \in 0 .. 10 - 1 /\ p.content_length \in Nat /\ 10 \in {10, 16}
  BY Digits, ParserAssumption DEF Parser
<1>4. ~TooLong(p.content_length, 10)
  <2>1. ASSUME TooLong(p.content_length, 10)
        PROVE  FALSE
    <3>1. q = Fail(p, "INVALID_CONTENT_LENGTH")
      BY <1>2, <2>1, Zenon DEF Grown
    <3>2. Failed(q)
      BY <3>1, Fails DEF Failed, Errnos
    <3>3. QED
      BY <3>2
  <2>2. QED
    BY <2>1
<1>5. Longer(p.content_length, 10, Digit[ch]) = p.content_length * 10 + Digit[ch]
  BY <1>3, <1>4, LongerFits, Zenon
<1>6. q = [p EXCEPT !.content_length = Longer(p.content_length, 10, Digit[ch])]
  BY <1>2, <1>4, Zenon DEF Grown
<1>7. /\ q.content_length = Longer(p.content_length, 10, Digit[ch]) /\ q.header_state = p.header_state
      /\ q.flags = p.flags /\ q.skipping = p.skipping
  BY <1>6 DEF Parser
<1>8. p.content_length * 10 + Digit[ch] = 10 * p.content_length + Digit[ch]
  BY <1>3
<1>9. QED
  BY <1>5, <1>7, <1>8, Zenon
-----------------------------------------------------------------------------
(* What is known of a message that has begun is kept. *)
LEMMA BegunKept ==
    ASSUME NEW m, NEW p, NEW f, Begun(p, f, m), NEW q, q.method = p.method, q.status_code = p.status_code,
           "TRAILING" \notin q.flags, NEW g, g.url = f.url, g.method = f.method, g.body = f.body
    PROVE  Begun(q, g, m)
BY DEF Begun

(* Another byte of a line. *)
LEMMA OnNext ==
    ASSUME NEW m, NEW c, NEW i \in 1 .. Count(m), ~Skipped(m, i), NEW d, NEW r, NEW n,
           n = Len(HeaderLines(m, c)[i]), n \in Nat, d \in Nat, d + 1 < n, Start(m, c, i) \in Nat,
           r = Start(m, c, i) + d,
           NEW p, NEW st, NEW f, Begun(p, f, m), OnLine(p, st, f, m, c, i, d + 1)
    PROVE  Reading(p, st, f, m, c, r + 1)
<1> DEFINE s == Start(m, c, i)
<1>1. (r + 1) - s = d + 1 /\ d + 1 \in 0 .. n - 1
  <2> HIDE DEF s
  <2>1. s \in Nat /\ r = s + d
    BY DEF s
  <2>2. QED
    BY <2>1
<1>2. QED
  BY <1>1, Zenon DEF Reading

(* The parts of a line are apart. *)
LEMMA LinePartsApart ==
    ASSUME NEW nl \in Nat, NEW vl \in Nat, nl > 0, NEW d
    PROVE  /\ d = 0 => ~(d \in 1 .. nl) /\ ~(d \in nl + 1 .. nl + 2) /\ ~(d \in nl + 3 .. nl + 2 + vl)
           /\ d \in 1 .. nl => ~(d = 0) /\ ~(d \in nl + 1 .. nl + 2) /\ ~(d \in nl + 3 .. nl + 2 + vl)
           /\ d \in nl + 1 .. nl + 2 => ~(d = 0) /\ ~(d \in 1 .. nl) /\ ~(d \in nl + 3 .. nl + 2 + vl)
           /\ d \in nl + 3 .. nl + 2 + vl => ~(d = 0) /\ ~(d \in 1 .. nl) /\ ~(d \in nl + 1 .. nl + 2)
<1>1. d = 0 => ~(d \in 1 .. nl) /\ ~(d \in nl + 1 .. nl + 2) /\ ~(d \in nl + 3 .. nl + 2 + vl)
  OBVIOUS
<1>2. d \in 1 .. nl => ~(d = 0) /\ ~(d \in nl + 1 .. nl + 2) /\ ~(d \in nl + 3 .. nl + 2 + vl)
  OBVIOUS
<1>3. d \in nl + 1 .. nl + 2 => ~(d = 0) /\ ~(d \in 1 .. nl) /\ ~(d \in nl + 3 .. nl + 2 + vl)
  OBVIOUS
<1>4. d \in nl + 3 .. nl + 2 + vl => ~(d = 0) /\ ~(d \in 1 .. nl) /\ ~(d \in nl + 1 .. nl + 2)
  OBVIOUS
<1>5. QED
  BY <1>1, <1>2, <1>3, <1>4, Zenon

(* Where on a line the parser is. *)
LEMMA LineAt ==
    ASSUME NEW p, NEW st, NEW f, NEW m, NEW c, NEW i, NEW d, OnLine(p, st, f, m, c, i, d),
           Len(Name(m, c, i)) \in Nat, Len(Name(m, c, i)) > 0, Len(Value(m, c, i)) \in Nat
    PROVE  /\ d = 0 => /\ p.state \in LineStates /\ p.marks = {} /\ st = NoStrings
                       /\ HeadersRead(p, f) = HeadersBefore(m, c, i)
           /\ d \in 1 .. Len(Name(m, c, i)) =>
                 /\ p.state = "s_header_field" /\ p.marks = {"header_field"}
                 /\ st = Only("header_field", First(Name(m, c, i), d))
                 /\ f.headers = HeadersBefore(m, c, i)
           /\ d \in Len(Name(m, c, i)) + 1 .. Len(Name(m, c, i)) + 2 =>
                 /\ p.state = "s_header_value_discard_ws" /\ p.marks = {} /\ st = NoStrings
                 /\ f.headers = HeadersBefore(m, c, i) /\ f.temp_header_field = tolower(Name(m, c, i))
           /\ d \in Len(Name(m, c, i)) + 3 .. Len(Name(m, c, i)) + 2 + Len(Value(m, c, i)) =>
                 /\ p.state = "s_header_value" /\ p.marks = {"header_value"}
                 /\ st = Only("header_value", First(Value(m, c, i), d - Len(Name(m, c, i)) - 2))
                 /\ f.headers = HeadersBefore(m, c, i) /\ f.temp_header_field = tolower(Name(m, c, i))
<1> DEFINE nl == Len(Name(m, c, i))
           vl == Len(Value(m, c, i))
           A == /\ p.state \in LineStates /\ p.marks = {} /\ st = NoStrings
                /\ HeadersRead(p, f) = HeadersBefore(m, c, i)
           B == /\ p.state = "s_header_field" /\ p.marks = {"header_field"}
                /\ st = Only("header_field", First(Name(m, c, i), d))
                /\ f.headers = HeadersBefore(m, c, i)
           C == /\ p.state = "s_header_value_discard_ws" /\ p.marks = {} /\ st = NoStrings
                /\ f.headers = HeadersBefore(m, c, i) /\ f.temp_header_field = tolower(Name(m, c, i))
           D == /\ p.state = "s_header_value" /\ p.marks = {"header_value"}
                /\ st = Only("header_value", First(Value(m, c, i), d - nl - 2))
                /\ f.headers = HeadersBefore(m, c, i) /\ f.temp_header_field = tolower(Name(m, c, i))
<1>0. nl \in Nat /\ nl > 0 /\ vl \in Nat
  OBVIOUS
<1>1. \/ d = 0 /\ A
      \/ d \in 1 .. nl /\ B
      \/ d \in nl + 1 .. nl + 2 /\ C
      \/ d \in nl + 3 .. nl + 2 + vl /\ D
  BY Zenon DEF OnLine
<1> HIDE DEF A, B, C, D, nl, vl
<1>2. d = 0 => A
  BY <1>0, <1>1, LinePartsApart, Zenon
<1>3. d \in 1 .. nl => B
  BY <1>0, <1>1, LinePartsApart, Zenon
<1>4. d \in nl + 1 .. nl + 2 => C
  BY <1>0, <1>1, LinePartsApart, Zenon
<1>5. d \in nl + 3 .. nl + 2 + vl => D
  BY <1>0, <1>1, LinePartsApart, Zenon
<1>6. QED
  BY <1>2, <1>3, <1>4, <1>5, Zenon DEF A, B, C, D, nl, vl

(* The first byte of a line. *)
LEMMA ReadingLineFirst ==
    ASSUME NEW m, NEW c, NEW p, NEW f, NEW w, Reads(m, c, p, f, w), Begun(p, f, m),
           NEW i \in 1 .. Count(m), ~Skipped(m, i), NEW r, r = Start(m, c, i),
           NEW st, OnLine(p, st, f, m, c, i, 0)
    PROVE  Onward(p, Read(p, w[r + 1]), st, f, m, c, r, w[r + 1])
<1> DEFINE name == Name(m, c, i)
           nl == Len(name)
           vl == Len(Value(m, c, i))
           s == Start(m, c, i)
           n == Len(HeaderLines(m, c)[i])
           ch == w[r + 1]
           q  == Read(p, ch)
<1>1. /\ Sendable(m) /\ c \in 0 .. MaxLength /\ Sound(p) /\ ~Stopped(p) /\ p.type = m.type
      /\ Fielded(f)
  BY DEF Reads
<1>11. w = Append(Bytes(m, c), NUL)
  BY DEF Reads
<1>2. /\ nl \in Nat \ {0} /\ vl \in Nat /\ s \in Nat /\ n = nl + vl + 3
      /\ \A d \in 0 .. nl - 1 : w[s + d + 1] = name[d + 1] /\ w[s + d + 1] \in TOKEN
  <2>1. LineLayout(w, s, n, Start(m, c, i + 1), name, Value(m, c, i))
    BY <1>1, <1>11, LineLaid, Zenon
  <2> HIDE DEF s, n, name
  <2>2. QED
    BY <2>1 DEF LineLayout, name
<1>3. r = s
  OBVIOUS
<1>4. nl \in Nat \ {0} /\ vl \in Nat /\ s \in Nat /\ n = nl + vl + 3
  BY <1>2, Zenon
<1> HIDE DEF name, nl, vl, s, n, q, ch
<1>5. /\ nl \in Nat /\ nl > 0 /\ vl \in Nat /\ s \in Nat /\ n = nl + vl + 3 /\ n \in Nat
      /\ 0 \in 0 .. nl - 1 /\ r = s + 0 /\ 0 + 1 = 1 /\ 1 < n /\ 1 \in 1 .. nl /\ s + 0 + 1 = r + 1
  BY <1>3, <1>4
<1>6. ch = name[1] /\ ch \in TOKEN
  BY <1>2, <1>5, Zenon DEF ch
<1>7. /\ p.state \in LineStates /\ p.marks = {} /\ st = NoStrings
      /\ HeadersRead(p, f) = HeadersBefore(m, c, i)
  BY <1>5, LineAt DEF nl, vl, name
<1>8. CASE Failed(q)
  BY <1>8, Zenon DEF Onward, q, ch
<1>9. CASE ~Failed(q)
  <2>1. /\ Got(p, q, {"header_state", "index", "flags"}, "s_header_field", {"header_field"},
               {"header_field"}, LateCalls(p))
        /\ q.header_state = FirstLetter(Lowered(ch)) /\ q.index = 0
        /\ q.flags = LineFlags(p)
    BY <1>1, <1>6, <1>7, <1>9, ReadNameFirst, Zenon DEF q, ch
  <2>2. /\ q.state = "s_header_field" /\ q.marks = {"header_field"} /\ q.data = {"header_field"}
        /\ q.calls = LateCalls(p) /\ q.type = p.type /\ q.exited = p.exited /\ q.method = p.method
        /\ q.status_code = p.status_code
    BY <2>1, GotIs
  <2>3. First(name, 1) = <<ch>> /\ Append(<<>>, ch) = <<ch>>
    <3>1. name \in Seq(Letters(m))
      BY <1>1, HeaderIs, Zenon DEF name
    <3>2. Append(First(name, 0), name[0 + 1]) = First(name, 0 + 1) /\ First(name, 0) = <<>>
      BY <1>5, <3>1, FirstIs, Zenon DEF nl
    <3>3. Append(<<>>, ch) = <<ch>>
      OBVIOUS
    <3>4. QED
      BY <1>5, <1>6, <3>2, <3>3, Zenon
  <2>4. \E g : /\ Turns(p, q, st, ch, f, Only("header_field", First(name, 1)), g)
               /\ g = f \/ g = on_header_value(f, <<>>)
               /\ g.headers = HeadersBefore(m, c, i)
    <3>1. CASE p.state = "s_header_value_discard_lws"
      <4> DEFINE g == on_header_value(f, <<>>)
      <4>1. q.calls \cap Names = {"header_value"} /\ q.data = q.marks /\ q.marks \subseteq {"header_field"}
        BY <2>2, <3>1 DEF Names, LateCalls
      <4>2. Turns(p, q, NoStrings, ch, f, Only("header_field", <<ch>>), g)
        BY <1>7, <2>2, <4>1, TurnGivesNothing, ZenonT(40) DEF Turns
      <4>3. HeadersRead(p, f) = g.headers
        BY <3>1 DEF HeadersRead
      <4> HIDE DEF g
      <4>4. Turns(p, q, st, ch, f, Only("header_field", First(name, 1)), g)
        BY <1>7, <2>3, <4>2
      <4>5. g.headers = HeadersBefore(m, c, i)
        BY <1>7, <4>3
      <4>6. g = on_header_value(f, <<>>)
        BY Zenon DEF g
      <4>7. QED
        BY <4>4, <4>5, <4>6, Zenon
    <3>2. CASE p.state # "s_header_value_discard_lws"
      <4>1. Gathers(p, q, "header_field")
        BY <1>7, <2>2, <3>2 DEF Names, LateCalls, Gathers
      <4>2. NoStrings = Only("header_field", <<>>)
        BY OnlyIs, Zenon DEF Names
      <4>3. Turns(p, q, Only("header_field", <<>>), ch, f, Only("header_field", Append(<<>>, ch)), f)
        BY <4>1, Gathered, Zenon
      <4>4. Turns(p, q, st, ch, f, Only("header_field", First(name, 1)), f)
        BY <1>7, <2>3, <4>2, <4>3
      <4>5. HeadersRead(p, f) = f.headers
        BY <3>2 DEF HeadersRead
      <4>6. f.headers = HeadersBefore(m, c, i)
        BY <1>7, <4>5
      <4>7. QED
        BY <4>4, <4>6, Zenon
    <3>3. QED
      BY <3>1, <3>2
  <2>12. PICK g : /\ Turns(p, q, st, ch, f, Only("header_field", First(name, 1)), g)
                  /\ g = f \/ g = on_header_value(f, <<>>)
                  /\ g.headers = HeadersBefore(m, c, i)
    BY <2>4, Zenon
  <2>5. g.url = f.url /\ g.method = f.method /\ g.body = f.body
    <3>1. ValuePut(f, on_header_value(f, <<>>), <<>>)
      BY <1>1, ValueIsPut, Zenon
    <3>2. QED
      BY <2>12, <3>1 DEF ValuePut
  <2>6. "TRAILING" \notin q.flags
    <3>1. "TRAILING" \notin p.flags /\ p \in Parser
      BY <1>1 DEF Begun, Sound
    <3>2. "TRAILING" \notin LineFlags(p)
      BY <3>1, FlaggedSets DEF LineFlags
    <3>3. QED
      BY <2>1, <3>2
  <2>7. Begun(q, g, m)
    BY <2>2, <2>5, <2>6, BegunKept
  <2>8. i = Count(m) => OnLength(q, c, 1)
    <3> SUFFICES ASSUME i = Count(m)
                 PROVE  OnLength(q, c, 1)
      OBVIOUS
    <3>1. name = Text(LengthName)
      BY <1>1, HeadersAre, Zenon DEF name
    <3>2. q.header_state = LengthState(1)
      BY <1>6, <2>1, <3>1, LengthBegins, Zenon
    <3>3. 1 - 1 = 0 /\ Length(LengthName) \in 5 .. 17
      <4>1. Length(LengthName) \in 5 .. 17
        BY LengthNameIs, Zenon DEF Length
      <4>2. QED
        BY <4>1
    <3>4. ~(1 > Length(LengthName) + 2) /\ 1 \notin Length(LengthName) + 1 .. Length(LengthName) + 2
      BY <3>3
    <3>5. QED
      BY <2>1, <3>2, <3>3, <3>4, Zenon DEF OnLength
  <2>9. OnLine(q, Only("header_field", First(name, 1)), g, m, c, i, 0 + 1)
    BY <1>5, <2>2, <2>8, <2>12, Zenon DEF OnLine, name, nl
  <2>10. Reading(q, Only("header_field", First(name, 1)), g, m, c, r + 1)
    BY <1>5, <2>7, <2>9, OnNext, Zenon DEF n, s
  <2>11. QED
    BY <2>2, <2>10, <2>12, OnwardTurns, Zenon DEF q, ch
<1>10. QED
  BY <1>8, <1>9

(* What is known of the line of the length after so much of its name. *)
LEMMA LengthNamed ==
    ASSUME NEW q, NEW c, NEW d \in 1 .. Length(LengthName), q.header_state = LengthState(d), q.index = d - 1
    PROVE  OnLength(q, c, d)
<1>1. Length(LengthName) \in 5 .. 17
  BY LengthNameIs, Zenon DEF Length
<1> DEFINE nl == Length(LengthName)
<1> HIDE DEF nl
<1>2. ~(d \in nl + 1 .. nl + 2) /\ ~(d > nl + 2)
  BY <1>1 DEF nl
<1>3. QED
  BY <1>2, Zenon DEF OnLength, nl

(* A byte of a name. *)
LEMMA ReadingName ==
    ASSUME NEW m, NEW c, NEW p, NEW f, NEW w, Reads(m, c, p, f, w), Begun(p, f, m),
           NEW i \in 1 .. Count(m), ~Skipped(m, i), NEW nl, nl = Len(Name(m, c, i)),
           NEW d \in 1 .. nl - 1, NEW r, r = Start(m, c, i) + d,
           NEW st, OnLine(p, st, f, m, c, i, d)
    PROVE  Onward(p, Read(p, w[r + 1]), st, f, m, c, r, w[r + 1])
<1> DEFINE name == Name(m, c, i)
           vl == Len(Value(m, c, i))
           s == Start(m, c, i)
           n == Len(HeaderLines(m, c)[i])
           ch == w[r + 1]
           q  == Read(p, ch)
<1>1. /\ Sendable(m) /\ c \in 0 .. MaxLength /\ Sound(p) /\ ~Stopped(p) /\ p.type = m.type
      /\ w = Append(Bytes(m, c), NUL) /\ Fielded(f)
  BY DEF Reads
<1>2. /\ nl \in Nat \ {0} /\ vl \in Nat /\ s \in Nat /\ n = nl + vl + 3
      /\ \A k \in 0 .. nl - 1 : w[s + k + 1] = name[k + 1] /\ w[s + k + 1] \in TOKEN
  <2>1. LineLayout(w, s, n, Start(m, c, i + 1), name, Value(m, c, i))
    BY <1>1, LineLaid, Zenon
  <2> HIDE DEF s, n, name
  <2>2. QED
    BY <2>1 DEF LineLayout, name
<1>3. r = s + d
  OBVIOUS
<1>4. nl \in Nat \ {0} /\ vl \in Nat /\ s \in Nat /\ n = nl + vl + 3
  BY <1>2, Zenon
<1> HIDE DEF name, vl, s, n, q, ch
<1>5. /\ nl \in Nat /\ nl > 0 /\ vl \in Nat /\ s \in Nat /\ n = nl + vl + 3 /\ n \in Nat
      /\ d \in Nat /\ d \in 0 .. nl - 1 /\ d \in 1 .. nl /\ d + 1 \in 1 .. nl /\ r = s + d /\ d + 1 < n
      /\ s + d + 1 = r + 1 /\ (d + 1) - 1 = d
  BY <1>3, <1>4
<1>6. ch = name[d + 1] /\ ch \in TOKEN
  <2>1. w[s + d + 1] = name[d + 1] /\ w[s + d + 1] \in TOKEN
    BY <1>2, <1>5, Zenon
  <2>2. w[s + d + 1] = ch
    BY <1>5, Zenon DEF ch
  <2>3. QED
    BY <2>1, <2>2, Zenon
<1>7. /\ p.state = "s_header_field" /\ p.marks = {"header_field"}
      /\ st = Only("header_field", First(name, d))
      /\ f.headers = HeadersBefore(m, c, i)
  BY <1>5, LineAt DEF vl, name
<1>8. CASE Failed(q)
  BY <1>8, Zenon DEF Onward, q, ch
<1>9. CASE ~Failed(q)
  <2>1. /\ Got(p, q, {"header_state", "index", "passed"}, "s_header_field",
               {"header_field"}, {"header_field"}, {})
        /\ \E t : /\ Turned(p, t) /\ t.header_state \in FieldHeaders /\ Indexed(t)
                  /\ q.header_state = FieldByte(t, Lowered(ch)).header_state
                  /\ q.index = FieldByte(t, Lowered(ch)).index
    BY <1>1, <1>6, <1>7, <1>9, ReadName DEF q, ch
  <2>2. /\ q.state = "s_header_field" /\ q.marks = {"header_field"} /\ q.data = {"header_field"}
        /\ q.calls = {} /\ q.type = p.type /\ q.exited = p.exited /\ q.method = p.method
        /\ q.status_code = p.status_code /\ q.flags = p.flags
    BY <2>1, GotIs
  <2>3. Append(First(name, d), ch) = First(name, d + 1)
    <3>1. name \in Seq(Letters(m))
      BY <1>1, HeaderIs, Zenon DEF name
    <3>2. QED
      BY <1>5, <1>6, <3>1, FirstIs, Zenon DEF name
  <2>4. Turns(p, q, st, ch, f, Only("header_field", First(name, d + 1)), f)
    <3>1. Gathers(p, q, "header_field")
      BY <1>7, <2>2 DEF Gathers, Names
    <3>2. Turns(p, q, Only("header_field", First(name, d)), ch, f,
                Only("header_field", Append(First(name, d), ch)), f)
      BY <3>1, Gathered, Zenon
    <3>3. QED
      BY <1>7, <2>3, <3>2
  <2>5. Begun(q, f, m)
    <3>1. "TRAILING" \notin q.flags
      BY <2>2, Zenon DEF Begun
    <3>2. QED
      BY <2>2, <3>1, BegunKept, Zenon
  <2>6. i = Count(m) => OnLength(q, c, d + 1)
    <3> SUFFICES ASSUME i = Count(m)
                 PROVE  OnLength(q, c, d + 1)
      OBVIOUS
    <3>1. name = Text(LengthName)
      BY <1>1, HeadersAre, Zenon DEF name
    <3>2. nl = Length(LengthName)
      BY <3>1, LengthNameIs, Zenon DEF Length, name
    <3>3. p.header_state = LengthState(d) /\ p.index = d - 1
      BY <1>5, <3>2, Zenon DEF OnLine, OnLength
    <3>4. PICK t : /\ Turned(p, t)
                   /\ q.header_state = FieldByte(t, Lowered(ch)).header_state
                   /\ q.index = FieldByte(t, Lowered(ch)).index
      BY <2>1, Zenon
    <3>5. t \in Parser /\ t.header_state = LengthState(d) /\ t.index = d - 1
      BY <3>3, <3>4, TurnedIs, ZenonT(40)
    <3>6. d \in 1 .. Length(LengthName) - 1
      BY <3>2, Zenon
    <3>7. q.header_state = LengthState(d + 1) /\ q.index = d
      BY <1>6, <3>1, <3>4, <3>5, <3>6, LengthGoesOn, Zenon
    <3>8. QED
      BY <1>5, <3>2, <3>7, LengthNamed, Zenon
  <2>7. OnLine(q, Only("header_field", First(name, d + 1)), f, m, c, i, d + 1)
    BY <1>5, <1>7, <2>2, <2>6, Zenon DEF OnLine, name
  <2>8. Reading(q, Only("header_field", First(name, d + 1)), f, m, c, r + 1)
    BY <1>5, <2>5, <2>7, OnNext, Zenon DEF n, s
  <2>9. QED
    BY <2>2, <2>4, <2>8, OnwardTurns, Zenon DEF q, ch
<1>10. QED
  BY <1>8, <1>9

(* The colon after a name is one byte, and the blank after it another. *)
LEMMA LengthColon ==
    ASSUME NEW p, NEW q, NEW c, NEW nl, nl = Length(LengthName), NEW d \in nl .. nl + 1,
           OnLength(p, c, d), q.header_state = p.header_state
    PROVE  OnLength(q, c, d + 1)
<1>1. Length(LengthName) \in 5 .. 17
  BY LengthNameIs, Zenon DEF Length
<1>2. /\ d = nl => d \in 1 .. nl
      /\ d # nl => d \in nl + 1 .. nl + 2
      /\ d + 1 \in nl + 1 .. nl + 2 /\ ~(d + 1 \in 1 .. nl) /\ ~(d + 1 > nl + 2)
  BY <1>1
<1>3. p.header_state = "h_content_length"
  <2>1. CASE d = nl
    BY <1>2, <2>1, Zenon DEF OnLength, LengthState
  <2>2. CASE d # nl
    BY <1>2, <2>2, Zenon DEF OnLength
  <2>3. QED
    BY <2>1, <2>2
<1>4. QED
  BY <1>2, <1>3, Zenon DEF OnLength

(* The colon after a name. *)
LEMMA ReadingColon ==
    ASSUME NEW m, NEW c, NEW p, NEW f, NEW w, Reads(m, c, p, f, w), Begun(p, f, m),
           NEW i \in 1 .. Count(m), ~Skipped(m, i), NEW nl, nl = Len(Name(m, c, i)),
           NEW d, d = nl, NEW r, r = Start(m, c, i) + d,
           NEW st, OnLine(p, st, f, m, c, i, d)
    PROVE  Onward(p, Read(p, w[r + 1]), st, f, m, c, r, w[r + 1])
<1> DEFINE name == Name(m, c, i)
           vl == Len(Value(m, c, i))
           s == Start(m, c, i)
           n == Len(HeaderLines(m, c)[i])
           ch == w[r + 1]
           q  == Read(p, ch)
           g  == on_header_field(f, name)
<1>1. /\ Sendable(m) /\ c \in 0 .. MaxLength /\ Sound(p) /\ ~Stopped(p) /\ p.type = m.type
      /\ w = Append(Bytes(m, c), NUL) /\ Fielded(f)
  BY DEF Reads
<1>2. /\ nl \in Nat \ {0} /\ vl \in Nat /\ s \in Nat /\ n = nl + vl + 3
      /\ w[s + nl + 1] = ":"
  <2>1. LineLayout(w, s, n, Start(m, c, i + 1), name, Value(m, c, i))
    BY <1>1, LineLaid, Zenon
  <2> HIDE DEF s, n, name
  <2>2. QED
    BY <2>1 DEF LineLayout, name
<1>3. r = s + d
  OBVIOUS
<1>4. nl \in Nat \ {0} /\ vl \in Nat /\ s \in Nat /\ n = nl + vl + 3
  BY <1>2, Zenon
<1> HIDE DEF name, vl, s, n, q, ch, g
<1>5. /\ nl \in Nat /\ nl > 0 /\ vl \in Nat /\ s \in Nat /\ n = nl + vl + 3 /\ n \in Nat
      /\ d \in Nat /\ d \in 1 .. nl /\ d + 1 \in nl + 1 .. nl + 2 /\ r = s + d /\ d + 1 < n
      /\ s + nl + 1 = r + 1 /\ d \in nl .. nl + 1
  BY <1>3, <1>4
<1>6. ch = ":"
  BY <1>2, <1>5, Zenon DEF ch
<1>7. /\ p.state = "s_header_field" /\ p.marks = {"header_field"}
      /\ st = Only("header_field", First(name, d))
      /\ f.headers = HeadersBefore(m, c, i)
  BY <1>5, LineAt DEF vl, name
<1>8. CASE Failed(q)
  BY <1>8, Zenon DEF Onward, q, ch
<1>9. CASE ~Failed(q)
  <2>1. Got(p, q, {"passed", "skipping"}, "s_header_value_discard_ws", {}, {}, {})
    BY <1>1, <1>6, <1>7, <1>9, ReadNameEnd, Zenon DEF q, ch
  <2>2. /\ q.state = "s_header_value_discard_ws" /\ q.marks = {} /\ q.data = {}
        /\ q.calls = {} /\ q.type = p.type /\ q.exited = p.exited /\ q.method = p.method
        /\ q.status_code = p.status_code /\ q.flags = p.flags /\ q.header_state = p.header_state
    BY <2>1, GotIs
  <2>3. First(name, d) = name
    <3>1. name \in Seq(Letters(m))
      BY <1>1, HeaderIs, Zenon DEF name
    <3>2. QED
      BY <3>1, FirstIs, Zenon DEF name
  <2>4. Turns(p, q, st, ch, f, NoStrings, g)
    <3>1. Gives(p, q, "header_field")
      BY <1>7, <2>2 DEF Gives, Names
    <3>2. Turns(p, q, Only("header_field", name), ch, f, NoStrings, g)
      BY <3>1, NameGiven, Zenon DEF g
    <3>3. QED
      BY <1>7, <2>3, <3>2
  <2>5. /\ g.url = f.url /\ g.method = f.method /\ g.body = f.body /\ g.headers = f.headers
        /\ g.temp_header_field = tolower(name)
    <3>1. NamePut(f, g, name)
      BY <1>1, NameIsPut, Zenon DEF g
    <3>2. QED
      BY <3>1 DEF NamePut
  <2>6. Begun(q, g, m)
    <3>1. "TRAILING" \notin q.flags
      BY <2>2, Zenon DEF Begun
    <3>2. QED
      BY <2>2, <2>5, <3>1, BegunKept, Zenon
  <2>7. i = Count(m) => OnLength(q, c, d + 1)
    <3> SUFFICES ASSUME i = Count(m)
                 PROVE  OnLength(q, c, d + 1)
      OBVIOUS
    <3>1. name = Text(LengthName)
      BY <1>1, HeadersAre, Zenon DEF name
    <3>2. nl = Length(LengthName)
      BY <3>1, LengthNameIs, Zenon DEF Length, name
    <3>3. OnLength(p, c, d)
      BY Zenon DEF OnLine
    <3>4. QED
      BY <1>5, <2>2, <3>2, <3>3, LengthColon, Zenon
  <2>8. OnLine(q, NoStrings, g, m, c, i, d + 1)
    BY <1>5, <1>7, <2>2, <2>5, <2>7, Zenon DEF OnLine, name
  <2>9. Reading(q, NoStrings, g, m, c, r + 1)
    BY <1>5, <2>6, <2>8, OnNext, Zenon DEF n, s
  <2>10. QED
    BY <2>2, <2>4, <2>9, OnwardTurns, Zenon DEF q, ch
<1>10. QED
  BY <1>8, <1>9

(* What a blank and a line end do where a value begins. *)
LEMMA ValueMoves ==
    /\ Moved("s_header_value_discard_ws", SPACE) =
            {<<"s_header_value_discard_ws", SPACE, "s_header_value_discard_ws">>}
    /\ Moved("s_header_value_discard_ws", LF) =
            {<<"s_header_value_discard_ws", LF, "s_header_value_discard_lws">>}
<1>1. SPACE # TAB /\ SPACE # CR /\ SPACE # LF /\ LF # CR /\ LF # TAB
  BY Zenon DEF SPACE, TAB, CR, LF
<1>2. QED
  BY <1>1 DEF Moved, Moves

(* The blank after a colon. *)
LEMMA ReadingBlank ==
    ASSUME NEW m, NEW c, NEW p, NEW f, NEW w, Reads(m, c, p, f, w), Begun(p, f, m),
           NEW i \in 1 .. Count(m), ~Skipped(m, i), NEW nl, nl = Len(Name(m, c, i)),
           NEW d, d = nl + 1, NEW r, r = Start(m, c, i) + d,
           NEW st, OnLine(p, st, f, m, c, i, d)
    PROVE  Onward(p, Read(p, w[r + 1]), st, f, m, c, r, w[r + 1])
<1> DEFINE name == Name(m, c, i)
           vl == Len(Value(m, c, i))
           s == Start(m, c, i)
           n == Len(HeaderLines(m, c)[i])
           ch == w[r + 1]
           q  == Read(p, ch)
<1>1. /\ Sendable(m) /\ c \in 0 .. MaxLength /\ Sound(p) /\ ~Stopped(p) /\ p.type = m.type
      /\ w = Append(Bytes(m, c), NUL) /\ Fielded(f)
  BY DEF Reads
<1>2. /\ nl \in Nat \ {0} /\ vl \in Nat /\ s \in Nat /\ n = nl + vl + 3
      /\ w[s + nl + 2] = SPACE
  <2>1. LineLayout(w, s, n, Start(m, c, i + 1), name, Value(m, c, i))
    BY <1>1, LineLaid, Zenon
  <2> HIDE DEF s, n, name
  <2>2. QED
    BY <2>1 DEF LineLayout, name
<1>3. r = s + d
  OBVIOUS
<1>4. nl \in Nat \ {0} /\ vl \in Nat /\ s \in Nat /\ n = nl + vl + 3
  BY <1>2, Zenon
<1> HIDE DEF name, vl, s, n, q, ch
<1>5. /\ nl \in Nat /\ nl > 0 /\ vl \in Nat /\ s \in Nat /\ n = nl + vl + 3 /\ n \in Nat
      /\ d \in Nat /\ d \in nl + 1 .. nl + 2 /\ d + 1 \in nl + 1 .. nl + 2 /\ r = s + d /\ d + 1 < n
      /\ s + nl + 2 = r + 1 /\ d \in nl .. nl + 1
  BY <1>3, <1>4
<1>6. ch = SPACE
  BY <1>2, <1>5, Zenon DEF ch
<1>7. /\ p.state = "s_header_value_discard_ws" /\ p.marks = {} /\ st = NoStrings
      /\ f.headers = HeadersBefore(m, c, i) /\ f.temp_header_field = tolower(name)
  BY <1>5, LineAt, SMTT(40) DEF vl, name
<1>8. CASE Failed(q)
  BY <1>8, Zenon DEF Onward, q, ch
<1>9. CASE ~Failed(q)
  <2>1. Got(p, q, {}, "s_header_value_discard_ws", {}, {}, {})
    <3>1. /\ p.state \notin ChunkStates /\ p.state # "s_body_identity" /\ p.state \notin Loops
          /\ "s_header_value_discard_ws" \in States
      BY <1>7 DEF ChunkStates, Loops, States, Lasting, Heads
    <3>2. p.passed = 0
      BY <1>1, <3>1, Outside, Zenon
    <3>3. Moved(p.state, ch) = {<<p.state, ch, "s_header_value_discard_ws">>}
      BY <1>6, <1>7, ValueMoves
    <3>4. QED
      BY <1>1, <1>7, <1>9, <3>1, <3>2, <3>3, MoveBetween, Zenon DEF q
  <2>2. /\ q.state = "s_header_value_discard_ws" /\ q.marks = {}
        /\ q.type = p.type /\ q.exited = p.exited /\ q.method = p.method
        /\ q.status_code = p.status_code /\ q.flags = p.flags /\ q.header_state = p.header_state
    BY <2>1, GotIs
  <2>4. Begun(q, f, m)
    <3>1. "TRAILING" \notin q.flags
      BY <2>2, Zenon DEF Begun
    <3>2. QED
      BY <2>2, <3>1, BegunKept, Zenon
  <2>5. i = Count(m) => OnLength(q, c, d + 1)
    <3> SUFFICES ASSUME i = Count(m)
                 PROVE  OnLength(q, c, d + 1)
      OBVIOUS
    <3>1. name = Text(LengthName)
      BY <1>1, HeadersAre, Zenon DEF name
    <3>2. nl = Length(LengthName)
      BY <3>1, LengthNameIs, Zenon DEF Length, name
    <3>3. OnLength(p, c, d)
      BY Zenon DEF OnLine
    <3>4. QED
      BY <1>5, <2>2, <3>2, <3>3, LengthColon, Zenon
  <2>6. OnLine(q, NoStrings, f, m, c, i, d + 1)
    BY <1>5, <1>7, <2>2, <2>5, Zenon DEF OnLine, name
  <2>7. Reading(q, NoStrings, f, m, c, r + 1)
    BY <1>5, <2>4, <2>6, OnNext, Zenon DEF n, s
  <2>8. Onward(p, q, NoStrings, f, m, c, r, ch)
    BY <1>7, <2>1, <2>7, OnwardNothing
  <2>9. QED
    BY <1>7, <2>8 DEF q, ch
<1>10. QED
  BY <1>8, <1>9

(* A value that is put is one header more. *)
LEMMA JoinedIs ==
    ASSUME NEW f, NEW g, NEW s, ValuePut(f, g, s)
    PROVE  g.headers = WithHeader(f.headers, f.temp_header_field, s)
BY Zenon DEF ValuePut, WithHeader

(* The end of a line, and what follows it. *)
LEMMA LineEnds ==
    ASSUME NEW m, Sendable(m), NEW c \in 0 .. MaxLength, NEW i \in 1 .. Count(m), ~Skipped(m, i),
           NEW q, NEW f, NEW g, Begun(q, g, m), q.state \in LineStates, q.marks = {},
           f.headers = HeadersBefore(m, c, i), f.temp_header_field = tolower(Name(m, c, i)), Fielded(f),
           HeadersRead(q, g) = on_header_value(f, Value(m, c, i)).headers,
           i = Count(m) => /\ q.state = "s_header_value_lws" /\ q.content_length = c
                           /\ "CONTENTLENGTH" \in q.flags
    PROVE  Reading(q, NoStrings, g, m, c, Start(m, c, i + 1))
<1>1. HeadersRead(q, g) = HeadersBefore(m, c, i + 1)
  <2>1. ValuePut(f, on_header_value(f, Value(m, c, i)), Value(m, c, i))
    BY ValueIsPut, Zenon
  <2>2. on_header_value(f, Value(m, c, i)).headers =
            WithHeader(f.headers, f.temp_header_field, Value(m, c, i))
    BY <2>1, JoinedIs, Zenon
  <2>3. HeadersBefore(m, c, i + 1) = WithHeader(HeadersBefore(m, c, i), tolower(Name(m, c, i)), Value(m, c, i))
    BY HeadersNext, Zenon
  <2>4. QED
    BY <2>2, <2>3
<1>2. CASE i = Count(m)
  <2>1. g.headers = HeadersBefore(m, c, Count(m) + 1)
    <3>1. q.state # "s_header_value_discard_lws"
      BY <1>2
    <3>2. QED
      BY <1>1, <1>2, <3>1, Zenon DEF HeadersRead
  <2>2. AfterLines(q, NoStrings, g, m, c, Start(m, c, i + 1))
    BY <1>2, <2>1, Zenon DEF AfterLines
  <2>3. QED
    BY <2>2, Zenon DEF Reading
<1>3. CASE i # Count(m)
  <2>1. i + 1 \in 1 .. Count(m)
    <3>1. Count(m) \in Nat
      BY HeadersAre
    <3>2. QED
      BY <1>3, <3>1
  <2>2. QED
    BY <1>1, <2>1, LineNext, Zenon
<1>4. QED
  BY <1>2, <1>3

(* What is known of the line of the length in its value. *)
InLength(p, c, k) ==
    /\ p.header_state = "h_content_length" /\ ~p.skipping
    /\ "CONTENTLENGTH" \in p.flags /\ p.content_length = Leading(c, k)

(* What is known inside the value of the length. *)
LEMMA LengthValued ==
    ASSUME NEW p, NEW c, NEW k \in Nat, k > 0, NEW d, At(d, Length(LengthName) + 2 + k)
    PROVE  OnLength(p, c, d) <=> InLength(p, c, k)
<1> DEFINE nl == Length(LengthName)
<1>1. nl \in 5 .. 17
  BY LengthNameIs, Zenon DEF Length
<1> HIDE DEF nl
<1>2. d = nl + 2 + k
  BY Zenon DEF At, nl
<1>3. /\ ~(d \in 1 .. nl) /\ ~(d \in nl + 1 .. nl + 2) /\ d > nl + 2 /\ d - nl - 2 = k
  BY <1>1, <1>2
<1>4. OnLength(p, c, d) <=>
              /\ p.header_state = "h_content_length" /\ ~p.skipping
              /\ "CONTENTLENGTH" \in p.flags /\ p.content_length = Leading(c, d - nl - 2)
  BY <1>3, Zenon DEF OnLength, nl
<1>5. QED
  BY <1>3, <1>4 DEF InLength

(* A value has begun. *)
ValueBegun(p, q, ch) ==
    /\ Got(p, q, {"header_state", "index", "flags", "content_length"}, "s_header_value",
           {"header_value"}, {"header_value"}, {})
    /\ "TRAILING" \in q.flags <=> "TRAILING" \in p.flags
    /\ p.header_state = "h_content_length" =>
          /\ ch \in NUM /\ "CONTENTLENGTH" \in q.flags
          /\ q.content_length = Digit[ch] /\ q.header_state = "h_content_length"

(* The first letter of a value. *)
LEMMA ValueBegins ==
    ASSUME NEW p, Sound(p), ~Stopped(p), p.state = "s_header_value_discard_ws", p.marks = {},
           NEW ch, ch \notin {SPACE, TAB, CR, LF}, ~Failed(Read(p, ch))
    PROVE  ValueBegun(p, Read(p, ch), ch)
BY ReadValueFirst DEF ValueBegun

(* The first byte of a value, or the end of an empty one. *)
LEMMA ReadingValueFirst ==
    ASSUME NEW m, NEW c, NEW p, NEW f, NEW w, Reads(m, c, p, f, w), Begun(p, f, m),
           NEW i \in 1 .. Count(m), ~Skipped(m, i), NEW nl, nl = Len(Name(m, c, i)),
           NEW d, d = nl + 2, NEW r, r = Start(m, c, i) + d,
           NEW st, OnLine(p, st, f, m, c, i, d)
    PROVE  Onward(p, Read(p, w[r + 1]), st, f, m, c, r, w[r + 1])
<1> DEFINE name == Name(m, c, i)
           val == Value(m, c, i)
           vl == Len(val)
           s == Start(m, c, i)
           n == Len(HeaderLines(m, c)[i])
           ch == w[r + 1]
           q  == Read(p, ch)
<1>1. /\ Sendable(m) /\ c \in 0 .. MaxLength /\ Sound(p) /\ ~Stopped(p) /\ p.type = m.type
      /\ w = Append(Bytes(m, c), NUL) /\ Fielded(f)
  BY DEF Reads
<1>2. /\ nl \in Nat \ {0} /\ vl \in Nat /\ s \in Nat /\ n = nl + vl + 3
      /\ Start(m, c, i + 1) = s + nl + vl + 3
      /\ \A k \in 1 .. vl : w[s + nl + 2 + k] = val[k] /\ w[s + nl + 2 + k] \notin {CR, LF}
      /\ vl > 0 => w[s + nl + 3] \notin {SPACE, TAB}
      /\ w[s + nl + vl + 3] = LF
  <2>1. LineLayout(w, s, n, Start(m, c, i + 1), name, val)
    BY <1>1, LineLaid, Zenon
  <2> HIDE DEF s, n, name, val
  <2>2. QED
    BY <2>1 DEF LineLayout, name, val
<1>3. r = s + d
  OBVIOUS
<1>4. nl \in Nat \ {0} /\ vl \in Nat /\ s \in Nat /\ n = nl + vl + 3
  BY <1>2, Zenon
<1>5. val \in Seq(Letters(m))
  BY <1>1, HeaderIs, Zenon
<1> HIDE DEF name, val, vl, s, n, q, ch
<1>6. /\ nl \in Nat /\ nl > 0 /\ vl \in Nat /\ s \in Nat /\ n = nl + vl + 3 /\ n \in Nat
      /\ d \in Nat /\ d \in nl + 1 .. nl + 2 /\ r = s + d
      /\ s + nl + 3 = r + 1 /\ d + 1 = nl + 2 + 1 /\ nl + 2 + 1 = nl + 3
      /\ s + nl + 2 + 1 = r + 1 /\ 1 \in Nat /\ 1 > 0 /\ (d + 1) - nl - 2 = 1 /\ 0 + 1 = 1
      /\ vl # 0 => 1 \in 1 .. vl /\ vl > 0 /\ d + 1 < n /\ d + 1 \in nl + 3 .. nl + 2 + vl /\ 0 \in 0 .. vl - 1
      /\ vl = 0 => s + nl + vl + 3 = r + 1
  BY <1>3, <1>4
<1>7. /\ p.state = "s_header_value_discard_ws" /\ p.marks = {} /\ st = NoStrings
      /\ f.headers = HeadersBefore(m, c, i) /\ f.temp_header_field = tolower(name)
  BY <1>6, LineAt, SMTT(40) DEF val, vl, name
<1>8. CASE Failed(q)
  BY <1>8, Zenon DEF Onward, q, ch
<1>9. CASE ~Failed(q) /\ vl = 0
  <2>1. ch = LF /\ val = <<>>
    <3>1. ch = LF
      BY <1>2, <1>6, <1>9, Zenon DEF ch
    <3>2. val = <<>>
      BY <1>5, <1>9, EmptySeq DEF vl
    <3>3. QED
      BY <3>1, <3>2
  <2>2. Got(p, q, {}, "s_header_value_discard_lws", {}, {}, {})
    <3>1. /\ p.state \notin ChunkStates /\ p.state # "s_body_identity" /\ p.state \notin Loops
          /\ "s_header_value_discard_lws" \in States
      BY <1>7 DEF ChunkStates, Loops, States, Lasting, Heads
    <3>2. p.passed = 0
      BY <1>1, <3>1, Outside, Zenon
    <3>3. Moved(p.state, ch) = {<<p.state, ch, "s_header_value_discard_lws">>}
      BY <1>7, <2>1, ValueMoves
    <3>4. QED
      BY <1>1, <1>7, <1>9, <3>1, <3>2, <3>3, MoveBetween, Zenon DEF q
  <2>3. /\ q.state = "s_header_value_discard_lws" /\ q.marks = {}
        /\ q.type = p.type /\ q.exited = p.exited /\ q.method = p.method
        /\ q.status_code = p.status_code /\ q.flags = p.flags /\ q.header_state = p.header_state
    BY <2>2, GotIs
  <2>5. Begun(q, f, m)
    <3>1. "TRAILING" \notin q.flags
      BY <2>3, Zenon DEF Begun
    <3>2. QED
      BY <2>3, <3>1, BegunKept, Zenon
  <2>6. i # Count(m)
    <3>1. Len(to_string(c)) # 0 
      BY <1>1, WrittenLength
    <3>2. Value(m, c, Count(m)) = to_string(c)
      BY <1>1, HeadersAre, Zenon
    <3>3. QED
      BY <1>9, <3>1, <3>2, Zenon DEF vl, val
  <2>7. HeadersRead(q, f) = on_header_value(f, val).headers /\ q.state \in LineStates
    <3>1. HeadersRead(q, f) = on_header_value(f, val).headers
      BY <2>1, <2>3, Zenon DEF HeadersRead
    <3>2. q.state \in LineStates
      BY <2>3 DEF LineStates
    <3>3. QED
      BY <3>1, <3>2
  <2>8. Reading(q, NoStrings, f, m, c, Start(m, c, i + 1))
    BY <1>1, <1>7, <2>3, <2>5, <2>6, <2>7, LineEnds, Zenon DEF name, val
  <2>9. Start(m, c, i + 1) = r + 1
    BY <1>2, <1>6, <1>9, Zenon
  <2>10. Reading(q, NoStrings, f, m, c, r + 1)
    BY <2>8, <2>9
  <2>11. Onward(p, q, NoStrings, f, m, c, r, ch)
    BY <1>7, <2>2, <2>10, OnwardNothing
  <2>12. QED
    BY <1>7, <2>11 DEF q, ch
<1>10. CASE ~Failed(q) /\ vl # 0
  <2>1. ch = val[1] /\ ch \notin {SPACE, TAB, CR, LF}
    <3>1. ch = val[1] /\ ch \notin {CR, LF} /\ ch \notin {SPACE, TAB}
      BY <1>2, <1>6, <1>10, Zenon DEF ch
    <3>2. QED
      BY <3>1, Zenon
  <2>0. ValueBegun(p, q, ch)
    BY <1>1, <1>7, <1>10, <2>1, ValueBegins, Zenon DEF q
  <2>2. /\ Got(p, q, {"header_state", "index", "flags", "content_length"}, "s_header_value",
               {"header_value"}, {"header_value"}, {})
        /\ "TRAILING" \in q.flags <=> "TRAILING" \in p.flags
        /\ p.header_state = "h_content_length" =>
              /\ ch \in NUM /\ "CONTENTLENGTH" \in q.flags
              /\ q.content_length = Digit[ch] /\ q.header_state = "h_content_length"
    BY <2>0, Zenon DEF ValueBegun
  <2>3. /\ q.state = "s_header_value" /\ q.marks = {"header_value"} /\ q.data = {"header_value"}
        /\ q.calls = {} /\ q.type = p.type /\ q.exited = p.exited /\ q.method = p.method
        /\ q.status_code = p.status_code /\ q.skipping = p.skipping
    BY <2>2, GotIs
  <2>4. First(val, 1) = <<ch>> /\ Append(<<>>, ch) = <<ch>>
    <3>1. Append(First(val, 0), val[0 + 1]) = First(val, 0 + 1) /\ First(val, 0) = <<>>
      BY <1>5, <1>6, <1>10, FirstIs, Zenon DEF vl
    <3>2. Append(<<>>, ch) = <<ch>>
      OBVIOUS
    <3>3. QED
      BY <1>6, <2>1, <3>1, <3>2, Zenon
  <2>5. Turns(p, q, st, ch, f, Only("header_value", First(val, 1)), f)
    <3>1. Gathers(p, q, "header_value")
      BY <1>7, <2>3 DEF Gathers, Names
    <3>2. NoStrings = Only("header_value", <<>>)
      BY OnlyIs, Zenon DEF Names
    <3>3. Turns(p, q, Only("header_value", <<>>), ch, f, Only("header_value", Append(<<>>, ch)), f)
      BY <3>1, Gathered, Zenon
    <3>4. QED
      BY <1>7, <2>4, <3>2, <3>3
  <2>6. Begun(q, f, m)
    <3>1. "TRAILING" \notin q.flags
      BY <2>2, Zenon DEF Begun
    <3>2. QED
      BY <2>3, <3>1, BegunKept, Zenon
  <2>7. i = Count(m) => OnLength(q, c, d + 1)
    <3> SUFFICES ASSUME i = Count(m)
                 PROVE  OnLength(q, c, d + 1)
      OBVIOUS
    <3>1. name = Text(LengthName) /\ val = to_string(c)
      BY <1>1, HeadersAre, Zenon DEF name, val
    <3>2. nl = Length(LengthName)
      BY <3>1, LengthNameIs, Zenon DEF Length, name
    <3>3. p.header_state = "h_content_length"
      <4>1. OnLength(p, c, d)
        BY Zenon DEF OnLine
      <4>2. QED
        BY <1>6, <3>2, <4>1, Zenon DEF OnLength
    <3>4. ~p.skipping
      BY <1>1, <1>7 DEF Sound, Looped, Stopped, Loops
    <3>5. q.content_length = Leading(c, 1)
      BY <1>1, <2>1, <2>2, <3>1, <3>3, WrittenLength, Zenon
    <3>6. ~q.skipping
      BY <2>3, <3>4, Zenon
    <3>7. At(d + 1, Length(LengthName) + 2 + 1)
      BY <1>6, <3>2 DEF At
    <3>8. InLength(q, c, 1)
      BY <2>2, <3>3, <3>5, <3>6, Zenon DEF InLength
    <3>9. QED
      BY <1>6, <3>7, <3>8, LengthValued, Zenon
  <2>8. OnLine(q, Only("header_value", First(val, 1)), f, m, c, i, d + 1)
    BY <1>6, <1>7, <1>10, <2>3, <2>7, Zenon DEF OnLine, name, val, vl
  <2>9. Reading(q, Only("header_value", First(val, 1)), f, m, c, r + 1)
    BY <1>6, <1>10, <2>6, <2>8, OnNext, Zenon DEF n, s
  <2>10. QED
    BY <2>3, <2>5, <2>9, OnwardTurns, Zenon DEF q, ch
<1>11. QED
  BY <1>8, <1>9, <1>10

(* A value goes on. *)
ValueGoes(p, q, ch) ==
    /\ Got(p, q, {"header_state", "index", "flags", "content_length", "passed", "skipping"},
           "s_header_value", {"header_value"}, {"header_value"}, {})
    /\ "TRAILING" \in q.flags <=> "TRAILING" \in p.flags
    /\ ~p.skipping => \E t : /\ Turned(p, t) /\ ~Failed(ValueByte(t, ch))
                             /\ Like(ValueByte(t, ch), q, {"passed"})

(* A further letter of a value. *)
LEMMA ValueGoesOn ==
    ASSUME NEW p, Sound(p), ~Stopped(p), p.state = "s_header_value", p.marks = {"header_value"},
           NEW ch, ch \notin {CR, LF}, ~Failed(Read(p, ch))
    PROVE  ValueGoes(p, Read(p, ch), ch)
BY ReadValue DEF ValueGoes

(* Where a value is read. *)
LengthsAre(m, c, i, nl, vl) ==
    /\ nl \in Nat \ {0} /\ nl = Len(Name(m, c, i))
    /\ vl \in Nat /\ vl = Len(Value(m, c, i))

InValue(p, st, f, m, c, i, k) ==
    /\ p.state = "s_header_value" /\ p.marks = {"header_value"}
    /\ st = Only("header_value", First(Value(m, c, i), k))
    /\ f.headers = HeadersBefore(m, c, i) /\ f.temp_header_field = tolower(Name(m, c, i))

(* What is known inside a value, by the place. *)
LEMMA ValueAt ==
    ASSUME NEW p, NEW st, NEW f, NEW m, NEW c, NEW i, NEW nl, NEW vl, LengthsAre(m, c, i, nl, vl),
           NEW k \in 1 .. vl, NEW d, At(d, nl + 2 + k)
    PROVE  OnLine(p, st, f, m, c, i, d) <=>
              InValue(p, st, f, m, c, i, k) /\ (i = Count(m) => OnLength(p, c, d))
<1>1. /\ d \in nl + 3 .. nl + 2 + vl /\ d - nl - 2 = k /\ d # 0 /\ ~(d \in 1 .. nl)
      /\ ~(d \in nl + 1 .. nl + 2)
  BY DEF LengthsAre, At
<1>2. nl = Len(Name(m, c, i)) /\ vl = Len(Value(m, c, i))
  BY DEF LengthsAre
<1>3. OnLine(p, st, f, m, c, i, d) <=>
          /\ i = Count(m) => OnLength(p, c, d)
          /\ p.state = "s_header_value" /\ p.marks = {"header_value"}
          /\ st = Only("header_value", First(Value(m, c, i), d - nl - 2))
          /\ f.headers = HeadersBefore(m, c, i) /\ f.temp_header_field = tolower(Name(m, c, i))
  BY <1>1, <1>2 DEF OnLine
<1>4. QED
  BY <1>1, <1>3 DEF InValue

(* A text grows by its next byte. *)
LEMMA FirstNext ==
    ASSUME NEW T, NEW s \in Seq(T), NEW k \in 0 .. Len(s) - 1, NEW j, At(j, k + 1)
    PROVE  Append(First(s, k), s[j]) = First(s, j)
BY FirstIs DEF At

(* Another byte of a value. *)
LEMMA ReadingValue ==
    ASSUME NEW m, NEW c, NEW p, NEW f, NEW w, Reads(m, c, p, f, w), Begun(p, f, m),
           NEW i \in 1 .. Count(m), ~Skipped(m, i), NEW nl, nl = Len(Name(m, c, i)),
           NEW k \in 1 .. Len(Value(m, c, i)) - 1, NEW d, d = nl + 2 + k, NEW r, r = Start(m, c, i) + d,
           NEW st, OnLine(p, st, f, m, c, i, d)
    PROVE  Onward(p, Read(p, w[r + 1]), st, f, m, c, r, w[r + 1])
<1> DEFINE name == Name(m, c, i)
           val == Value(m, c, i)
           vl == Len(val)
           s == Start(m, c, i)
           n == Len(HeaderLines(m, c)[i])
           ch == w[r + 1]
           q  == Read(p, ch)
<1>1. /\ Sendable(m) /\ c \in 0 .. MaxLength /\ Sound(p) /\ ~Stopped(p) /\ p.type = m.type
      /\ w = Append(Bytes(m, c), NUL) /\ Fielded(f)
  BY DEF Reads
<1>2. /\ nl \in Nat \ {0} /\ vl \in Nat /\ s \in Nat /\ n = nl + vl + 3
      /\ \A j \in 1 .. vl : w[s + nl + 2 + j] = val[j] /\ w[s + nl + 2 + j] \notin {CR, LF}
  <2>1. LineLayout(w, s, n, Start(m, c, i + 1), name, val)
    BY <1>1, LineLaid, Zenon
  <2> HIDE DEF s, n, name, val
  <2>2. QED
    BY <2>1 DEF LineLayout, name, val
<1>3. r = s + d /\ k \in 1 .. vl - 1
  OBVIOUS
<1>4. nl \in Nat \ {0} /\ vl \in Nat /\ s \in Nat /\ n = nl + vl + 3
  BY <1>2, Zenon
<1>5. val \in Seq(Letters(m))
  BY <1>1, HeaderIs, Zenon
<1> HIDE DEF name, val, vl, s, n, q, ch
<1>6. /\ nl \in Nat /\ nl > 0 /\ vl \in Nat /\ s \in Nat /\ n = nl + vl + 3 /\ n \in Nat
      /\ d \in Nat /\ d \in nl + 3 .. nl + 2 + vl /\ d + 1 \in nl + 3 .. nl + 2 + vl /\ r = s + d
      /\ k \in Nat /\ k > 0 /\ k + 1 \in Nat /\ k + 1 > 0 /\ k + 1 \in 1 .. vl /\ k \in 0 .. vl - 1 
      /\ k \in 1 .. vl - 1 /\ d = nl + 2 + k /\ d + 1 = nl + 2 + (k + 1)
      /\ d - nl - 2 = k /\ (d + 1) - nl - 2 = k + 1
      /\ s + nl + 2 + (k + 1) = r + 1 /\ d + 1 < n
  BY <1>3, <1>4
<1>7. ch = val[k + 1] /\ ch \notin {CR, LF}
  BY <1>2, <1>6, Zenon DEF ch
<1> DEFINE j == k + 1
           e == d + 1
<1>0. /\ LengthsAre(m, c, i, nl, vl) /\ At(d, nl + 2 + k) /\ At(e, nl + 2 + j) /\ At(j, k + 1)
      /\ j \in 1 .. vl /\ k \in 1 .. vl /\ j = k + 1 /\ e = d + 1 /\ j \in Nat /\ j > 0
  BY <1>6 DEF At, LengthsAre, name, val, vl
<1> HIDE DEF j, e
<1>8. /\ p.state = "s_header_value" /\ p.marks = {"header_value"}
      /\ st = Only("header_value", First(val, k))
      /\ f.headers = HeadersBefore(m, c, i) /\ f.temp_header_field = tolower(name)
      /\ i = Count(m) => OnLength(p, c, d)
  <2>1. InValue(p, st, f, m, c, i, k) /\ (i = Count(m) => OnLength(p, c, d))
    BY <1>0, ValueAt, SMTT(40)
  <2>2. QED
    BY <2>1, Zenon DEF InValue, val, name
<1>9. CASE Failed(q)
  BY <1>9, Zenon DEF Onward, q, ch
<1>10. CASE ~Failed(q)
  <2>1. /\ Got(p, q, {"header_state", "index", "flags", "content_length", "passed", "skipping"},
               "s_header_value", {"header_value"}, {"header_value"}, {})
        /\ "TRAILING" \in q.flags <=> "TRAILING" \in p.flags
        /\ ~p.skipping => \E t : /\ Turned(p, t) /\ ~Failed(ValueByte(t, ch))
                                 /\ Like(ValueByte(t, ch), q, {"passed"})
    <3>1. ValueGoes(p, q, ch)
      BY <1>1, <1>7, <1>8, <1>10, ValueGoesOn, Zenon DEF q
    <3>2. QED
      BY <3>1, Zenon DEF ValueGoes
  <2>2. /\ q.state = "s_header_value" /\ q.marks = {"header_value"} /\ q.data = {"header_value"}
        /\ q.calls = {} /\ q.type = p.type /\ q.exited = p.exited /\ q.method = p.method
        /\ q.status_code = p.status_code
    BY <2>1, GotIs
  <2>3. Append(First(val, k), ch) = First(val, j)
    <3>1. Append(First(val, k), val[j]) = First(val, j)
      BY <1>0, <1>5, <1>6, FirstNext, Zenon DEF vl
    <3>2. ch = val[j]
      BY <1>0, <1>7
    <3>3. QED
      BY <3>1, <3>2
  <2>4. Turns(p, q, st, ch, f, Only("header_value", First(val, j)), f)
    <3>1. Gathers(p, q, "header_value")
      BY <1>8, <2>2 DEF Gathers, Names
    <3>2. Turns(p, q, Only("header_value", First(val, k)), ch, f,
                Only("header_value", Append(First(val, k), ch)), f)
      BY <3>1, Gathered, Zenon
    <3>3. QED
      BY <1>8, <2>3, <3>2
  <2>5. Begun(q, f, m)
    <3>1. "TRAILING" \notin q.flags
      BY <2>1, Zenon DEF Begun
    <3>2. QED
      BY <2>2, <3>1, BegunKept, Zenon
  <2>6. i = Count(m) => OnLength(q, c, e)
    <3> SUFFICES ASSUME i = Count(m)
                 PROVE  OnLength(q, c, e)
      OBVIOUS
    <3>1. name = Text(LengthName) /\ val = to_string(c)
      BY <1>1, HeadersAre, Zenon DEF name, val
    <3>2. nl = Length(LengthName)
      BY <3>1, LengthNameIs, Zenon DEF Length, name
    <3>3. /\ p.header_state = "h_content_length" /\ ~p.skipping
          /\ "CONTENTLENGTH" \in p.flags /\ p.content_length = Leading(c, k)
      <4>1. At(d, Length(LengthName) + 2 + k)
        BY <1>0, <3>2
      <4>2. InLength(p, c, k)
        BY <1>6, <1>8, <4>1, LengthValued, Zenon
      <4>3. QED
        BY <4>2, Zenon DEF InLength
    <3>4. PICK t : /\ Turned(p, t) /\ ~Failed(ValueByte(t, ch))
                   /\ Like(ValueByte(t, ch), q, {"passed"})
      BY <2>1, <3>3, Zenon
    <3>5. /\ t \in Parser /\ t.header_state = "h_content_length" /\ t.skipping = p.skipping
          /\ t.flags = p.flags /\ t.content_length = Leading(c, k)
      BY <3>3, <3>4, TurnedIs, ZenonT(40)
    <3>6. ch \in NUM /\ Leading(c, k + 1) = 10 * Leading(c, k) + Digit[ch]
      <4>1. to_string(c) \in Seq(NUM)
        BY <1>1, WrittenLength, Zenon
      <4>2. \A x \in 1 .. vl - 1 : Leading(c, x + 1) = 10 * Leading(c, x) + Digit[to_string(c)[x + 1]]
        BY <1>1, <3>1, WrittenLength, Zenon DEF vl
      <4>3. to_string(c)[k + 1] \in NUM
        BY <1>6, <3>1, <4>1, ElementOfSeq, Zenon DEF vl
      <4>4. QED
        BY <1>6, <1>7, <3>1, <4>2, <4>3, Zenon
    <3> DEFINE v == ValueByte(t, ch)
    <3> HIDE DEF v
    <3>7. /\ v.content_length = 10 * t.content_length + Digit[ch] /\ v.header_state = t.header_state
          /\ v.flags = t.flags /\ v.skipping = t.skipping
      BY <3>4, <3>5, <3>6, LengthGrows, Zenon DEF v
    <3>8. /\ q.content_length = v.content_length /\ q.header_state = v.header_state
          /\ q.flags = v.flags /\ q.skipping = v.skipping
      BY <3>4 DEF v, Like
    <3>9. /\ q.content_length = Leading(c, k + 1) /\ q.header_state = "h_content_length"
          /\ "CONTENTLENGTH" \in q.flags /\ ~q.skipping
      BY <3>3, <3>5, <3>6, <3>7, <3>8, Zenon
    <3>10. InLength(q, c, j)
      BY <1>0, <3>9 DEF InLength
    <3>11. At(e, Length(LengthName) + 2 + j)
      BY <1>0, <3>2
    <3>12. QED
      BY <1>0, <3>10, <3>11, LengthValued, Zenon
  <2>7. OnLine(q, Only("header_value", First(val, j)), f, m, c, i, e)
    <3>1. InValue(q, Only("header_value", First(val, j)), f, m, c, i, j)
      BY <1>8, <2>2, Zenon DEF InValue, name, val
    <3>2. QED
      BY <1>0, <2>6, <3>1, ValueAt, Zenon
  <2>8. Reading(q, Only("header_value", First(val, j)), f, m, c, r + 1)
    <3>1. OnLine(q, Only("header_value", First(val, j)), f, m, c, i, d + 1)
      BY <1>0, <2>7
    <3>2. QED
      BY <1>6, <2>5, <3>1, OnNext, Zenon DEF n, s
  <2>9. QED
    BY <2>2, <2>4, <2>8, OnwardTurns, Zenon DEF q, ch
<1>11. QED
  BY <1>9, <1>10

(* The end of the line of a value. *)
LEMMA ReadingValueEnd ==
    ASSUME NEW m, NEW c, NEW p, NEW f, NEW w, Reads(m, c, p, f, w), Begun(p, f, m),
           NEW i \in 1 .. Count(m), ~Skipped(m, i), NEW nl, nl = Len(Name(m, c, i)),
           NEW k, k = Len(Value(m, c, i)), k > 0, NEW d, d = nl + 2 + k, NEW r, r = Start(m, c, i) + d,
           NEW st, OnLine(p, st, f, m, c, i, d)
    PROVE  Onward(p, Read(p, w[r + 1]), st, f, m, c, r, w[r + 1])
<1> DEFINE name == Name(m, c, i)
           val == Value(m, c, i)
           s == Start(m, c, i)
           n == Len(HeaderLines(m, c)[i])
           ch == w[r + 1]
           q  == Read(p, ch)
           g  == on_header_value(f, val)
<1>1. /\ Sendable(m) /\ c \in 0 .. MaxLength /\ Sound(p) /\ ~Stopped(p) /\ p.type = m.type
      /\ w = Append(Bytes(m, c), NUL) /\ Fielded(f)
  BY DEF Reads
<1>2. /\ nl \in Nat \ {0} /\ k \in Nat /\ s \in Nat /\ n = nl + k + 3
      /\ Start(m, c, i + 1) = s + nl + k + 3
      /\ w[s + nl + k + 3] = LF
  <2>1. LineLayout(w, s, n, Start(m, c, i + 1), name, val)
    BY <1>1, LineLaid, Zenon
  <2> HIDE DEF s, n, name, val
  <2>2. QED
    BY <2>1 DEF LineLayout, name, val
<1>3. r = s + d
  OBVIOUS
<1>4. nl \in Nat \ {0} /\ k \in Nat /\ s \in Nat /\ n = nl + k + 3
  BY <1>2, Zenon
<1>5. val \in Seq(Letters(m))
  BY <1>1, HeaderIs, Zenon
<1> HIDE DEF name, val, s, n, q, ch, g
<1>6. /\ nl \in Nat /\ nl > 0 /\ k \in Nat /\ s \in Nat /\ n \in Nat
      /\ d \in Nat /\ d \in nl + 3 .. nl + 2 + k /\ r = s + d /\ d = nl + 2 + k
      /\ d - nl - 2 = k /\ s + nl + k + 3 = r + 1
  BY <1>3, <1>4
<1>7. ch = LF
  BY <1>2, <1>6, Zenon DEF ch
<1>0. LengthsAre(m, c, i, nl, k) /\ At(d, nl + 2 + k) /\ k \in 1 .. k
  BY <1>6 DEF At, LengthsAre
<1>8. /\ p.state = "s_header_value" /\ p.marks = {"header_value"}
      /\ i = Count(m) => OnLength(p, c, d)
      /\ st = Only("header_value", First(val, k))
      /\ f.headers = HeadersBefore(m, c, i) /\ f.temp_header_field = tolower(name)
  <2>1. InValue(p, st, f, m, c, i, k) /\ (i = Count(m) => OnLength(p, c, d))
    BY <1>0, ValueAt
  <2>2. QED
    BY <2>1, Zenon DEF InValue, val, name
<1>9. CASE Failed(q)
  BY <1>9, Zenon DEF Onward, q, ch
<1>10. CASE ~Failed(q)
  <2>1. Got(p, q, {"passed", "skipping"}, "s_header_value_lws", {}, {}, {})
    BY <1>1, <1>7, <1>8, <1>10, ReadValueEnd, Zenon DEF q, ch
  <2>2. /\ q.state = "s_header_value_lws" /\ q.marks = {} /\ q.data = {}
        /\ q.calls = {} /\ q.type = p.type /\ q.exited = p.exited /\ q.method = p.method
        /\ q.status_code = p.status_code /\ q.flags = p.flags /\ q.header_state = p.header_state
        /\ q.content_length = p.content_length
    BY <2>1, GotIs
  <2>3. First(val, k) = val
    BY <1>5, FirstIs, Zenon DEF val
  <2>4. Turns(p, q, st, ch, f, NoStrings, g)
    <3>1. Gives(p, q, "header_value")
      BY <1>8, <2>2 DEF Gives, Names
    <3>2. Turns(p, q, Only("header_value", val), ch, f, NoStrings, g)
      BY <3>1, ValueGiven, Zenon DEF g
    <3>3. QED
      BY <1>8, <2>3, <3>2
  <2>5. /\ g.url = f.url /\ g.method = f.method /\ g.body = f.body
    <3>1. ValuePut(f, g, val)
      BY <1>1, ValueIsPut, Zenon DEF g
    <3>2. QED
      BY <3>1 DEF ValuePut
  <2>6. Begun(q, g, m)
    <3>1. "TRAILING" \notin q.flags
      BY <2>2, Zenon DEF Begun
    <3>2. QED
      BY <2>2, <2>5, <3>1, BegunKept, Zenon
  <2>7. i = Count(m) => q.content_length = c /\ "CONTENTLENGTH" \in q.flags
    <3> SUFFICES ASSUME i = Count(m)
                 PROVE  q.content_length = c /\ "CONTENTLENGTH" \in q.flags
      OBVIOUS
    <3>1. name = Text(LengthName) /\ val = to_string(c)
      BY <1>1, HeadersAre, Zenon DEF name, val
    <3>2. nl = Length(LengthName)
      BY <3>1, LengthNameIs, Zenon DEF Length, name
    <3>3. "CONTENTLENGTH" \in p.flags /\ p.content_length = Leading(c, k)
      <4>1. At(d, Length(LengthName) + 2 + k)
        BY <1>0, <3>2
      <4>2. InLength(p, c, k)
        BY <1>6, <1>8, <4>1, LengthValued, Zenon
      <4>3. QED
        BY <4>2, Zenon DEF InLength
    <3>4. Leading(c, k) = c
      BY <1>1, <3>1, WrittenLength, Zenon DEF val
    <3>5. QED
      BY <2>2, <3>3, <3>4, Zenon
  <2>8. HeadersRead(q, g) = on_header_value(f, val).headers /\ q.state \in LineStates
    <3>1. q.state # "s_header_value_discard_lws" /\ q.state \in LineStates
      BY <2>2 DEF LineStates
    <3>2. QED
      BY <3>1, Zenon DEF HeadersRead, g
  <2>9. Reading(q, NoStrings, g, m, c, Start(m, c, i + 1))
    BY <1>1, <1>8, <2>2, <2>6, <2>7, <2>8, LineEnds, Zenon DEF name, val
  <2>10. Start(m, c, i + 1) = r + 1
    BY <1>2, <1>6, Zenon
  <2>11. Reading(q, NoStrings, g, m, c, r + 1)
    BY <2>9, <2>10
  <2>12. QED
    BY <2>2, <2>4, <2>11, OnwardTurns, Zenon DEF q, ch
<1>11. QED
  BY <1>9, <1>10

(* Where on a line a byte is. *)
Placed(nl, vl, d) ==
    \/ d = 0 \/ d \in 1 .. nl - 1 \/ d = nl \/ d = nl + 1 \/ d = nl + 2
    \/ \E k \in 1 .. vl - 1 : d = nl + 2 + k
    \/ vl > 0 /\ d = nl + 2 + vl

(* The parts of a line, by the place. *)
LEMMA LinePlace ==
    ASSUME NEW nl \in Nat, nl > 0, NEW vl \in Nat, NEW n, n = nl + vl + 3, NEW d \in 0 .. n - 1
    PROVE  Placed(nl, vl, d)
<1>1. CASE d > nl + 2
  <2> DEFINE k == d - nl - 2
  <2>1. d = nl + 2 + k /\ k \in 1 .. vl
    BY <1>1
  <2> HIDE DEF k
  <2>2. k \in 1 .. vl - 1 \/ (k = vl /\ vl > 0)
    BY <2>1
  <2>3. QED
    BY <2>1, <2>2, Zenon DEF Placed
<1>2. CASE ~(d > nl + 2)
  BY <1>2 DEF Placed
<1>3. QED
  BY <1>1, <1>2

(* A byte of the line of a header. *)
LEMMA ReadingLine ==
    ASSUME NEW m, NEW c, NEW p, NEW f, NEW w, Reads(m, c, p, f, w), Begun(p, f, m),
           NEW i \in 1 .. Count(m), ~Skipped(m, i),
           NEW d \in 0 .. Len(HeaderLines(m, c)[i]) - 1, NEW r, r = Start(m, c, i) + d,
           NEW st, OnLine(p, st, f, m, c, i, d)
    PROVE  Onward(p, Read(p, w[r + 1]), st, f, m, c, r, w[r + 1])
<1> DEFINE nl == Len(Name(m, c, i))
           vl == Len(Value(m, c, i))
           s == Start(m, c, i)
           n == Len(HeaderLines(m, c)[i])
           goal == Onward(p, Read(p, w[r + 1]), st, f, m, c, r, w[r + 1])
<1>1. Sendable(m) /\ c \in 0 .. MaxLength
  BY DEF Reads
<1>2. nl \in Nat \ {0} /\ vl \in Nat /\ s \in Nat /\ n = nl + vl + 3
  <2>1. LineLayout(Append(Bytes(m, c), NUL), s, n, Start(m, c, i + 1), Name(m, c, i), Value(m, c, i))
    BY <1>1, LineLaid, Zenon
  <2> HIDE DEF s, n
  <2>2. QED
    BY <2>1 DEF LineLayout
<1>3. d \in 0 .. n - 1 /\ r = s + d
  OBVIOUS
<1> HIDE DEF nl, vl, s, n, goal
<1>4. nl \in Nat /\ nl > 0 /\ vl \in Nat
  BY <1>2
<1>5. \/ d = 0 \/ d \in 1 .. nl - 1 \/ d = nl \/ d = nl + 1 \/ d = nl + 2
      \/ \E k \in 1 .. vl - 1 : d = nl + 2 + k
      \/ vl > 0 /\ d = nl + 2 + vl
  <2>1. Placed(nl, vl, d)
    <3>1. n = nl + vl + 3
      BY <1>2
    <3>2. QED
      BY <1>3, <1>4, <3>1, LinePlace
  <2>2. QED
    BY <2>1, Zenon DEF Placed
<1>6. CASE d = 0
  <2>1. r = s
    BY <1>2, <1>3, <1>6
  <2>2. QED
    BY <1>6, <2>1, ReadingLineFirst, Zenon DEF goal, s
<1>7. CASE d \in 1 .. nl - 1
  BY <1>7, ReadingName, Zenon DEF goal, nl
<1>8. CASE d = nl
  BY <1>8, ReadingColon, Zenon DEF goal, nl
<1>9. CASE d = nl + 1
  BY <1>9, ReadingBlank, Zenon DEF goal, nl
<1>10. CASE d = nl + 2
  BY <1>10, ReadingValueFirst, Zenon DEF goal, nl
<1>11. CASE \E k \in 1 .. vl - 1 : d = nl + 2 + k
  BY <1>11, ReadingValue, Zenon DEF goal, nl, vl
<1>12. CASE vl > 0 /\ d = nl + 2 + vl
  BY <1>12, ReadingValueEnd, Zenon DEF goal, nl, vl
<1>13. QED
  BY <1>5, <1>6, <1>7, <1>8, <1>9, <1>10, <1>11, <1>12, Zenon DEF goal

(* After the headers, and in the body. *)
AtBody(p, st, m, c, j) ==
    /\ p.state = "s_body_identity" /\ p.content_length = c - j
    /\ p.marks = IF j = 0 THEN {} ELSE {"body"}
    /\ st = Only("body", First(m.body, j))

Closing(p, st, c, s) ==
    /\ p.state = s /\ p.marks = {} /\ st = NoStrings
    /\ p.content_length = c /\ "CONTENTLENGTH" \in p.flags

(* Where a message is after its lines. *)
AfterAt(p, st, f, m, c, r, e) ==
    /\ f.headers = HeadersBefore(m, c, Count(m) + 1)
    /\ \/ r = e /\ Closing(p, st, c, "s_header_value_lws")
       \/ r = e + 1 /\ Closing(p, st, c, "s_headers_almost_done")
       \/ \E j \in 0 .. c - 1 : At(r, e + 2 + j) /\ AtBody(p, st, m, c, j)
       \/ At(r, e + 2 + c) /\ p.state \in Idle

(* The parts after the lines, by the place. *)
LEMMA AfterIs ==
    ASSUME NEW p, NEW st, NEW f, NEW m, NEW c \in Nat, NEW r \in Nat, NEW e \in Nat,
           e = Start(m, c, Count(m) + 1)
    PROVE  AfterLines(p, st, f, m, c, r) <=> AfterAt(p, st, f, m, c, r, e)
<1> DEFINE j == r - e - 2
<1>1. ASSUME AfterLines(p, st, f, m, c, r)
      PROVE  AfterAt(p, st, f, m, c, r, e)
  <2>1. f.headers = HeadersBefore(m, c, Count(m) + 1)
    BY <1>1 DEF AfterLines
  <2>2. \/ r = e /\ Closing(p, st, c, "s_header_value_lws")
        \/ r = e + 1 /\ Closing(p, st, c, "s_headers_almost_done")
        \/ r >= e + 2 /\ j < c /\ AtBody(p, st, m, c, j)
        \/ r >= e + 2 /\ j = c /\ p.state \in Idle
    <3>1. r = e + 2 <=> j = 0
      OBVIOUS
    <3>2. QED
      BY <1>1, <3>1 DEF AfterLines, Closing, AtBody
  <2>3. r >= e + 2 => j \in Nat /\ At(r, e + 2 + j)
    BY DEF At
  <2> HIDE DEF j
  <2>4. r >= e + 2 /\ j < c => j \in 0 .. c - 1
    BY <2>3
  <2>5. QED
    BY <2>1, <2>2, <2>3, <2>4, Zenon DEF AfterAt
<1>2. ASSUME AfterAt(p, st, f, m, c, r, e)
      PROVE  AfterLines(p, st, f, m, c, r)
  <2>1. f.headers = HeadersBefore(m, c, Count(m) + 1)
    BY <1>2 DEF AfterAt
  <2>2. \/ r = e /\ Closing(p, st, c, "s_header_value_lws")
        \/ r = e + 1 /\ Closing(p, st, c, "s_headers_almost_done")
        \/ \E k \in 0 .. c - 1 : At(r, e + 2 + k) /\ AtBody(p, st, m, c, k)
        \/ At(r, e + 2 + c) /\ p.state \in Idle
    BY <1>2 DEF AfterAt
  <2>3. CASE r = e /\ Closing(p, st, c, "s_header_value_lws")
    BY <2>1, <2>3 DEF AfterLines, Closing
  <2>4. CASE r = e + 1 /\ Closing(p, st, c, "s_headers_almost_done")
    BY <2>1, <2>4 DEF AfterLines, Closing
  <2>5. CASE At(r, e + 2 + c) /\ p.state \in Idle
    BY <2>1, <2>5 DEF AfterLines, At
  <2>6. CASE \E k \in 0 .. c - 1 : At(r, e + 2 + k) /\ AtBody(p, st, m, c, k)
    <3>1. PICK k \in 0 .. c - 1 : At(r, e + 2 + k) /\ AtBody(p, st, m, c, k)
      BY <2>6
    <3>2. r >= e + 2 /\ j < c /\ j = k /\ (r = e + 2 <=> j = 0)
      BY <3>1 DEF At
    <3>3. AtBody(p, st, m, c, j)
      BY <3>1, <3>2
    <3>4. QED
      BY <2>1, <3>2, <3>3 DEF AfterLines, AtBody
  <2>7. QED
    BY <2>2, <2>3, <2>4, <2>5, <2>6
<1>3. QED
  BY <1>1, <1>2

(* The end of the headers has begun. *)
HeadersClosed(p, q) ==
    /\ Got(p, q, {"flags"}, "s_headers_almost_done", {}, {}, {})
    /\ "TRAILING" \in q.flags <=> "TRAILING" \in p.flags
    /\ "CONTENTLENGTH" \in q.flags <=> "CONTENTLENGTH" \in p.flags

(* The blank line begins. *)
LEMMA HeadersClose ==
    ASSUME NEW p, Sound(p), ~Stopped(p), p.state = "s_header_value_lws", p.marks = {}, ~Failed(Read(p, CR))
    PROVE  HeadersClosed(p, Read(p, CR))
<1> DEFINE q == Read(p, CR)
<1>1. p.state \in LineStates /\ p \in Parser
  BY DEF LineStates, Sound
<1>2. Got(p, q, {"flags"}, "s_headers_almost_done", {}, {}, LateCalls(p)) /\ q.flags = LineFlags(p)
  BY <1>1, ReadHeadersEnd
<1> HIDE DEF q
<1>3. LateCalls(p) = {} /\ LineFlags(p) = Flagged(p).flags
  BY DEF LateCalls, LineFlags
<1>4. /\ "TRAILING" \in q.flags <=> "TRAILING" \in p.flags
      /\ "CONTENTLENGTH" \in q.flags <=> "CONTENTLENGTH" \in p.flags
  BY <1>1, <1>2, <1>3, FlaggedSets
<1>5. QED
  BY <1>2, <1>3, <1>4 DEF HeadersClosed, q

(* The headers have ended. *)
HeadersOver(p, q) ==
    \/ q.exited /\ q.upgrade
    \/ /\ p.content_length > 0
       /\ Got(p, q, {"upgrade"}, "s_body_identity", {}, {}, {"headers_complete"})
    \/ /\ p.content_length = 0 /\ q.state \in Idle
       /\ Got(p, q, {"upgrade"}, q.state, {}, {}, {"headers_complete", "message_complete"})

(* The blank line ends: a body, or another message. *)
LEMMA HeadersAreDone ==
    ASSUME NEW p, Sound(p), ~Stopped(p), p.state = "s_headers_almost_done", p.marks = {},
           "TRAILING" \notin p.flags, "CONTENTLENGTH" \in p.flags, ~Failed(Read(p, LF))
    PROVE  HeadersOver(p, Read(p, LF))
BY ReadHeadersDone DEF HeadersOver

(* The body goes on, and ends. *)
BodyGoes(p, q) ==
    /\ Got(p, q, {"content_length"}, "s_body_identity", {"body"}, {"body"}, {})
    /\ q.content_length = p.content_length - 1

(* A byte of the body that is not its last. *)
LEMMA BodyGoesOn ==
    ASSUME NEW p, Sound(p), ~Stopped(p), p.state = "s_body_identity", p.content_length > 1, NEW ch,
           ~Failed(Read(p, ch))
    PROVE  BodyGoes(p, Read(p, ch))
BY ReadBody DEF BodyGoes

BodyDone(p, q) ==
    /\ Got(p, q, {"content_length", "exited"}, q.state, {}, {"body"}, {"message_complete"})
    /\ q.state \in Idle /\ q.exited = p.upgrade

(* The last byte of a body. *)
LEMMA BodyIsDone ==
    ASSUME NEW p, Sound(p), ~Stopped(p), p.state = "s_body_identity", p.content_length = 1, NEW ch,
           ~Failed(Read(p, ch))
    PROVE  BodyDone(p, Read(p, ch))
BY ReadBodyEnd DEF BodyDone

(* The bytes after the lines. *)
TailLaid(w, e, body) ==
    /\ e \in Nat /\ e > 0 /\ Len(body) \in Nat /\ Len(w) = e + 3 + Len(body)
    /\ w[e + 1] = CR /\ w[e + 2] = LF
    /\ \A j \in 1 .. Len(body) : w[e + 2 + j] = body[j]
    /\ w[e + 3 + Len(body)] = NUL

(* The bytes of the blank line and of the body, where they are. *)
LEMMA TailBytes ==
    ASSUME NEW m, NEW c, NEW p, NEW f, NEW w, Reads(m, c, p, f, w), NEW e, e = Start(m, c, Count(m) + 1)
    PROVE  TailLaid(w, e, m.body)
<1>1. Sendable(m) /\ c \in 0 .. MaxLength /\ w = Append(Bytes(m, c), NUL)
  BY DEF Reads
<1>2. WireLayout(m, c, Letters(m), Bytes(m, c), w, e, StartLine(m), m.body)
  BY <1>1, WireIs
<1>3. e > 0
  <2>1. Count(m) + 1 \in 1 .. Count(m) + 1
    BY <1>1, HeadersAre
  <2>2. QED
    BY <1>1, <2>1, StartIs
<1>4. QED
  BY <1>2, <1>3, Zenon DEF WireLayout, TailLaid

(* The last byte of a body, with what has been gathered of it. *)
LEMMA BodyTaken ==
    ASSUME NEW p, NEW q, NEW ch, NEW f, NEW s,
           p.marks \subseteq {"body"}, q.marks = {}, q.data = {"body"}, q.calls \cap Names = {}
    PROVE  Turns(p, q, Only("body", s), ch, f, NoStrings, on_body(f, Append(s, ch)))
<1>1. /\ StringsAfter(p, q, Only("body", s), ch) = NoStrings
      /\ FieldsAfter(p, q, Only("body", s), f, ch) = on_body(f, Append(s, ch))
  BY TurnGivesBody
<1>2. QED
  BY <1>1, Zenon DEF Turns

(* The byte that begins the end of the headers. *)
LEMMA ReadingClose ==
    ASSUME NEW m, NEW c, NEW p, NEW f, NEW w, Reads(m, c, p, f, w), Begun(p, f, m),
           NEW e, e = Start(m, c, Count(m) + 1), f.headers = HeadersBefore(m, c, Count(m) + 1),
           Closing(p, NoStrings, c, "s_header_value_lws")
    PROVE  Onward(p, Read(p, w[e + 1]), NoStrings, f, m, c, e, w[e + 1])
<1> DEFINE ch == w[e + 1]
           q  == Read(p, ch)
<1>1. Sendable(m) /\ c \in Nat /\ Sound(p) /\ ~Stopped(p)
  BY DEF Reads
<1>2. ch = CR /\ e \in Nat
  <2>1. TailLaid(w, e, m.body)
    BY TailBytes, Zenon
  <2>2. QED
    BY <2>1, Zenon DEF TailLaid
<1>3. /\ p.state = "s_header_value_lws" /\ p.marks = {} /\ p.content_length = c
      /\ "CONTENTLENGTH" \in p.flags
  BY Zenon DEF Closing
<1> HIDE DEF q, ch
<1>4. CASE Failed(q)
  BY <1>4, Zenon DEF Onward, q, ch
<1>5. CASE ~Failed(q)
  <2>1. HeadersClosed(p, q)
    BY <1>1, <1>2, <1>3, <1>5, HeadersClose DEF q
  <2>2. Got(p, q, {"flags"}, "s_headers_almost_done", {}, {}, {})
    BY <2>1, Zenon DEF HeadersClosed
  <2>3. /\ q.state = "s_headers_almost_done" /\ q.marks = {} /\ q.method = p.method
        /\ q.status_code = p.status_code /\ q.content_length = p.content_length
    BY <2>2, GotIs
  <2>4. "CONTENTLENGTH" \in q.flags /\ "TRAILING" \notin q.flags
    BY <1>3, <2>1, Zenon DEF HeadersClosed, Begun
  <2>5. Begun(q, f, m)
    BY <2>3, <2>4, BegunKept, Zenon
  <2>6. AfterLines(q, NoStrings, f, m, c, e + 1)
    <3>1. e + 1 \in Nat
      BY <1>2
    <3>2. Closing(q, NoStrings, c, "s_headers_almost_done")
      BY <1>3, <2>3, <2>4 DEF Closing
    <3>3. AfterAt(q, NoStrings, f, m, c, e + 1, e)
      BY <3>2, Zenon DEF AfterAt
    <3>4. QED
      BY <1>1, <1>2, <3>1, <3>3, AfterIs
  <2>7. Reading(q, NoStrings, f, m, c, e + 1)
    BY <2>5, <2>6, Zenon DEF Reading
  <2>8. Onward(p, q, NoStrings, f, m, c, e, ch)
    BY <1>3, <2>2, <2>7, OnwardNothing
  <2>9. QED
    BY <2>8 DEF q, ch
<1>6. QED
  BY <1>4, <1>5

(* The byte that ends the headers. *)
LEMMA ReadingDone ==
    ASSUME NEW m, NEW c, NEW p, NEW f, NEW w, Reads(m, c, p, f, w), Begun(p, f, m),
           NEW e, e = Start(m, c, Count(m) + 1), f.headers = HeadersBefore(m, c, Count(m) + 1),
           Closing(p, NoStrings, c, "s_headers_almost_done"), NEW r, At(r, e + 1)
    PROVE  Onward(p, Read(p, w[r + 1]), NoStrings, f, m, c, r, w[r + 1])
<1> DEFINE ch == w[r + 1]
           q  == Read(p, ch)
<1>1. Sendable(m) /\ c \in Nat /\ Sound(p) /\ ~Stopped(p)
  BY DEF Reads
<1>2. e \in Nat /\ w[e + 2] = LF
  <2>1. TailLaid(w, e, m.body)
    BY TailBytes, Zenon
  <2>2. QED
    BY <2>1, Zenon DEF TailLaid
<1>3. r = e + 1 /\ r \in Nat /\ r + 1 = e + 2 /\ r + 1 \in Nat
  BY <1>2 DEF At
<1>4. ch = LF
  BY <1>2, <1>3
<1>5. /\ p.state = "s_headers_almost_done" /\ p.marks = {} /\ p.content_length = c
      /\ "CONTENTLENGTH" \in p.flags /\ "TRAILING" \notin p.flags
  BY Zenon DEF Closing, Begun
<1> HIDE DEF q, ch
<1>6. CASE Failed(q)
  BY <1>6, Zenon DEF Onward, q, ch
<1>7. CASE ~Failed(q)
  <2>1. HeadersOver(p, q)
    BY <1>1, <1>4, <1>5, <1>7, HeadersAreDone DEF q
  <2>2. CASE q.exited /\ q.upgrade
    BY <2>2, Zenon DEF Onward, q, ch
  <2>3. ASSUME NEW s, NEW calls, calls \cap Names = {}, Got(p, q, {"upgrade"}, s, {}, {}, calls)
        PROVE  /\ Turns(p, q, NoStrings, ch, f, NoStrings, f) /\ q.type = p.type /\ q.exited = p.exited
               /\ Begun(q, f, m) /\ q.state = s /\ q.marks = {} /\ q.content_length = c
    <3>1. /\ q.state = s /\ q.marks = {} /\ q.data = {} /\ q.calls = calls /\ q.type = p.type
          /\ q.exited = p.exited /\ q.method = p.method /\ q.status_code = p.status_code
          /\ q.flags = p.flags /\ q.content_length = p.content_length
      BY <2>3, GotIs
    <3>2. Turns(p, q, NoStrings, ch, f, NoStrings, f)
      BY <1>5, <2>3, <3>1, TurnNothing DEF Turns
    <3>3. "TRAILING" \notin q.flags
      BY <1>5, <3>1
    <3>4. Begun(q, f, m)
      BY <3>1, <3>3, BegunKept, Zenon
    <3>5. QED
      BY <1>5, <3>1, <3>2, <3>4
  <2>4. CASE p.content_length > 0 /\ Got(p, q, {"upgrade"}, "s_body_identity", {}, {}, {"headers_complete"})
    <3>1. {"headers_complete"} \cap Names = {}
      BY DEF Names
    <3>2. /\ Turns(p, q, NoStrings, ch, f, NoStrings, f) /\ q.type = p.type /\ q.exited = p.exited
          /\ Begun(q, f, m) /\ q.state = "s_body_identity" /\ q.marks = {} /\ q.content_length = c
      BY <2>3, <2>4, <3>1
    <3>3. AtBody(q, NoStrings, m, c, 0)
      <4>1. First(m.body, 0) = <<>>
        BY <1>1 DEF First
      <4>2. NoStrings = Only("body", <<>>)
        BY OnlyIs, Zenon DEF Names
      <4>3. NoStrings = Only("body", First(m.body, 0)) /\ q.content_length = c - 0
        BY <1>1, <3>2, <4>1, <4>2
      <4>4. QED
        BY <3>2, <4>3 DEF AtBody
    <3>4. 0 \in 0 .. c - 1 /\ At(r + 1, e + 2 + 0)
      BY <1>1, <1>2, <1>3, <1>5, <2>4 DEF At
    <3>5. AfterAt(q, NoStrings, f, m, c, r + 1, e)
      BY <3>3, <3>4, Zenon DEF AfterAt
    <3>6. AfterLines(q, NoStrings, f, m, c, r + 1)
      BY <1>1, <1>2, <1>3, <3>5, AfterIs
    <3>7. Reading(q, NoStrings, f, m, c, r + 1)
      BY <3>2, <3>6, Zenon DEF Reading
    <3>8. QED
      BY <3>2, <3>7, OnwardTurns, Zenon DEF q, ch
  <2>5. CASE /\ p.content_length = 0 /\ q.state \in Idle
             /\ Got(p, q, {"upgrade"}, q.state, {}, {}, {"headers_complete", "message_complete"})
    <3>1. {"headers_complete", "message_complete"} \cap Names = {}
      BY DEF Names
    <3>2. /\ Turns(p, q, NoStrings, ch, f, NoStrings, f) /\ q.type = p.type /\ q.exited = p.exited
          /\ Begun(q, f, m)
      BY <2>3, <2>5, <3>1
    <3>3. At(r + 1, e + 2 + c)
      BY <1>2, <1>3, <1>5, <2>5 DEF At
    <3>4. AfterAt(q, NoStrings, f, m, c, r + 1, e)
      BY <2>5, <3>3, Zenon DEF AfterAt
    <3>5. AfterLines(q, NoStrings, f, m, c, r + 1)
      BY <1>1, <1>2, <1>3, <3>4, AfterIs
    <3>6. Reading(q, NoStrings, f, m, c, r + 1)
      BY <3>2, <3>5, Zenon DEF Reading
    <3>7. QED
      BY <3>2, <3>6, OnwardTurns, Zenon DEF q, ch
  <2>6. QED
    BY <2>1, <2>2, <2>4, <2>5, Zenon DEF HeadersOver
<1>8. QED
  BY <1>6, <1>7

(* A byte of the body. *)
LEMMA ReadingBody ==
    ASSUME NEW m, NEW c, NEW p, NEW f, NEW w, Reads(m, c, p, f, w), Begun(p, f, m),
           NEW e, e = Start(m, c, Count(m) + 1), f.headers = HeadersBefore(m, c, Count(m) + 1),
           NEW j \in 0 .. Len(m.body) - 1, NEW st, AtBody(p, st, m, c, j), NEW r, At(r, e + 2 + j)
    PROVE  Onward(p, Read(p, w[r + 1]), st, f, m, c, r, w[r + 1])
<1> DEFINE ch == w[r + 1]
           q  == Read(p, ch)
           bl == Len(m.body)
           i  == j + 1
<1>1. Sendable(m) /\ c \in Nat /\ Sound(p) /\ ~Stopped(p) /\ Fielded(f) /\ bl \in 0 .. c
  BY DEF Reads
<1>2. e \in Nat /\ bl \in Nat /\ \A k \in 1 .. bl : w[e + 2 + k] = m.body[k]
  <2>1. TailLaid(w, e, m.body)
    BY TailBytes, Zenon
  <2>2. QED
    BY <2>1, Zenon DEF TailLaid
<1>3. j \in 0 .. bl - 1
  OBVIOUS
<1>4. m.body \in Seq(STRING)
  BY <1>1 DEF Sendable
<1> HIDE DEF bl
<1>5. /\ r = e + 2 + j /\ r \in Nat /\ r + 1 = e + 2 + i /\ r + 1 \in Nat /\ i \in 1 .. bl /\ i # 0
      /\ j < c /\ i <= c /\ c - j - 1 = c - i /\ At(r + 1, e + 2 + i) /\ At(i, j + 1)
      /\ c - j > 1 => i \in 0 .. c - 1
      /\ ~(c - j > 1) => c - j = 1 /\ i = c
  <2>1. c \in Nat /\ bl \in 0 .. c /\ e \in Nat /\ r = e + 2 + j /\ j \in Nat /\ j < bl /\ i = j + 1
    BY <1>1, <1>2, <1>3 DEF At
  <2> HIDE DEF i
  <2>2. At(r + 1, e + 2 + i) /\ At(i, j + 1)
    BY <2>1 DEF At
  <2>3. QED
    BY <2>1, <2>2, SMTT(40)
<1> HIDE DEF i
<1>6. ch = m.body[i]
  BY <1>2, <1>5
<1> HIDE DEF q, ch
<1>7. /\ p.state = "s_body_identity" /\ p.content_length = c - j
      /\ p.marks = (IF j = 0 THEN {} ELSE {"body"}) /\ st = Only("body", First(m.body, j))
  BY Zenon DEF AtBody
<1>8. Append(First(m.body, j), ch) = First(m.body, i)
  <2>1. Append(First(m.body, j), m.body[i]) = First(m.body, i)
    BY <1>3, <1>4, <1>5, FirstNext DEF bl
  <2>2. QED
    BY <1>6, <2>1
<1>9. p.marks \subseteq {"body"} /\ "body" \in Names
  BY <1>7 DEF Names
<1>10. CASE Failed(q)
  BY <1>10, Zenon DEF Onward, q, ch
<1>11. CASE ~Failed(q) /\ c - j > 1
  <2>1. BodyGoes(p, q)
    BY <1>1, <1>7, <1>11, BodyGoesOn DEF q
  <2>2. /\ q.state = "s_body_identity" /\ q.marks = {"body"} /\ q.data = {"body"} /\ q.calls = {}
        /\ q.type = p.type /\ q.exited = p.exited /\ q.method = p.method
        /\ q.status_code = p.status_code /\ q.flags = p.flags /\ q.content_length = c - j - 1
    BY <1>7, <2>1, GotIs DEF BodyGoes
  <2>3. Turns(p, q, st, ch, f, Only("body", First(m.body, i)), f)
    <3>1. Gathers(p, q, "body")
      BY <1>9, <2>2 DEF Gathers
    <3>2. Turns(p, q, Only("body", First(m.body, j)), ch, f, Only("body", Append(First(m.body, j), ch)), f)
      BY <3>1, Gathered, Zenon
    <3>3. QED
      BY <1>7, <1>8, <3>2
  <2>4. Begun(q, f, m)
    <3>1. "TRAILING" \notin q.flags
      BY <2>2, Zenon DEF Begun
    <3>2. QED
      BY <2>2, <3>1, BegunKept, Zenon
  <2>5. AtBody(q, Only("body", First(m.body, i)), m, c, i)
    BY <1>5, <2>2 DEF AtBody
  <2>6. AfterAt(q, Only("body", First(m.body, i)), f, m, c, r + 1, e)
    BY <1>5, <1>11, <2>5, Zenon DEF AfterAt
  <2>7. AfterLines(q, Only("body", First(m.body, i)), f, m, c, r + 1)
    BY <1>1, <1>2, <1>5, <2>6, AfterIs
  <2>8. Reading(q, Only("body", First(m.body, i)), f, m, c, r + 1)
    BY <2>4, <2>7, Zenon DEF Reading
  <2>9. QED
    BY <2>2, <2>3, <2>8, OnwardTurns, Zenon DEF q, ch
<1>12. CASE ~Failed(q) /\ ~(c - j > 1)
  <2>1. BodyDone(p, q)
    BY <1>1, <1>5, <1>7, <1>12, BodyIsDone DEF q
  <2> DEFINE g == on_body(f, First(m.body, i))
  <2>2. /\ q.marks = {} /\ q.data = {"body"} /\ q.calls = {"message_complete"} /\ q.type = p.type
        /\ q.upgrade = p.upgrade /\ q.state \in Idle /\ q.exited = p.upgrade
    BY <2>1, GotIs DEF BodyDone
  <2>3. Turns(p, q, st, ch, f, NoStrings, g)
    <3>1. q.calls \cap Names = {}
      BY <2>2 DEF Names
    <3>2. Turns(p, q, Only("body", First(m.body, j)), ch, f, NoStrings, on_body(f, Append(First(m.body, j), ch)))
      BY <1>9, <2>2, <3>1, BodyTaken, Zenon
    <3>3. QED
      BY <1>7, <1>8, <3>2
  <2>4. g.headers = f.headers
    <3>1. BodyPut(f, g, First(m.body, i))
      BY <1>1, BodyIsPut, ZenonT(40)
    <3>2. QED
      BY <3>1, ZenonT(40) DEF BodyPut
  <2> HIDE DEF g
  <2>5. CASE p.upgrade
    BY <2>2, <2>5, Zenon DEF Onward, q, ch
  <2>6. CASE ~p.upgrade
    <3>1. q.exited = p.exited
      BY <1>1, <2>2, <2>6 DEF Stopped, Sound, Parser
    <3>2. At(r + 1, e + 2 + c)
      BY <1>5, <1>12 DEF At
    <3>3. AfterAt(q, NoStrings, g, m, c, r + 1, e)
      BY <2>2, <2>4, <3>2, Zenon DEF AfterAt
    <3>4. AfterLines(q, NoStrings, g, m, c, r + 1)
      BY <1>1, <1>2, <1>5, <3>3, AfterIs
    <3>5. Reading(q, NoStrings, g, m, c, r + 1)
      BY <2>2, <3>4, Zenon DEF Reading
    <3>6. QED
      BY <2>2, <2>3, <3>1, <3>5, OnwardTurns, Zenon DEF q, ch
  <2>7. QED
    BY <2>5, <2>6
<1>13. QED
  BY <1>10, <1>11, <1>12

(* A line ends before the lines do. *)
LEMMA LinesEnd ==
    ASSUME NEW m, Sendable(m), NEW c \in 0 .. MaxLength, NEW i \in 1 .. Count(m)
    PROVE  Start(m, c, i) + Len(HeaderLines(m, c)[i]) <= Start(m, c, Count(m) + 1)
<1> DEFINE T == Letters(m)
           lines == HeaderLines(m, c)
           s == S!FlattenSeq(First(lines, i - 1))
           t == S!FlattenSeq(lines)
           a == Len(StartLine(m))
<1>1. lines \in Seq(Seq(T)) /\ Len(lines) = Count(m)
  BY LinesAre, Zenon
<1>2. a \in Nat
  BY StartLineIs
<1>3. Start(m, c, i) = a + Len(s) /\ Start(m, c, Count(m) + 1) = a + Len(t)
  BY StartIs, Zenon DEF Start
<1>4. i \in 1 .. Len(lines) /\ lines[i] \in Seq(T)
  BY <1>1
<1>5. Len(s) + Len(lines[i]) <= Len(t)
  BY <1>1, <1>4, FlattenAt, Zenon
<1>6. Len(s) \in Nat /\ Len(t) \in Nat /\ Len(lines[i]) \in Nat
  <2>1. i - 1 \in 0 .. Len(lines)
    BY <1>4
  <2>2. s \in Seq(T) /\ t \in Seq(T)
    BY <1>1, <2>1, FlattenBegins, Zenon
  <2>3. QED
    BY <1>4, <2>2
<1> DEFINE x == Len(s)
           y == Len(t)
           k == Len(lines[i])
<1>7. /\ x \in Nat /\ y \in Nat /\ k \in Nat /\ x + k <= y
      /\ Start(m, c, i) = a + x /\ Start(m, c, Count(m) + 1) = a + y
  BY <1>3, <1>5, <1>6, Zenon
<1> HIDE DEF lines, s, t, a, x, y, k
<1>8. Start(m, c, i) + k <= Start(m, c, Count(m) + 1)
  BY <1>2, <1>7
<1>9. QED
  BY <1>8, Zenon DEF k, lines

(* A byte after the lines that is not the last. *)
LEMMA ReadingAfter ==
    ASSUME NEW m, NEW c, NEW p, NEW f, NEW w, Reads(m, c, p, f, w), p.state \notin Idle => Begun(p, f, m),
           NEW r \in Nat, r + 1 < Len(w), NEW st, AfterLines(p, st, f, m, c, r)
    PROVE  Onward(p, Read(p, w[r + 1]), st, f, m, c, r, w[r + 1])
<1> DEFINE e == Start(m, c, Count(m) + 1)
           bl == Len(m.body)
           n == Len(w)
           goal == Onward(p, Read(p, w[r + 1]), st, f, m, c, r, w[r + 1])
<1>1. c \in Nat /\ bl \in 0 .. c
  BY DEF Reads
<1>2. e \in Nat /\ bl \in Nat /\ n = e + 3 + bl
  <2>1. TailLaid(w, e, m.body)
    BY TailBytes, Zenon
  <2>2. QED
    BY <2>1, Zenon DEF TailLaid
<1>3. r + 1 < n
  OBVIOUS
<1> HIDE DEF e, bl, n, goal
<1>4. AfterAt(p, st, f, m, c, r, e)
  BY <1>1, <1>2, AfterIs DEF e
<1>5. f.headers = HeadersBefore(m, c, Count(m) + 1)
  BY <1>4, Zenon DEF AfterAt
<1>6. CASE r = e /\ Closing(p, st, c, "s_header_value_lws")
  <2>1. Begun(p, f, m) /\ st = NoStrings
    BY <1>6 DEF Closing, Idle
  <2>2. Closing(p, NoStrings, c, "s_header_value_lws")
    BY <1>6, <2>1
  <2>3. Onward(p, Read(p, w[e + 1]), NoStrings, f, m, c, e, w[e + 1])
    BY <1>5, <2>1, <2>2, ReadingClose, Zenon DEF e
  <2>4. QED
    BY <1>6, <2>1, <2>3 DEF goal
<1>7. CASE r = e + 1 /\ Closing(p, st, c, "s_headers_almost_done")
  <2>1. Begun(p, f, m) /\ st = NoStrings
    BY <1>7 DEF Closing, Idle
  <2>2. Closing(p, NoStrings, c, "s_headers_almost_done") /\ At(r, e + 1)
    BY <1>7, <2>1 DEF At
  <2>3. Onward(p, Read(p, w[r + 1]), NoStrings, f, m, c, r, w[r + 1])
    BY <1>5, <2>1, <2>2, ReadingDone, Zenon DEF e
  <2>4. QED
    BY <2>1, <2>3 DEF goal
<1>8. CASE \E j \in 0 .. c - 1 : At(r, e + 2 + j) /\ AtBody(p, st, m, c, j)
  <2>1. PICK j \in 0 .. c - 1 : At(r, e + 2 + j) /\ AtBody(p, st, m, c, j)
    BY <1>8
  <2>2. Begun(p, f, m)
    BY <2>1 DEF AtBody, Idle
  <2>3. j \in 0 .. bl - 1
    BY <1>2, <1>3, <2>1 DEF At
  <2>4. QED
    BY <1>5, <2>1, <2>2, <2>3, ReadingBody, Zenon DEF goal, e, bl
<1>9. CASE At(r, e + 2 + c) /\ p.state \in Idle
  BY <1>1, <1>2, <1>3, <1>9 DEF At
<1>10. QED
  BY <1>4, <1>6, <1>7, <1>8, <1>9, Zenon DEF AfterAt, goal

(* A byte of a message that is not the last. *)
LEMMA ReadingOn ==
    ASSUME NEW m, NEW c, NEW p, NEW f, NEW w, Reads(m, c, p, f, w),
           NEW r \in Nat, r + 1 < Len(w), NEW st, Reading(p, st, f, m, c, r)
    PROVE  Onward(p, Read(p, w[r + 1]), st, f, m, c, r, w[r + 1])
<1> DEFINE goal == Onward(p, Read(p, w[r + 1]), st, f, m, c, r, w[r + 1])
<1>1. Sendable(m)
  BY DEF Reads
<1> HIDE DEF goal
<1>2. CASE /\ r < Len(StartLine(m)) /\ f.body = <<>> /\ f.headers = <<>>
           /\ m.type = "HTTP_REQUEST" /\ OnRequestLine(p, st, f, m, r)
  BY <1>2, ReadingRequestLine, Zenon DEF goal
<1>3. CASE /\ r < Len(StartLine(m)) /\ f.body = <<>> /\ f.headers = <<>>
           /\ m.type = "HTTP_RESPONSE" /\ OnStatusLine(p, st, f, m, r)
  <2>1. CASE r \in 0 .. 12
    BY <1>3, <2>1, ReadingStatusHead, Zenon DEF goal
  <2>2. CASE r \in 13 .. 15
    BY <1>3, <2>2, ReadingReason, Zenon DEF goal
  <2>3. r \in 0 .. 12 \/ r \in 13 .. 15
    BY <1>3 DEF OnStatusLine
  <2>4. QED
    BY <2>1, <2>2, <2>3
<1>4. CASE /\ Begun(p, f, m)
           /\ \E i \in 1 .. Count(m) :
                 /\ ~Skipped(m, i)
                 /\ r - Start(m, c, i) \in 0 .. Len(HeaderLines(m, c)[i]) - 1
                 /\ OnLine(p, st, f, m, c, i, r - Start(m, c, i))
  <2>1. PICK i \in 1 .. Count(m) :
                 /\ ~Skipped(m, i)
                 /\ r - Start(m, c, i) \in 0 .. Len(HeaderLines(m, c)[i]) - 1
                 /\ OnLine(p, st, f, m, c, i, r - Start(m, c, i))
    BY <1>4
  <2> DEFINE d == r - Start(m, c, i)
  <2>2. Start(m, c, i) \in Nat
    <3>1. i \in 1 .. Count(m) + 1 /\ c \in 0 .. MaxLength
      BY <1>1, HeadersAre DEF Reads
    <3>2. QED
      BY <1>1, <3>1, StartIs
  <2>3. r = Start(m, c, i) + d
    BY <2>2
  <2>4. d \in 0 .. Len(HeaderLines(m, c)[i]) - 1 /\ ~Skipped(m, i) /\ OnLine(p, st, f, m, c, i, d)
    BY <2>1, Zenon
  <2> HIDE DEF d
  <2>5. QED
    BY <1>4, <2>3, <2>4, ReadingLine, Zenon DEF goal
<1>5. CASE (p.state \notin Idle => Begun(p, f, m)) /\ AfterLines(p, st, f, m, c, r)
  BY <1>5, ReadingAfter, Zenon DEF goal
<1>6. m.type = "HTTP_REQUEST" \/ m.type = "HTTP_RESPONSE"
  BY <1>1 DEF Sendable
<1>7. QED
  BY <1>2, <1>3, <1>4, <1>5, <1>6 DEF goal, Reading

(* The end of a buffer. *)
Buffered(p, q) ==
    \/ Failed(q)
    \/ q = p /\ p.exited
    \/ /\ Like(p, q, {"nread", "http_errno", "passed", "skipping", "marks"})
       /\ q.marks = {} /\ q.data = p.data

(* What the end of the buffer changes. *)
LEMMA BufferIs ==
    ASSUME NEW p \in Parser
    PROVE  Buffered(p, BufferEnds(p))
<1> DEFINE e == LoopEnd(p)
           t == [e EXCEPT !.marks = {}]
           q == BufferEnds(p)
<1>1. Like(p, e, {"nread", "http_errno", "passed", "skipping"}) /\ e \in Parser
  BY LoopEnds DEF Like
<1>0. e.data = p.data
  BY DEF LoopEnd, COUNT_HEADER_SIZE, Fail, Parser
<1> HIDE DEF e
<1>2. Like(e, t, {"marks"}) /\ t.marks = {} /\ t.data = e.data
  BY <1>1 DEF Like, Parser
<1>3. \/ q = p /\ Stopped(p)
      \/ q = e /\ Failed(e)
      \/ q = t
  BY DEF BufferEnds, e
<1> HIDE DEF t, q
<1>4. CASE q = t
  <2>1. /\ Like(p, q, {"nread", "http_errno", "passed", "skipping", "marks"})
        /\ q.marks = {} /\ q.data = p.data
    BY <1>0, <1>1, <1>2, <1>4 DEF Like
  <2>2. QED
    BY <2>1, Zenon DEF Buffered, q
<1>5. CASE q = e /\ Failed(e)
  BY <1>5 DEF Buffered, q
<1>6. CASE q = p /\ Stopped(p)
  BY <1>6 DEF Buffered, Stopped, q
<1>7. QED
  BY <1>3, <1>4, <1>5, <1>6

(* The last byte of a text is read. *)
Finishes(p, q, st, f, m, c, ch) ==
    \/ Failed(q)
    \/ q.exited /\ q.upgrade
    \/ Ended(q, FieldsAfter(p, q, st, f, ch), m, c)

(* The body has been given with the NUL. *)
LEMMA EndsWith ==
    ASSUME NEW m, NEW c, NEW p, NEW f, Fielded(f), Begun(p, f, m), p.type = m.type, m.body \in Seq(STRING),
           f.headers = HeadersBefore(m, c, Count(m) + 1), p.marks \subseteq {"body"},
           NEW q, q.marks = {}, q.data = {"body"}, q.calls \cap Names = {}, q.type = p.type,
           q.method = p.method, q.status_code = p.status_code, q.flags = p.flags
    PROVE  Ended(q, FieldsAfter(p, q, Only("body", m.body), f, NUL), m, c)
<1> DEFINE g == on_body(f, Append(m.body, NUL))
           h == [g EXCEPT !.body = <<>>]
<1>1. FieldsAfter(p, q, Only("body", m.body), f, NUL) = g
  <2>1. Turns(p, q, Only("body", m.body), NUL, f, NoStrings, g)
    BY BodyTaken, Zenon
  <2>2. QED
    BY <2>1, Zenon DEF Turns
<1>2. /\ Fielded(g) /\ g.url = f.url /\ g.method = f.method /\ g.headers = f.headers
      /\ g.body = f.body \o Append(m.body, NUL)
  <2>1. BodyPut(f, g, Append(m.body, NUL))
    BY BodyIsPut, Zenon
  <2>2. QED
    BY <2>1, Zenon DEF BodyPut
<1> HIDE DEF g
<1>3. h.url = f.url /\ h.method = f.method /\ h.body = <<>> /\ f.body = <<>>
  BY <1>2 DEF Fielded, Begun
<1> HIDE DEF h
<1>4. Begun(q, h, m)
  <2>1. "TRAILING" \notin q.flags
    BY Zenon DEF Begun
  <2>2. QED
    BY <1>3, <2>1, BegunKept, Zenon
<1>5. g.body = Append(m.body, NUL)
  <2>1. Append(m.body, NUL) \in Seq({m.body[i] : i \in 1 .. Len(m.body)} \cup {NUL})
    OBVIOUS
  <2> DEFINE s == Append(m.body, NUL)
  <2> HIDE DEF s
  <2>2. <<>> \o s = s
    BY <2>1 DEF s
  <2>3. QED
    BY <1>2, <1>3, <2>2 DEF s
<1>6. QED
  BY <1>1, <1>2, <1>4, <1>5 DEF Ended, h

(* What a byte of the body has made of the parser, when it is the last of the text. *)
LEMMA BodyStops ==
    ASSUME NEW p, Sound(p), ~Stopped(p), p.state = "s_body_identity", p.content_length > 0,
           p.marks \subseteq {"body"}, NEW ch, NEW q, q = BufferEnds(Read(p, ch)), ~Failed(q)
    PROVE  /\ q.marks = {} /\ q.data = {"body"} /\ q.calls \cap Names = {} /\ q.type = p.type
           /\ q.method = p.method /\ q.status_code = p.status_code /\ q.flags = p.flags
<1> DEFINE t == Read(p, ch)
<1>1. ~Failed(t) /\ t \in Parser
  <2>1. Sound(t)
    BY ReadStep DEF Step
  <2>2. ~Failed(t)
    BY <2>1, BufferEndsSound
  <2>3. QED
    BY <2>1, <2>2 DEF Sound
<1>2. p.content_length \in Nat
  BY DEF Sound, Parser
<1>3. /\ t.data = {"body"} /\ t.calls \cap Names = {} /\ t.type = p.type /\ t.marks \subseteq {"body"}
      /\ t.method = p.method /\ t.status_code = p.status_code /\ t.flags = p.flags
      /\ t.exited => t.marks = {} /\ t.upgrade
  <2>1. CASE p.content_length > 1
    <3>1. BodyGoes(p, t)
      BY <1>1, <2>1, BodyGoesOn
    <3> HIDE DEF t
    <3>2. /\ t.data = {"body"} /\ t.calls = {} /\ t.type = p.type /\ t.marks = {"body"}
          /\ t.method = p.method /\ t.status_code = p.status_code /\ t.flags = p.flags
          /\ t.exited = p.exited
      BY <3>1, GotIs DEF BodyGoes
    <3>3. QED
      BY <3>2 DEF Stopped
  <2>2. CASE p.content_length = 1
    <3>1. BodyDone(p, t)
      BY <1>1, <2>2, BodyIsDone
    <3> HIDE DEF t
    <3>2. /\ t.data = {"body"} /\ t.calls = {"message_complete"} /\ t.type = p.type /\ t.marks = {}
          /\ t.method = p.method /\ t.status_code = p.status_code /\ t.flags = p.flags
          /\ t.exited = p.upgrade /\ t.upgrade = p.upgrade
      BY <3>1, GotIs DEF BodyDone
    <3>3. QED
      BY <3>2 DEF Names
  <2>3. QED
    BY <1>2, <2>1, <2>2
<1>4. Buffered(t, q)
  BY <1>1, BufferIs
<1> HIDE DEF t
<1>5. \/ q = t /\ t.exited
      \/ /\ Like(t, q, {"nread", "http_errno", "passed", "skipping", "marks"})
         /\ q.marks = {} /\ q.data = t.data
  BY <1>4, Zenon DEF Buffered
<1>6. QED
  BY <1>3, <1>5 DEF Like

(* The last byte of a text. *)
LEMMA ReadingLast ==
    ASSUME NEW m, NEW c, NEW p, NEW f, NEW w, Reads(m, c, p, f, w), NEW r \in Nat, r + 1 = Len(w),
           NEW st, Reading(p, st, f, m, c, r), NEW q, q = BufferEnds(Read(p, w[r + 1]))
    PROVE  Finishes(p, q, st, f, m, c, w[r + 1])
<1> DEFINE e == Start(m, c, Count(m) + 1)
           bl == Len(m.body)
           n == Len(w)
           ch == w[r + 1]
<1>1. /\ c \in Nat /\ c \in 0 .. MaxLength /\ bl \in 0 .. c /\ Sendable(m) /\ Sound(p) /\ ~Stopped(p)
      /\ p.type = m.type /\ Fielded(f)
  BY DEF Reads
<1>2. e \in Nat /\ bl \in Nat /\ n = e + 3 + bl /\ w[e + 3 + bl] = NUL
  <2>1. TailLaid(w, e, m.body)
    BY TailBytes, Zenon
  <2>2. QED
    BY <2>1, Zenon DEF TailLaid
<1>3. r + 1 = n /\ m.body \in Seq(STRING)
  BY <1>1 DEF Sendable
<1>4. Len(StartLine(m)) \in Nat /\ Len(StartLine(m)) <= e
  <2> DEFINE t == S!FlattenSeq(HeaderLines(m, c))
             a == Len(StartLine(m))
             k == Len(t)
  <2>1. e = a + k
    BY <1>1, StartIs, Zenon
  <2>2. a \in Nat
    BY <1>1, StartLineIs
  <2>3. k \in Nat
    <3>1. HeaderLines(m, c) \in Seq(Seq(Letters(m)))
      BY <1>1, LinesAre, Zenon
    <3>2. 0 \in 0 .. Len(HeaderLines(m, c))
      BY <3>1
    <3>3. t \in Seq(Letters(m))
      BY <3>1, <3>2, FlattenBegins, Zenon
    <3>4. QED
      BY <3>3
  <2> HIDE DEF e, a, k
  <2>4. a <= e
    BY <2>1, <2>2, <2>3
  <2>5. QED
    BY <2>2, <2>4, Zenon DEF a
<1> HIDE DEF e, bl, n, ch
<1>5. r = e + 2 + bl /\ e + 3 + bl = r + 1
  BY <1>2, <1>3
<1>6. ch = NUL
  BY <1>2, <1>5, Zenon DEF ch
<1>7. ~(r < Len(StartLine(m)))
  BY <1>2, <1>4, <1>5
<1>8. ASSUME NEW i \in 1 .. Count(m), r - Start(m, c, i) \in 0 .. Len(HeaderLines(m, c)[i]) - 1
      PROVE  FALSE
  <2>1. Start(m, c, i) + Len(HeaderLines(m, c)[i]) <= e
    BY <1>1, LinesEnd DEF e
  <2>2. Start(m, c, i) \in Nat
    <3>1. i \in 1 .. Count(m) + 1
      BY <1>1, HeadersAre
    <3>2. QED
      BY <1>1, <3>1, StartIs
  <2>3. Len(HeaderLines(m, c)[i]) \in Nat
    <3>1. HeaderLines(m, c)[i] \in Seq(Letters(m))
      <4>1. HeaderLines(m, c) \in Seq(Seq(Letters(m))) /\ Len(HeaderLines(m, c)) = Count(m)
        BY <1>1, LinesAre, Zenon
      <4>2. QED
        BY <4>1
    <3>2. QED
      BY <3>1
  <2> DEFINE a == Start(m, c, i)
             k == Len(HeaderLines(m, c)[i])
  <2>4. a \in Nat /\ k \in Nat /\ a + k <= e /\ r - a \in 0 .. k - 1
    BY <1>8, <2>1, <2>2, <2>3, Zenon
  <2> HIDE DEF a, k
  <2>5. QED
    BY <1>2, <1>5, <2>4
<1>9. (p.state \notin Idle => Begun(p, f, m)) /\ AfterLines(p, st, f, m, c, r)
  BY <1>7, <1>8, Zenon DEF Reading
<1>10. AfterAt(p, st, f, m, c, r, e)
  BY <1>1, <1>2, <1>9, AfterIs DEF e
<1>11. CASE r = e /\ Closing(p, st, c, "s_header_value_lws")
  BY <1>2, <1>5, <1>11
<1>12. CASE r = e + 1 /\ Closing(p, st, c, "s_headers_almost_done")
  BY <1>2, <1>5, <1>12
<1>13. CASE \E j \in 0 .. c - 1 : At(r, e + 2 + j) /\ AtBody(p, st, m, c, j)
  <2>1. PICK j \in 0 .. c - 1 : At(r, e + 2 + j) /\ AtBody(p, st, m, c, j)
    BY <1>13
  <2>2. j = bl /\ c - bl > 0 
    BY <1>1, <1>2, <1>5, <2>1 DEF At
  <2>3. /\ p.state = "s_body_identity" /\ p.content_length = c - bl /\ p.marks \subseteq {"body"}
        /\ st = Only("body", First(m.body, bl))
    BY <2>1, <2>2 DEF AtBody
  <2>4. First(m.body, bl) = m.body
    BY <1>3, FirstIs DEF bl
  <2>5. Begun(p, f, m)
    BY <1>9, <2>3 DEF Idle
  <2>6. f.headers = HeadersBefore(m, c, Count(m) + 1)
    BY <1>9, Zenon DEF AfterLines
  <2>7. CASE ~Failed(q)
    <3>1. /\ q.marks = {} /\ q.data = {"body"} /\ q.calls \cap Names = {} /\ q.type = p.type
          /\ q.method = p.method /\ q.status_code = p.status_code /\ q.flags = p.flags
      <4>1. p.content_length > 0
        BY <2>2, <2>3
      <4>2. q = BufferEnds(Read(p, ch))
        BY DEF ch
      <4>3. QED
        BY <1>1, <2>3, <2>7, <4>1, <4>2, BodyStops
    <3>2. Ended(q, FieldsAfter(p, q, Only("body", m.body), f, NUL), m, c)
      BY <1>1, <1>3, <2>3, <2>5, <2>6, <3>1, EndsWith, Zenon
    <3>3. Ended(q, FieldsAfter(p, q, st, f, ch), m, c)
      BY <1>6, <2>3, <2>4, <3>2
    <3>4. QED
      BY <3>3, Zenon DEF Finishes, ch
  <2>8. QED
    BY <2>7, Zenon DEF Finishes
<1>14. CASE At(r, e + 2 + c) /\ p.state \in Idle
  <2>1. Failed(Read(p, ch))
    BY <1>1, <1>6, <1>14, ReadIdleFails
  <2>2. BufferEnds(Read(p, ch)) = Read(p, ch)
    BY <2>1 DEF BufferEnds, Stopped
  <2>3. Failed(q)
    BY <2>1, <2>2 DEF ch
  <2>4. QED
    BY <2>3, Zenon DEF Finishes
<1>15. QED
  BY <1>10, <1>11, <1>12, <1>13, <1>14, Zenon DEF AfterAt

(* The first letters of a method. *)
LEMMA FirstOfMethod ==
    ASSUME NEW n \in MethodNames
    PROVE  Nth(n, 0) \in ALPHA /\ (Nth(n, 0) = "H" => Nth(n, 1) # "T")
BY MethodsAssumption, Zenon

(* The first bytes of a text, and what a start line has there. *)
Headed(m, w) ==
    /\ Len(StartLine(m)) \in Nat /\ Len(w) \in Nat /\ Len(w) > Len(StartLine(m)) + 2
    /\ \A k \in 1 .. Len(StartLine(m)) : w[k] = StartLine(m)[k]

(* How the bytes of a message begin. *)
LEMMA TextHeaded ==
    ASSUME NEW m, Sendable(m), NEW c \in 0 .. MaxLength
    PROVE  Headed(m, Append(Bytes(m, c), NUL))
<1> DEFINE e == Start(m, c, Count(m) + 1)
           w == Append(Bytes(m, c), NUL)
           n == Len(StartLine(m))
           k == Len(S!FlattenSeq(HeaderLines(m, c)))
           b == Len(m.body)
<1>1. WireLayout(m, c, Letters(m), Bytes(m, c), w, e, StartLine(m), m.body)
  BY WireIs
<1>2. e = n + k
  BY StartIs, Zenon
<1>3. k \in Nat
  <2>1. HeaderLines(m, c) \in Seq(Seq(Letters(m)))
    BY LinesAre, Zenon
  <2>2. 0 \in 0 .. Len(HeaderLines(m, c))
    BY <2>1
  <2>3. S!FlattenSeq(HeaderLines(m, c)) \in Seq(Letters(m))
    BY <2>1, <2>2, FlattenBegins, Zenon
  <2>4. QED
    BY <2>3
<1>4. n \in Nat
  BY StartLineIs
<1> HIDE DEF e, n, k, w, b
<1>5. /\ e \in Nat /\ b \in Nat /\ Len(w) = e + 3 + b
      /\ \A i \in 1 .. Len(StartLine(m)) : w[i] = StartLine(m)[i]
  BY <1>1, Zenon DEF WireLayout, b
<1> DEFINE l == Len(w)
<1>6. l = e + 3 + b
  BY <1>5, Zenon
<1> HIDE DEF l
<1>7. l \in Nat /\ l > n + 2
  BY <1>2, <1>3, <1>4, <1>5, <1>6
<1>8. Len(w) \in Nat /\ Len(w) > Len(StartLine(m)) + 2
  BY <1>7, Zenon DEF l, n
<1>9. Len(StartLine(m)) \in Nat
  BY <1>4, Zenon DEF n
<1>10. \A i \in 1 .. Len(StartLine(m)) : w[i] = StartLine(m)[i]
  BY <1>5, Zenon
<1>11. Headed(m, w)
  BY <1>8, <1>9, <1>10, Zenon DEF Headed
<1>12. QED
  BY <1>11, Zenon DEF w

(* The first letters of a request. *)
LEMMA RequestHead ==
    ASSUME NEW m, Sendable(m), m.type = "HTTP_REQUEST", NEW w, Headed(m, w)
    PROVE  /\ w[1] \in ALPHA /\ w[1] = Nth(m.method, 0) /\ Len(w) > 2
           /\ w[1] = "H" => w[2] # "T"
<1> DEFINE line == StartLine(m)
           n == Len(line)
           ml == Len(m.method)
           pl == Len(m.path)
<1>1. n = ml + pl + 11 /\ ml \in 1 .. 16 /\ pl \in Nat
      /\ \A i \in 1 .. ml : line[i] = Nth(m.method, i - 1)
  BY RequestBytes, Zenon
<1>2. Len(w) > n + 2 /\ \A k \in 1 .. n : w[k] = line[k]
  BY DEF Headed
<1>3. m.method \in MethodNames
  BY DEF Sendable
<1>4. Nth(m.method, 0) = "H" => ml > 1
  BY <1>3, MethodsAssumption, Zenon
<1>5. Nth(m.method, 0) \in ALPHA /\ (Nth(m.method, 0) = "H" => Nth(m.method, 1) # "T")
  BY <1>3, FirstOfMethod
<1> HIDE DEF line, n, ml, pl
<1>6. 1 \in 1 .. ml /\ 1 \in 1 .. n /\ 2 \in 1 .. n /\ (ml > 1 => 2 \in 1 .. ml)
  BY <1>1
<1>7. line[1] = Nth(m.method, 1 - 1) /\ (ml > 1 => line[2] = Nth(m.method, 2 - 1))
  BY <1>1, <1>6, Zenon
<1>8. w[1] = line[1] /\ w[2] = line[2]
  BY <1>2, <1>6, Zenon
<1>9. w[1] = Nth(m.method, 0) /\ (ml > 1 => w[2] = Nth(m.method, 1))
  BY <1>7, <1>8
<1> DEFINE l == Len(w)
<1>10. l \in Nat /\ l > n + 2
  BY <1>2 DEF Headed
<1> HIDE DEF l
<1>11. l > 2
  BY <1>1, <1>10
<1>12. QED
  BY <1>4, <1>5, <1>9, <1>11 DEF l

(* The first letters of a response. *)
LEMMA StatusHead ==
    ASSUME NEW m, Sendable(m), m.type = "HTTP_RESPONSE", NEW w, Headed(m, w)
    PROVE  w[1] = "H" /\ w[2] = "T" /\ Len(w) > 2
<1> DEFINE line == StartLine(m)
           n == Len(line)
<1>1. StatusLine(Letters(m), line, m.status)
  BY StatusLineIs, Zenon
<1>2. Len(w) > n + 2 /\ \A k \in 1 .. n : w[k] = line[k]
  BY DEF Headed
<1> HIDE DEF line
<1>3. n = 16 /\ \A i \in 1 .. 9 : line[i] = StatusLetters[i]
  BY <1>1, ZenonT(40) DEF StatusLine
<1>4. StatusLetters[1] = "H" /\ StatusLetters[2] = "T"
  BY StatusText, Zenon DEF StatusLetters
<1>5. QED
  BY <1>2, <1>3, <1>4, SMTT(40)

(* The first byte and the second that the parser of requests reads of a response. *)
LEMMA MistakenResponse ==
    ASSUME NEW m, m.type = "HTTP_RESPONSE", NEW p, Sound(p), ~Stopped(p), p.type = "HTTP_REQUEST",
           NEW r, Mistaking(p, m, r), NEW ch, r = 0 => ch = "H", r = 1 => ch = "T"
    PROVE  /\ r \in {0, 1}
           /\ \/ Failed(Read(p, ch))
              \/ /\ r = 0 /\ Read(p, ch).type = p.type /\ Read(p, ch).exited = p.exited
                 /\ Mistaking(Read(p, ch), m, 1)
<1> DEFINE q == Read(p, ch)
<1>1. \/ r = 0 /\ p.state = "s_start_req"
      \/ r = 1 /\ p.state = "s_req_method" /\ p.method = "HEAD" /\ p.index = 1
  BY DEF Mistaking
<1>2. CASE r = 0 /\ p.state = "s_start_req"
  <2>1. ch = "H"
    BY <1>2
  <2>2. {x \in FirstMethods : Nth(x, 0) = ch} = {"HEAD"} /\ ch \in ALPHA
    <3>1. {x \in FirstMethods : Nth(x, 0) = "H"} = {"HEAD"} /\ "H" \in ALPHA
      BY TextAssumption, LettersAssumption, Zenon
    <3>2. QED
      BY <2>1, <3>1
  <2>3. \/ Failed(q)
        \/ /\ Got(p, q, {"method", "index", "flags", "content_length"}, "s_req_method",
                  p.marks, p.marks, {})
           /\ q.method = "HEAD" /\ q.index = 1
    BY <1>2, <2>2, ReadStartRequest
  <2> HIDE DEF q
  <2>4. CASE /\ Got(p, q, {"method", "index", "flags", "content_length"}, "s_req_method",
                    p.marks, p.marks, {})
             /\ q.method = "HEAD" /\ q.index = 1
    <3>1. q.type = p.type /\ q.exited = p.exited /\ q.state = "s_req_method"
      BY <2>4, GotIs
    <3>2. Mistaking(q, m, 1)
      BY <2>4, <3>1 DEF Mistaking
    <3>3. QED
      BY <1>2, <3>1, <3>2 DEF q
  <2>5. QED
    BY <1>2, <2>3, <2>4 DEF q
<1>3. CASE r = 1 /\ p.state = "s_req_method" /\ p.method = "HEAD" /\ p.index = 1
  BY <1>3, ReadHeadFails
<1>4. QED
  BY <1>1, <1>2, <1>3

(* Those that the parser of responses reads of a request. *)
LEMMA MistakenRequest ==
    ASSUME NEW m, m.type = "HTTP_REQUEST", NEW p, Sound(p), ~Stopped(p), p.type = "HTTP_RESPONSE",
           NEW r, Mistaking(p, m, r), NEW ch, r = 0 => ch = Nth(m.method, 0) /\ ch \in ALPHA,
           (r = 1 /\ Nth(m.method, 0) = "H") => ch # "T"
    PROVE  /\ r \in {0, 1}
           /\ \/ Failed(Read(p, ch))
              \/ /\ r = 0 /\ Read(p, ch).type = p.type /\ Read(p, ch).exited = p.exited
                 /\ Mistaking(Read(p, ch), m, 1)
<1> DEFINE q == Read(p, ch)
<1>1. \/ r = 0 /\ p.state = "s_start_res"
      \/ r = 1 /\ p.state = "s_res_H" /\ Nth(m.method, 0) = "H"
  BY DEF Mistaking
<1>2. CASE r = 0 /\ p.state = "s_start_res" /\ ch = "H"
  <2>1. Failed(q) \/ Got(p, q, {"flags", "content_length"}, "s_res_H", p.marks, p.marks, {})
    BY <1>2, ReadStartResponse
  <2> HIDE DEF q
  <2>2. CASE Got(p, q, {"flags", "content_length"}, "s_res_H", p.marks, p.marks, {})
    <3>1. q.type = p.type /\ q.exited = p.exited /\ q.state = "s_res_H"
      BY <2>2, GotIs
    <3>2. Mistaking(q, m, 1)
      BY <1>2, <3>1 DEF Mistaking
    <3>3. QED
      BY <1>2, <3>1, <3>2 DEF q
  <2>3. QED
    BY <1>2, <2>1, <2>2 DEF q
<1>3. CASE r = 0 /\ p.state = "s_start_res" /\ ch # "H"
  <2>1. ch \notin {"H", CR, LF}
    BY <1>3, LetterApart
  <2>2. QED
    BY <1>3, <2>1, ReadResponseFails
<1>4. CASE r = 1 /\ p.state = "s_res_H" /\ Nth(m.method, 0) = "H"
  <2>1. ch # "T"
    BY <1>4
  <2>2. QED
    BY <1>4, <2>1, ReadResponseFails
<1>5. QED
  BY <1>1, <1>2, <1>3, <1>4

(* A byte of a message that the other parser reads. *)
MistakesOn(p, q, m, w, r) ==
    /\ r \in Nat /\ r + 1 < Len(w)
    /\ \/ Failed(q)
       \/ q.type = p.type /\ q.exited = p.exited /\ Mistaking(q, m, r + 1)

(* The parser of the other type has failed, or reads its second byte. *)
LEMMA MistakingOn ==
    ASSUME NEW m, Sendable(m), NEW w, Headed(m, w), NEW p, Sound(p), ~Stopped(p), p.type # m.type,
           NEW r, Mistaking(p, m, r)
    PROVE  MistakesOn(p, Read(p, w[r + 1]), m, w, r)
<1> DEFINE ch == w[r + 1]
<1>1. \/ m.type = "HTTP_REQUEST" /\ p.type = "HTTP_RESPONSE"
      \/ m.type = "HTTP_RESPONSE" /\ p.type = "HTTP_REQUEST"
  BY DEF Sendable, Sound, Parser
<1>2. (r = 0 => ch = w[1]) /\ (r = 1 => ch = w[2])
  OBVIOUS
<1> HIDE DEF ch
<1>3. /\ Len(w) > 2
      /\ r \in {0, 1}
      /\ \/ Failed(Read(p, ch))
         \/ /\ r = 0 /\ Read(p, ch).type = p.type /\ Read(p, ch).exited = p.exited
            /\ Mistaking(Read(p, ch), m, 1)
  <2>1. CASE m.type = "HTTP_REQUEST" /\ p.type = "HTTP_RESPONSE"
    <3>1. w[1] \in ALPHA /\ w[1] = Nth(m.method, 0) /\ Len(w) > 2 /\ (w[1] = "H" => w[2] # "T")
      BY <2>1, RequestHead
    <3>2. (r = 0 => ch = Nth(m.method, 0) /\ ch \in ALPHA) /\ ((r = 1 /\ Nth(m.method, 0) = "H") => ch # "T")
      BY <1>2, <3>1
    <3>3. QED
      BY <2>1, <3>1, <3>2, MistakenRequest
  <2>2. CASE m.type = "HTTP_RESPONSE" /\ p.type = "HTTP_REQUEST"
    <3>1. w[1] = "H" /\ w[2] = "T" /\ Len(w) > 2
      BY <2>2, StatusHead
    <3>2. (r = 0 => ch = "H") /\ (r = 1 => ch = "T")
      BY <1>2, <3>1
    <3>3. QED
      BY <2>2, <3>1, <3>2, MistakenResponse
  <2>3. QED
    BY <1>1, <2>1, <2>2
<1> DEFINE l == Len(w)
<1>4. l > 2
  BY <1>3
<1> HIDE DEF l
<1>5. r \in Nat /\ r + 1 \in Nat /\ (l > 2 => r + 1 < l \/ ~(l \in Int)) /\ (r = 0 => r + 1 = 1)
  BY <1>3
<1>6. QED
  BY <1>3, <1>4, <1>5 DEF MistakesOn, ch, l

(* What is left of a text, and what is left after a byte of it. *)
Remains(w, t, r) ==
    /\ Len(w) \in Nat /\ Len(t) \in Nat
    /\ t # <<>> => /\ r + 1 <= Len(w) /\ Head(t) = w[r + 1] /\ Len(t) = Len(w) - r
                   /\ Len(Tail(t)) = Len(t) - 1 /\ (Len(t) = 1 <=> Tail(t) = <<>>)

(* What is left after one byte more. *)
LEMMA RestRemains ==
    ASSUME NEW T, NEW s \in Seq(T), NUL \in T, NEW r \in Nat, NEW t, t = Rest(s, r)
    PROVE  /\ Remains(Append(s, NUL), t, r)
           /\ t # <<>> => Tail(t) = Rest(s, r + 1)
<1> DEFINE w == Append(s, NUL)
           n == Len(s)
<1>1. w \in Seq(T) /\ Len(w) = n + 1 /\ n \in Nat
  OBVIOUS
<1> HIDE DEF w
<1>2. t = SubSeq(w, r + 1, n + 1)
  BY DEF Rest, w
<1> HIDE DEF n
<1>3. CASE r > n
  <2>1. t = <<>>
    BY <1>1, <1>2, <1>3
  <2>2. QED
    BY <1>1, <2>1 DEF Remains, w
<1>4. CASE r <= n
  <2>1. t \in Seq(T) /\ Len(t) = n + 1 - r /\ t # <<>> /\ t[1] = w[r + 1]
        /\ \A i \in 1 .. n + 1 - r : t[i] = w[r + i]
    BY <1>1, <1>2, <1>4
  <2>2. Tail(t) \in Seq(T) /\ Len(Tail(t)) = n - r /\ \A i \in 1 .. n - r : Tail(t)[i] = t[i + 1]
    BY <1>4, <1>1, <2>1
  <2>3. Head(t) = w[r + 1]
    BY <2>1
  <2>4. SubSeq(w, r + 2, n + 1) \in Seq(T) /\ Len(SubSeq(w, r + 2, n + 1)) = n - r
        /\ \A i \in 1 .. n - r : SubSeq(w, r + 2, n + 1)[i] = w[r + 1 + i]
    BY <1>1, <1>4
  <2>5. Tail(t) = SubSeq(w, r + 2, n + 1)
    <3> DEFINE a == Tail(t)
               b == SubSeq(w, r + 2, n + 1)
    <3>1. \A i \in 1 .. n - r : a[i] = b[i]
      BY <1>1, <1>4, <2>1, <2>2, <2>4
    <3>2. a \in Seq(T) /\ b \in Seq(T) /\ Len(a) = n - r /\ Len(b) = n - r
      BY <2>2, <2>4
    <3> HIDE DEF a, b
    <3>3. a = b
      BY <3>1, <3>2
    <3>4. QED
      BY <3>3 DEF a, b
  <2>6. Rest(s, r + 1) = SubSeq(w, r + 2, n + 1)
    <3>1. r + 1 + 1 = r + 2
      OBVIOUS
    <3>2. Rest(s, r + 1) = SubSeq(w, r + 1 + 1, n + 1)
      BY Zenon DEF Rest, w, n
    <3>3. QED
      BY <3>1, <3>2, Zenon
  <2>7. Len(t) = 1 <=> Tail(t) = <<>>
    <3> DEFINE a == Tail(t)
    <3>1. a \in Seq(T) /\ (Len(a) = 0 <=> n - r = 0)
      BY <2>2
    <3>2. n - r = 0 <=> Len(t) = 1
      BY <1>1, <1>4, <2>1
    <3> HIDE DEF a
    <3>3. Len(a) = 0 <=> a = <<>>
      BY <3>1
    <3>4. QED
      BY <3>1, <3>2, <3>3, Zenon DEF a
  <2>8. /\ Len(w) \in Nat /\ Len(t) \in Nat /\ r + 1 <= Len(w) /\ Len(t) = Len(w) - r
        /\ Len(Tail(t)) = Len(t) - 1
    <3> DEFINE a == Len(t)
               b == Len(Tail(t))
               l == Len(w)
    <3>1. a = n + 1 - r /\ b = n - r /\ l = n + 1
      BY <1>1, <2>1, <2>2, Zenon
    <3> HIDE DEF a, b, l
    <3>2. l \in Nat /\ a \in Nat /\ r + 1 <= l /\ a = l - r /\ b = a - 1
      BY <1>1, <1>4, <3>1
    <3>3. QED
      BY <3>2, Zenon DEF a, b, l
  <2>9. Remains(w, t, r)
    BY <2>3, <2>7, <2>8, Zenon DEF Remains
  <2>10. Tail(t) = Rest(s, r + 1)
    BY <2>5, <2>6, Zenon
  <2>11. QED
    BY <2>9, <2>10, Zenon DEF w
<1>5. QED
  BY <1>1, <1>3, <1>4

(* What is left at both ends. *)
LEMMA RestNone ==
    ASSUME NEW T, NEW s \in Seq(T), NUL \in T
    PROVE  /\ Rest(s, Len(s) + 1) = <<>> /\ Rest(s, 0) = Append(s, NUL)
           /\ Len(Append(s, NUL)) = Len(s) + 1 /\ Append(s, NUL) # <<>> /\ Len(s) \in Nat
<1> DEFINE w == Append(s, NUL)
           n == Len(s)
<1>1. w \in Seq(T) /\ Len(w) = n + 1 /\ n \in Nat /\ w # <<>>
  OBVIOUS
<1>2. Rest(s, n + 1) = SubSeq(w, n + 2, n + 1) /\ Rest(s, 0) = SubSeq(w, 1, n + 1)
  BY <1>1 DEF Rest
<1> HIDE DEF w, n
<1>3. SubSeq(w, n + 2, n + 1) = <<>>
  BY <1>1
<1>4. SubSeq(w, 1, n + 1) = w
  BY <1>1
<1>5. QED
  BY <1>1, <1>2, <1>3, <1>4, Zenon DEF w, n

(* A turn of the loop on a byte, when so many bytes are left: the last of them *)
(* ends the buffer, and so does an error.                                      *)
Turn(p, st, f, ch, left, q, st2, f2, t2) ==
    LET t    == Read(p, ch)
        last == Stopped(t) \/ left = 1
    IN  /\ q = IF last THEN BufferEnds(t) ELSE t
        /\ Failed(q) \/ (st2 = StringsAfter(p, q, st, ch) /\ f2 = FieldsAfter(p, q, st, f, ch))
        /\ last <=> t2 = <<>>

(* What is needed to read a byte, whichever parser reads it. *)
Opened(m, c, w, p, f) ==
    /\ Sendable(m) /\ c \in 0 .. MaxLength /\ Len(m.body) \in 0 .. c
    /\ Sound(p) /\ ~Stopped(p) /\ Fielded(f) /\ w = Append(Bytes(m, c), NUL)

Within(w, r, left) ==
    /\ r \in Nat /\ Len(w) \in Nat /\ r + 1 <= Len(w) /\ (left = 1 <=> r + 1 = Len(w))

(* One byte more has been read, by either parser. *)
LEMMA ByteReached ==
    ASSUME NEW m, NEW c, NEW w, NEW p, NEW f, Opened(m, c, w, p, f), NEW st,
           NEW r, NEW left, Within(w, r, left),
           NEW whole, whole # <<>>, Reached(p, st, f, m, c, whole, r),
           NEW q, NEW st2, NEW f2, NEW t2, Turn(p, st, f, w[r + 1], left, q, st2, f2, t2)
    PROVE  Reached(q, st2, f2, m, c, t2, r + 1)
<1> DEFINE ch == w[r + 1]
           t == Read(p, ch)
<1>0a. /\ Sendable(m) /\ c \in 0 .. MaxLength /\ Len(m.body) \in 0 .. c
      /\ Sound(p) /\ ~Stopped(p) /\ Fielded(f) /\ w = Append(Bytes(m, c), NUL)
  BY Zenon DEF Opened
<1>0b. r \in Nat /\ Len(w) \in Nat /\ r + 1 <= Len(w) /\ (left = 1 <=> r + 1 = Len(w))
  BY Zenon DEF Within
<1>0c. IF p.type = m.type THEN Reading(p, st, f, m, c, r) ELSE Mistaking(p, m, r)
  BY Zenon DEF Reached
<1>0d. (Stopped(t) \/ left = 1) => q = BufferEnds(t) /\ t2 = <<>>
  BY Zenon DEF Turn
<1>0e. (~Stopped(t) /\ left # 1) => q = t /\ t2 # <<>>
  BY Zenon DEF Turn
<1>0f. Failed(q) \/ (st2 = StringsAfter(p, q, st, ch) /\ f2 = FieldsAfter(p, q, st, f, ch))
  BY Zenon DEF Turn
<1> HIDE DEF ch, t
<1>1. ~Failed(p) /\ ~p.exited
  BY <1>0a DEF Stopped
<1>2. Stopped(t) => BufferEnds(t) = t
  BY DEF BufferEnds
<1>3. CASE p.type = m.type
  <2>1. Reads(m, c, p, f, w) /\ Reading(p, st, f, m, c, r)
    BY <1>3, <1>0a, <1>0c, ZenonT(40) DEF Reads
  <2>2. CASE r + 1 = Len(w)
    <3>1. t2 = <<>> /\ q = BufferEnds(t)
      BY <2>2, <1>0b, <1>0d, Zenon
    <3>2. Finishes(p, q, st, f, m, c, ch)
      BY <2>1, <2>2, <3>1, <1>0b, ReadingLast, Zenon DEF t, ch
    <3>3. Failed(q) \/ (q.exited /\ q.upgrade) \/ Ended(q, FieldsAfter(p, q, st, f, ch), m, c)
      BY <3>2, Zenon DEF Finishes
    <3>4. Failed(q) \/ (q.exited /\ q.upgrade) \/ Ended(q, f2, m, c)
      BY <3>3, <1>0f, Zenon
    <3>5. QED
      BY <3>1, <3>4, Zenon DEF Reached
  <2>3. CASE r + 1 < Len(w)
    <3>1. Onward(p, t, st, f, m, c, r, ch)
      BY <2>1, <2>3, <1>0b, ReadingOn, Zenon DEF t, ch
    <3>2. \/ Failed(t)
          \/ t.exited /\ t.upgrade
          \/ /\ t.type = p.type /\ t.exited = p.exited
             /\ Reading(t, StringsAfter(p, t, st, ch), FieldsAfter(p, t, st, f, ch), m, c, r + 1)
      BY <3>1, Zenon DEF Onward
    <3>3. left # 1
      <4>1. r + 1 # Len(w)
        BY <1>0b, <2>3
      <4>2. QED
        BY <1>0b, <4>1, Zenon
    <3>4. CASE Stopped(t)
      <4>1. q = t /\ t2 = <<>>
        BY <1>2, <1>0d, <3>4, ZenonT(40)
      <4>2. Failed(t) \/ (t.exited /\ t.upgrade)
        BY <1>1, <3>2, <3>4, Zenon DEF Stopped
      <4>3. QED
        BY <4>1, <4>2, Zenon DEF Reached
    <3>5. CASE ~Stopped(t)
      <4>1. q = t /\ t2 # <<>> /\ ~Failed(t) /\ ~t.exited
        BY <1>0e, <3>3, <3>5, Zenon DEF Stopped
      <4>2. t.type = m.type /\ Reading(t, st2, f2, m, c, r + 1)
        BY <1>0f, <1>3, <3>2, <4>1, Zenon
      <4>3. QED
        BY <4>1, <4>2, Zenon DEF Reached
    <3>6. QED
      BY <3>4, <3>5
  <2>4. QED
    BY <1>0b, <2>2, <2>3
<1>4. CASE p.type # m.type
  <2>1. Headed(m, w)
    BY <1>0a, TextHeaded, ZenonT(40)
  <2>2. MistakesOn(p, t, m, w, r)
    BY <1>0a, <1>0c, <1>4, <2>1, MistakingOn, Zenon DEF t, ch
  <2>3. /\ r + 1 < Len(w)
        /\ \/ Failed(t)
           \/ t.type = p.type /\ t.exited = p.exited /\ Mistaking(t, m, r + 1)
    BY <2>2, Zenon DEF MistakesOn
  <2>4. left # 1
    <3>1. r + 1 # Len(w)
      BY <1>0b, <2>3
    <3>2. QED
      BY <1>0b, <3>1, Zenon
  <2>5. CASE Stopped(t)
    <3>1. q = t /\ t2 = <<>> /\ Failed(t)
      BY <1>0d, <1>1, <1>2, <2>3, <2>5, ZenonT(40) DEF Stopped
    <3>2. QED
      BY <3>1, Zenon DEF Reached
  <2>6. CASE ~Stopped(t)
    <3>1. q = t /\ t2 # <<>> /\ ~Failed(t)
      BY <1>0e, <2>4, <2>6, Zenon DEF Stopped
    <3>2. t.type # m.type /\ Mistaking(t, m, r + 1)
      BY <1>4, <2>3, <3>1, Zenon
    <3>3. QED
      BY <3>1, <3>2, Zenon DEF Reached
  <2>7. QED
    BY <2>5, <2>6
<1>5. QED
  BY <1>3, <1>4

(* A parser that has read nothing. *)
LEMMA NothingReached ==
    ASSUME NEW m, Sendable(m), NEW c, NEW type \in {"HTTP_REQUEST", "HTTP_RESPONSE"},
           NEW p, p = BufferBegins(NewParser(type)), NEW t, t # <<>>
    PROVE  Sound(p) /\ ~Stopped(p) /\ Reached(p, NoStrings, NoFields, m, c, t, 0)
<1> DEFINE o == NewParser(type)
<1>1. Sound(o) /\ ~Stopped(o)
  BY InitSound
<1>2. Sound(p) /\ ~Stopped(p)
  BY <1>1, BufferBeginsSound
<1>3. /\ p.type = type /\ p.marks = {}
      /\ p.state = IF type = "HTTP_REQUEST" THEN "s_start_req" ELSE "s_start_res"
  <2>1. /\ o.type = type
        /\ o.state = IF type = "HTTP_REQUEST" THEN "s_start_req" ELSE "s_start_res"
    BY DEF NewParser
  <2>2. o \in Parser
    BY <1>1 DEF Sound
  <2>3. p = BufferBegins(o)
    OBVIOUS
  <2> HIDE DEF o
  <2>4. p.type = o.type /\ p.state = o.state /\ p.marks = Remarked(o.state)
    BY <2>2, <2>3 DEF BufferBegins, Parser
  <2>5. Remarked(o.state) = {}
    BY <2>1 DEF Remarked, UrlStates, UrlEnds
  <2>6. QED
    BY <2>1, <2>4, <2>5
<1>4. m.type \in {"HTTP_REQUEST", "HTTP_RESPONSE"}
  BY DEF Sendable
<1>5. NoFields.body = <<>> /\ NoFields.headers = <<>> /\ NoFields.url = <<>>
  BY DEF NoFields
<1>6. 0 < Len(StartLine(m))
  BY StartLineIs
<1>7. CASE type # m.type
  <2>1. Mistaking(p, m, 0)
    BY <1>3 DEF Mistaking
  <2>2. QED
    BY <1>2, <1>3, <1>7, <2>1, Zenon DEF Reached
<1>8. CASE type = m.type
  <2>1. IF m.type = "HTTP_REQUEST" THEN OnRequestLine(p, NoStrings, NoFields, m, 0)
                                   ELSE OnStatusLine(p, NoStrings, NoFields, m, 0)
    <3>1. CASE m.type = "HTTP_REQUEST"
      <4>1. OnRequestLine(p, NoStrings, NoFields, m, 0)
        BY <1>3, <1>8, <3>1 DEF OnRequestLine
      <4>2. QED
        BY <3>1, <4>1
    <3>2. CASE m.type = "HTTP_RESPONSE"
      <4>1. p.state = StatusStates[0 + 1]
        BY <1>3, <1>8, <3>2 DEF StatusStates
      <4>2. OnStatusLine(p, NoStrings, NoFields, m, 0)
        BY <1>3, <1>5, <4>1 DEF OnStatusLine
      <4>3. QED
        BY <3>2, <4>2
    <3>3. QED
      BY <1>4, <3>1, <3>2
  <2>2. Reading(p, NoStrings, NoFields, m, c, 0)
    BY <1>5, <1>6, <2>1 DEF Reading
  <2>3. QED
    BY <1>2, <1>3, <1>8, <2>2, Zenon DEF Reached
<1>9. QED
  BY <1>7, <1>8

(* A byte is read, and its callbacks are made. *)
LEMMA ParseByteIs ==
    ASSUME ParseByte
    PROVE  \/ Failed(parser')
           \/ /\ strings' = StringsAfter(parser, parser', strings, Head(text))
              /\ fields' = FieldsAfter(parser, parser', strings, fields, Head(text))
<1> DEFINE ch == Head(text)
           s == Given(ch)
<1>1. s = GivenTo(parser', strings, ch)
  BY Zenon DEF Given, GivenTo
<1>2. Made = MadeBy(parser, parser', strings)
  BY Zenon DEF Made, MadeBy
<1>3. \A x : on_url(fields, x) = on_url_by(parser', fields, x)
  BY Zenon DEF on_url, on_url_by
<1>4. ASSUME ~Failed(parser')
      PROVE  /\ strings' = StringsAfter(parser, parser', strings, Head(text))
             /\ fields' = FieldsAfter(parser, parser', strings, fields, Head(text))
  <2>1. /\ strings' = [k \in DOMAIN s |-> IF k \in Made THEN <<>> ELSE s[k]]
        /\ fields' = CASE "url" \in Made          -> on_url(fields, s["url"])
                       [] "header_field" \in Made -> on_header_field(fields, s["header_field"])
                       [] "header_value" \in Made -> on_header_value(fields, s["header_value"])
                       [] "body" \in Made         -> on_body(fields, s["body"])
                       [] OTHER                   -> fields
    BY <1>4 DEF ParseByte
  <2> HIDE DEF s
  <2>2. strings' = StringsAfter(parser, parser', strings, ch)
    BY <1>1, <1>2, <2>1 DEF StringsAfter
  <2>3. fields' = CASE "url" \in Made          -> on_url_by(parser', fields, s["url"])
                    [] "header_field" \in Made -> on_header_field(fields, s["header_field"])
                    [] "header_value" \in Made -> on_header_value(fields, s["header_value"])
                    [] "body" \in Made         -> on_body(fields, s["body"])
                    [] OTHER                   -> fields
    BY <1>3, <2>1
  <2>4. fields' = FieldsAfter(parser, parser', strings, fields, ch)
    BY <1>1, <1>2, <2>3 DEF FieldsAfter
  <2>5. QED
    BY <2>2, <2>4
<1>5. QED
  BY <1>4

(* What there is to know of the message that is being read. *)
Knows(c, p, st, f, m, bytes, t, r) ==
    /\ Sendable(m) /\ c \in 0 .. MaxLength /\ Len(m.body) \in 0 .. c
    /\ bytes = Bytes(m, c)
    /\ r \in Nat /\ t = Rest(bytes, r)
    /\ Reached(p, st, f, m, c, t, r)

(* The length that has been declared is that of something that is sent. *)
Declared(sent, m, c) == sent \in Sent /\ sent[1] = m /\ c = Len(m.body) + sent[2]

(* The invariant's last part, by the declared length. *)
LEMMA KnowsSent ==
    ASSUME NEW p, NEW st, NEW f, NEW m, NEW bytes, NEW t, NEW r
    PROVE  (\E sent \in {s \in Sent : s[1] = m} :
               LET c == Len(m.body) + sent[2]
               IN  /\ bytes = Bytes(m, c)
                   /\ r \in Nat /\ t = Rest(bytes, r)
                   /\ Reached(p, st, f, m, c, t, r))
           <=> \E sent, c : Declared(sent, m, c) /\ Knows(c, p, st, f, m, bytes, t, r)
<1>1. ASSUME NEW sent, NEW c, Declared(sent, m, c)
      PROVE  Sendable(m) /\ c \in 0 .. MaxLength /\ Len(m.body) \in 0 .. c
  BY <1>1, SentIs DEF Declared
<1>2. ASSUME NEW sent \in {s \in Sent : s[1] = m}, NEW c, c = Len(m.body) + sent[2],
             bytes = Bytes(m, c), r \in Nat, t = Rest(bytes, r), Reached(p, st, f, m, c, t, r)
      PROVE  Declared(sent, m, c) /\ Knows(c, p, st, f, m, bytes, t, r)
  <2>1. Declared(sent, m, c)
    BY <1>2, Zenon DEF Declared
  <2>2. QED
    BY <1>1, <1>2, <2>1, ZenonT(40) DEF Knows
<1>3. ASSUME NEW sent, NEW c, Declared(sent, m, c), Knows(c, p, st, f, m, bytes, t, r)
      PROVE  /\ sent \in {s \in Sent : s[1] = m}
             /\ bytes = Bytes(m, Len(m.body) + sent[2])
             /\ r \in Nat /\ t = Rest(bytes, r)
             /\ Reached(p, st, f, m, Len(m.body) + sent[2], t, r)
  BY <1>3, ZenonT(40) DEF Declared, Knows
<1>4. QED
  BY <1>2, <1>3, ZenonT(40)

(* The parts of the invariant. *)
LEMMA CodecInvIs ==
    CodecInv <=>
        /\ Sound(parser) /\ (Stopped(parser) => text = <<>>)
        /\ Fielded(fields)
        /\ outcome # "none" => text = <<>>
        /\ outcome = "parsed" => ~Failed(parser)
        /\ \E sent, c : /\ Declared(sent, message, c)
                        /\ Knows(c, parser, strings, fields, message, wire, text, Place)
<1>1. DOMAIN NoFields = {"url", "method", "temp_header_field", "headers", "body"}
  BY DEF NoFields
<1>2. (\E sent \in {s \in Sent : s[1] = message} :
          LET c == Len(message.body) + sent[2]
          IN  /\ wire = Bytes(message, c)
              /\ Place \in Nat /\ text = Rest(wire, Place)
              /\ Reached(parser, strings, fields, message, c, text, Place))
      <=> \E sent, c : /\ Declared(sent, message, c)
                      /\ Knows(c, parser, strings, fields, message, wire, text, Place)
  BY KnowsSent, Zenon
<1>3. QED
  BY <1>1, <1>2, Zenon DEF CodecInv, Fielded

(* What the place in the bytes says of what is left. *)
LEMMA KnowsWire ==
    ASSUME NEW c, NEW p, NEW st, NEW f, NEW m, NEW bytes, NEW t, NEW r,
           Knows(c, p, st, f, m, bytes, t, r)
    PROVE  /\ Sendable(m) /\ c \in 0 .. MaxLength /\ Len(m.body) \in 0 .. c
           /\ bytes = Bytes(m, c) /\ bytes \in Seq(Letters(m)) /\ NUL \in Letters(m)
           /\ Len(bytes) \in Nat
<1>1. Sendable(m) /\ c \in 0 .. MaxLength /\ Len(m.body) \in 0 .. c
  BY Zenon DEF Knows
<1>2. WireLayout(m, c, Letters(m), Bytes(m, c), Append(Bytes(m, c), NUL),
                 Start(m, c, Count(m) + 1), StartLine(m), m.body)
  BY <1>1, WireIs
<1>3. Bytes(m, c) \in Seq(Letters(m))
  BY <1>2, Zenon DEF WireLayout
<1>4. bytes = Bytes(m, c)
  BY Zenon DEF Knows
<1>5. NUL \in Letters(m)
  BY DEF Letters, Marks
<1>6. Len(bytes) \in Nat
  BY <1>3, <1>4
<1>7. QED
  BY <1>1, <1>3, <1>4, <1>5, <1>6, Zenon

(* What is known when a byte of t has been read and t2 is left. *)
Advances(c, q, st2, f2, m, bytes, t, t2, r) ==
    /\ t2 = <<>> => Knows(c, q, st2, f2, m, bytes, t2, Len(bytes) + 1)
    /\ t2 # <<>> => Knows(c, q, st2, f2, m, bytes, t2, r + 1)
    /\ Len(t) = Len(bytes) + 1 - r /\ Len(Tail(t)) = Len(t) - 1 /\ Len(bytes) \in Nat /\ r \in Nat

(* A byte is read at its place. *)
ReadsAt(c, p, st, f, m, w, t, r, q, st2, f2, t2) ==
    /\ Opened(m, c, w, p, f) /\ Within(w, r, Len(t))
    /\ Reached(p, st, f, m, c, t, r) /\ Turn(p, st, f, w[r + 1], Len(t), q, st2, f2, t2)

(* What is known at the place of the text says that the byte there is read.   *)
LEMMA ByteOpens ==
    ASSUME NEW c, NEW p, NEW st, NEW f, NEW m, NEW bytes, NEW t, t # <<>>,
           NEW r, Knows(c, p, st, f, m, bytes, t, r),
           Sound(p), ~Stopped(p), Fielded(f),
           NEW q, NEW st2, NEW f2, NEW t2, Turn(p, st, f, Head(t), Len(t), q, st2, f2, t2)
    PROVE  /\ ReadsAt(c, p, st, f, m, Append(bytes, NUL), t, r, q, st2, f2, t2)
           /\ Tail(t) = Rest(bytes, r + 1) /\ Rest(bytes, Len(bytes) + 1) = <<>>
           /\ Len(t) = Len(bytes) + 1 - r /\ Len(Tail(t)) = Len(t) - 1
           /\ Len(bytes) \in Nat /\ r \in Nat /\ Len(bytes) + 1 \in Nat /\ r + 1 \in Nat
<1> DEFINE w == Append(bytes, NUL)
           T == Letters(m)
<1>1. /\ Sendable(m) /\ c \in 0 .. MaxLength /\ Len(m.body) \in 0 .. c
      /\ bytes = Bytes(m, c) /\ bytes \in Seq(T) /\ NUL \in T /\ Len(bytes) \in Nat
  BY KnowsWire, Zenon
<1>2. r \in Nat /\ t = Rest(bytes, r) /\ Reached(p, st, f, m, c, t, r)
  BY Zenon DEF Knows
<1> HIDE DEF T
<1>3. Remains(w, t, r) /\ Tail(t) = Rest(bytes, r + 1)
  BY <1>1, <1>2, RestRemains, Zenon
<1>4. /\ Len(w) \in Nat /\ Len(t) \in Nat
      /\ r + 1 <= Len(w) /\ Head(t) = w[r + 1] /\ Len(t) = Len(w) - r
      /\ Len(Tail(t)) = Len(t) - 1 /\ (Len(t) = 1 <=> Tail(t) = <<>>)
  BY <1>3, ZenonT(40) DEF Remains
<1>5. Len(w) = Len(bytes) + 1 /\ Rest(bytes, Len(bytes) + 1) = <<>>
  BY <1>1, RestNone, Zenon
<1>6. w = Append(Bytes(m, c), NUL)
  BY <1>1, Zenon
<1> DEFINE a == Len(t)
           l == Len(w)
           n == Len(bytes)
<1>7. a \in Nat /\ l \in Nat /\ a = l - r /\ l = n + 1 /\ n \in Nat /\ r \in Nat /\ r + 1 <= l
  BY <1>1, <1>2, <1>4, <1>5, Zenon
<1> HIDE DEF w, a, l, n
<1>8. (a = 1 <=> r + 1 = l) /\ a = n + 1 - r /\ n + 1 \in Nat /\ r + 1 \in Nat
  BY <1>7
<1>9. Opened(m, c, w, p, f)
  BY <1>1, <1>6, ZenonT(40) DEF Opened
<1>10. Within(w, r, Len(t))
  BY <1>7, <1>8, ZenonT(40) DEF Within, a, l
<1>11. Turn(p, st, f, w[r + 1], Len(t), q, st2, f2, t2)
  BY <1>4, Zenon
<1>12. ReadsAt(c, p, st, f, m, w, t, r, q, st2, f2, t2)
  BY <1>2, <1>9, <1>10, <1>11, Zenon DEF ReadsAt
<1>13. QED
  BY <1>3, <1>4, <1>5, <1>7, <1>8, <1>12, Zenon DEF w, a, n

(* What is known at the place of the text is known after the byte there. *)
LEMMA ByteKnows ==
    ASSUME NEW c, NEW p, NEW st, NEW f, NEW m, NEW bytes, NEW t, t # <<>>,
           NEW r, Knows(c, p, st, f, m, bytes, t, r),
           Sound(p), ~Stopped(p), Fielded(f),
           NEW q, NEW st2, NEW f2, NEW t2, Turn(p, st, f, Head(t), Len(t), q, st2, f2, t2),
           t2 = <<>> \/ t2 = Tail(t)
    PROVE  Advances(c, q, st2, f2, m, bytes, t, t2, r)
<1> DEFINE w == Append(bytes, NUL)
<1>1. /\ Sendable(m) /\ c \in 0 .. MaxLength /\ Len(m.body) \in 0 .. c /\ bytes = Bytes(m, c)
  BY Zenon DEF Knows
<1>2. /\ ReadsAt(c, p, st, f, m, w, t, r, q, st2, f2, t2)
      /\ Tail(t) = Rest(bytes, r + 1) /\ Rest(bytes, Len(bytes) + 1) = <<>>
      /\ Len(t) = Len(bytes) + 1 - r /\ Len(Tail(t)) = Len(t) - 1
      /\ Len(bytes) \in Nat /\ r \in Nat /\ Len(bytes) + 1 \in Nat /\ r + 1 \in Nat
  BY ByteOpens, Zenon
<1> HIDE DEF w
<1>3. Reached(q, st2, f2, m, c, t2, r + 1)
  BY <1>2, ByteReached, Zenon DEF ReadsAt
<1>4. ASSUME t2 = <<>>
      PROVE  Knows(c, q, st2, f2, m, bytes, t2, Len(bytes) + 1)
  <2>1. t2 = Rest(bytes, Len(bytes) + 1)
    BY <1>2, <1>4, Zenon
  <2>2. Reached(q, st2, f2, m, c, t2, Len(bytes) + 1)
    BY <1>3, <1>4, Zenon DEF Reached
  <2>3. QED
    BY <1>1, <1>2, <2>1, <2>2, ZenonT(40) DEF Knows
<1>5. ASSUME t2 # <<>>
      PROVE  Knows(c, q, st2, f2, m, bytes, t2, r + 1)
  <2>1. t2 = Rest(bytes, r + 1)
    BY <1>2, <1>5, Zenon
  <2>2. QED
    BY <1>1, <1>2, <1>3, <2>1, ZenonT(40) DEF Knows
<1>6. QED
  BY <1>2, <1>4, <1>5, ZenonT(40) DEF Advances

(* Before the first byte, for either parser. *)
LEMMA NothingKnown ==
    ASSUME NEW m, NEW c, Sendable(m), c \in 0 .. MaxLength, Len(m.body) \in 0 .. c,
           NEW bytes, bytes = Bytes(m, c),
           NEW type \in {"HTTP_REQUEST", "HTTP_RESPONSE"}, NEW p, p = BufferBegins(NewParser(type)),
           NEW t, t = Append(bytes, NUL)
    PROVE  /\ Sound(p) /\ ~Stopped(p) /\ t # <<>>
           /\ Knows(c, p, NoStrings, NoFields, m, bytes, t, Len(bytes) + 1 - Len(t))
<1> DEFINE n == Len(bytes)
           l == Len(t)
<1>2. WireLayout(m, c, Letters(m), Bytes(m, c), Append(Bytes(m, c), NUL),
                 Start(m, c, Count(m) + 1), StartLine(m), m.body)
  BY WireIs
<1>3. bytes \in Seq(Letters(m)) /\ NUL \in Letters(m)
  <2>1. Bytes(m, c) \in Seq(Letters(m))
    BY <1>2, Zenon DEF WireLayout
  <2>2. NUL \in Letters(m)
    BY DEF Letters, Marks
  <2>3. QED
    BY <2>1, <2>2, Zenon
<1>4. /\ Rest(bytes, 0) = t /\ Len(t) = Len(bytes) + 1 /\ t # <<>> /\ Len(bytes) \in Nat
  BY <1>3, RestNone, Zenon
<1>5. l = n + 1 /\ n \in Nat
  BY <1>4, Zenon
<1> HIDE DEF l, n
<1>6. n + 1 - l = 0
  BY <1>5
<1>7. Len(bytes) + 1 - Len(t) = 0
  BY <1>6, Zenon DEF l, n
<1>8. Sound(p) /\ ~Stopped(p) /\ Reached(p, NoStrings, NoFields, m, c, t, 0)
  BY <1>4, NothingReached, Zenon
<1>9. 0 \in Nat
  OBVIOUS
<1>10. Knows(c, p, NoStrings, NoFields, m, bytes, t, 0)
  BY <1>4, <1>8, <1>9, ZenonT(40) DEF Knows
<1>11. QED
  BY <1>4, <1>7, <1>8, <1>10, Zenon

(* The first parser begins as the invariant has it. *)
LEMMA CodecInitKeeps == CodecInit => CodecInv
<1> SUFFICES ASSUME CodecInit
             PROVE  CodecInv
  OBVIOUS
<1>1. PICK sent \in Sent : message = sent[1] /\ wire = Bytes(sent[1], Len(sent[1].body) + sent[2])
  BY DEF CodecInit
<1>2. /\ text = Append(wire, NUL) /\ parser = BufferBegins(NewParser("HTTP_REQUEST"))
      /\ strings = NoStrings /\ fields = NoFields /\ outcome = "none"
  BY DEF CodecInit
<1> DEFINE c == Len(message.body) + sent[2]
<1>3. /\ Sound(parser) /\ ~Stopped(parser) /\ text # <<>>
      /\ Knows(c, parser, NoStrings, NoFields, message, wire, text, Len(wire) + 1 - Len(text))
  <2>1. wire = Bytes(message, c)
    BY <1>1
  <2>2. Sendable(message) /\ c \in 0 .. MaxLength /\ Len(message.body) \in 0 .. c
    BY <1>1, SentIs
  <2> HIDE DEF c
  <2>3. QED
    BY <1>2, <2>1, <2>2, NothingKnown
<1>4. Declared(sent, message, c) /\ Knows(c, parser, strings, fields, message, wire, text, Place)
  BY <1>1, <1>2, <1>3, Zenon DEF Place, Declared
<1>5. Fielded(fields)
  BY <1>2 DEF Fielded, NoFields
<1>6. outcome # "parsed"
  BY <1>2
<1>7. QED
  BY <1>2, <1>3, <1>4, <1>5, <1>6, CodecInvIs, Zenon

(* The parts of the invariant, after a step. *)
LEMMA CodecInvNext ==
    CodecInv' <=>
        /\ Sound(parser') /\ (Stopped(parser') => text' = <<>>)
        /\ Fielded(fields')
        /\ outcome' # "none" => text' = <<>>
        /\ outcome' = "parsed" => ~Failed(parser')
        /\ \E sent, c : /\ Declared(sent, message', c)
                        /\ Knows(c, parser', strings', fields', message', wire', text', Place')
<1>1. DOMAIN NoFields = {"url", "method", "temp_header_field", "headers", "body"}
  BY DEF NoFields
<1>2. (\E sent \in {s \in Sent : s[1] = message'} :
          LET c == Len(message'.body) + sent[2]
          IN  /\ wire' = Bytes(message', c)
              /\ Place' \in Nat /\ text' = Rest(wire', Place')
              /\ Reached(parser', strings', fields', message', c, text', Place'))
      <=> \E sent, c : /\ Declared(sent, message', c)
                      /\ Knows(c, parser', strings', fields', message', wire', text', Place')
  BY KnowsSent, Zenon
<1>3. QED
  BY <1>1, <1>2, Zenon DEF CodecInv, Fielded

(* Byte, as a turn. *)
LEMMA ParseByteTurns ==
    ASSUME ParseByte, Len(text) = 1 <=> Tail(text) = <<>>
    PROVE  /\ text # <<>>
           /\ Turn(parser, strings, fields, Head(text), Len(text), parser', strings', fields', text')
           /\ text' = <<>> \/ text' = Tail(text)
           /\ message' = message /\ wire' = wire /\ outcome' = outcome /\ outcome = "none"
<1> DEFINE q == Read(parser, Head(text))
           last == Stopped(q) \/ Len(text) = 1
<1>1. /\ text # <<>>
      /\ parser' = IF last THEN BufferEnds(q) ELSE q
      /\ text' = IF last THEN <<>> ELSE Tail(text)
  BY DEF ParseByte, Byte
<1>2. \/ Failed(parser')
      \/ /\ strings' = StringsAfter(parser, parser', strings, Head(text))
         /\ fields' = FieldsAfter(parser, parser', strings, fields, Head(text))
  BY ParseByteIs, Zenon
<1>3. message' = message /\ wire' = wire /\ outcome' = outcome /\ outcome = "none"
  BY DEF ParseByte
<1> HIDE DEF q
<1>4. Stopped(q) \/ Len(text) = 1 <=> text' = <<>>
  BY <1>1, Zenon
<1>5. Turn(parser, strings, fields, Head(text), Len(text), parser', strings', fields', text')
  BY <1>1, <1>2, <1>4, ZenonT(40) DEF Turn, q
<1>6. text' = <<>> \/ text' = Tail(text)
  BY <1>1, Zenon
<1>7. QED
  BY <1>1, <1>3, <1>5, <1>6

(* A byte is taken from the text. *)
LEMMA ByteTaken ==
    ASSUME NEW c, Knows(c, parser, strings, fields, message, wire, text, Place), ParseByte,
           Sound(parser), Stopped(parser) => text = <<>>, Fielded(fields)
    PROVE  /\ text # <<>> /\ ~Stopped(parser)
           /\ Turn(parser, strings, fields, Head(text), Len(text), parser', strings', fields', text')
           /\ message' = message /\ wire' = wire /\ outcome' = outcome /\ outcome = "none"
           /\ Knows(c, parser', strings', fields', message', wire', text', Place')
           /\ Place' = IF text' = <<>> THEN Len(wire) + 1 ELSE Place + 1
<1>3. text # <<>>
  BY DEF ParseByte, Byte
<1>4. ~Stopped(parser)
  BY <1>3
<1>5. Place \in Nat /\ Len(wire) \in Nat /\ Len(text) \in Nat /\ (Len(text) = 1 <=> Tail(text) = <<>>)
  <2>1. Place \in Nat /\ text = Rest(wire, Place)
    BY ZenonT(40) DEF Knows
  <2>2. wire \in Seq(Letters(message)) /\ NUL \in Letters(message) /\ Len(wire) \in Nat
    BY KnowsWire, ZenonT(40)
  <2>3. Remains(Append(wire, NUL), text, Place)
    BY <2>1, <2>2, RestRemains, Zenon
  <2>4. Len(text) \in Nat /\ (Len(text) = 1 <=> Tail(text) = <<>>)
    BY <1>3, <2>3, Zenon DEF Remains
  <2>5. QED
    BY <2>1, <2>2, <2>4
<1>6. /\ Turn(parser, strings, fields, Head(text), Len(text), parser', strings', fields', text')
      /\ text' = <<>> \/ text' = Tail(text)
      /\ message' = message /\ wire' = wire /\ outcome' = outcome /\ outcome = "none"
  BY <1>5, ParseByteTurns, Zenon
<1>7. /\ text' = <<>> => Knows(c, parser', strings', fields', message, wire, text', Len(wire) + 1)
      /\ text' # <<>> => Knows(c, parser', strings', fields', message, wire, text', Place + 1)
      /\ Len(text) = Len(wire) + 1 - Place /\ Len(Tail(text)) = Len(text) - 1
  <2>1. Advances(c, parser', strings', fields', message, wire, text, text', Place)
    BY <1>3, <1>4, <1>6, ByteKnows, Zenon
  <2>2. QED
    BY <2>1, Zenon DEF Advances
<1>8. Place' = IF text' = <<>> THEN Len(wire) + 1 ELSE Place + 1
  <2>1. Place' = Len(wire) + 1 - Len(text')
    BY <1>6 DEF Place
  <2>2. CASE text' = <<>>
    BY <1>5, <2>1, <2>2
  <2>3. CASE text' # <<>>
    <3>1. Len(text') = Len(text) - 1
      BY <1>6, <1>7, <2>3
    <3> DEFINE a == Len(text)
               b == Len(text')
               n == Len(wire)
               r == Place
               r2 == Place'
    <3>2. a = n + 1 - r /\ b = a - 1 /\ n \in Nat /\ r \in Nat /\ r2 = n + 1 - b
      BY <1>5, <1>7, <2>1, <3>1, Zenon
    <3> HIDE DEF a, b, n, r, r2
    <3>3. r2 = r + 1
      BY <3>2
    <3>4. QED
      BY <2>3, <3>3, Zenon DEF r, r2
  <2>4. QED
    BY <2>2, <2>3
<1>9. Knows(c, parser', strings', fields', message', wire', text', Place')
  BY <1>6, <1>7, <1>8, Zenon
<1>10. QED
  BY <1>3, <1>4, <1>6, <1>8, <1>9

(* A byte keeps the invariant. *)
LEMMA ParseByteKeeps ==
    ASSUME CodecInv, ParseByte
    PROVE  CodecInv'
<1>1. /\ Sound(parser) /\ (Stopped(parser) => text = <<>>)
      /\ Fielded(fields)
      /\ outcome # "none" => text = <<>>
      /\ outcome = "parsed" => ~Failed(parser)
      /\ \E sent, c : /\ Declared(sent, message, c)
                      /\ Knows(c, parser, strings, fields, message, wire, text, Place)
  BY CodecInvIs, Zenon
<1>2. PICK sent, c : Declared(sent, message, c) /\ Knows(c, parser, strings, fields, message, wire, text, Place)
  BY <1>1
<1>3. /\ text # <<>> /\ ~Stopped(parser)
      /\ Turn(parser, strings, fields, Head(text), Len(text), parser', strings', fields', text')
      /\ message' = message /\ wire' = wire /\ outcome' = outcome /\ outcome = "none"
      /\ Knows(c, parser', strings', fields', message', wire', text', Place')
  BY <1>1, <1>2, ByteTaken, Zenon
<1>4. Declared(sent, message', c) /\ Knows(c, parser', strings', fields', message', wire', text', Place')
  BY <1>2, <1>3, Zenon
<1>5. Sound(parser') /\ (Stopped(parser') => text' = <<>>)
  <2> DEFINE q == Read(parser, Head(text))
             last == Stopped(q) \/ Len(text) = 1
  <2>1. /\ parser' = IF last THEN BufferEnds(q) ELSE q
        /\ text' = IF last THEN <<>> ELSE Tail(text)
    BY DEF ParseByte, Byte
  <2>2. Sound(q)
    BY <1>1, <1>3, ReadStep DEF Step
  <2> HIDE DEF q
  <2>3. CASE last
    BY <2>1, <2>2, <2>3, BufferEndsSound
  <2>4. CASE ~last
    BY <2>1, <2>2, <2>4
  <2>5. QED
    BY <2>3, <2>4
<1>6. Fielded(fields')
  <2>1. \/ fields' = fields
        \/ fields' = FieldsAfter(parser, parser', strings, fields, Head(text))
    <3>1. CASE Failed(parser')
      BY <3>1 DEF ParseByte
    <3>2. CASE ~Failed(parser')
      BY <3>2, ParseByteIs, Zenon
    <3>3. QED
      BY <3>1, <3>2
  <2>2. QED
    BY <1>1, <2>1, FieldsAfterFielded, Zenon
<1>7. outcome' # "parsed" /\ outcome' = "none"
  BY <1>3
<1>8. QED
  BY <1>4, <1>5, <1>6, <1>7, CodecInvNext, Zenon

(* Neither the end of a parse nor the start of another disturbs it. *)
LEMMA TryResponseKeeps ==
    ASSUME CodecInv, TryResponse
    PROVE  CodecInv'
<1>1. \E sent, c : /\ Declared(sent, message, c)
                   /\ Knows(c, parser, strings, fields, message, wire, text, Place)
  BY CodecInvIs, Zenon
<1>2. PICK sent, c : Declared(sent, message, c) /\ Knows(c, parser, strings, fields, message, wire, text, Place)
  BY <1>1
<1>3. /\ Sendable(message) /\ c \in 0 .. MaxLength /\ Len(message.body) \in 0 .. c
      /\ wire = Bytes(message, c)
  BY <1>2, Zenon DEF Knows
<1>4. /\ parser' = BufferBegins(NewParser("HTTP_RESPONSE")) /\ strings' = NoStrings
      /\ fields' = NoFields /\ text' = Append(wire, NUL)
      /\ message' = message /\ wire' = wire /\ outcome' = outcome /\ outcome = "none"
  BY DEF TryResponse, Started
<1>5. /\ Sound(parser') /\ ~Stopped(parser')
      /\ Knows(c, parser', NoStrings, NoFields, message, wire, text', Len(wire) + 1 - Len(text'))
  BY <1>3, <1>4, NothingKnown
<1>6. Place' = Len(wire) + 1 - Len(text')
  BY <1>4 DEF Place
<1>7. Declared(sent, message', c) /\ Knows(c, parser', strings', fields', message', wire', text', Place')
  BY <1>2, <1>4, <1>5, <1>6, Zenon
<1>8. Fielded(fields')
  BY <1>4 DEF Fielded, NoFields
<1>9. outcome' = "none" /\ outcome' # "parsed"
  BY <1>4
<1>10. /\ Sound(parser') /\ (Stopped(parser') => text' = <<>>)
       /\ Fielded(fields')
       /\ outcome' # "none" => text' = <<>>
       /\ outcome' = "parsed" => ~Failed(parser')
       /\ \E s, k : /\ Declared(s, message', k)
                    /\ Knows(k, parser', strings', fields', message', wire', text', Place')
  BY <1>5, <1>7, <1>8, <1>9, Zenon
<1>11. QED
  BY <1>10, CodecInvNext, Zenon

(* The results and the second attempt keep it. *)
LEMMA ReturnsKeep ==
    ASSUME CodecInv, Return \/ Refuse \/ UNCHANGED codecVars
    PROVE  CodecInv'
<1>1. /\ Sound(parser) /\ (Stopped(parser) => text = <<>>)
      /\ Fielded(fields)
      /\ outcome # "none" => text = <<>>
      /\ outcome = "parsed" => ~Failed(parser)
      /\ \E sent, c : /\ Declared(sent, message, c)
                      /\ Knows(c, parser, strings, fields, message, wire, text, Place)
  BY CodecInvIs, Zenon
<1>2. /\ parser' = parser /\ text' = text /\ strings' = strings /\ fields' = fields
      /\ message' = message /\ wire' = wire
  BY DEF Return, Refuse, codecVars, vars
<1>3. (outcome' # "none" => text = <<>>) /\ (outcome' = "parsed" => ~Failed(parser))
  BY <1>1 DEF Return, Refuse, codecVars
<1>4. Place' = Place
  BY <1>2 DEF Place
<1>5. /\ Sound(parser') /\ (Stopped(parser') => text' = <<>>)
      /\ Fielded(fields')
      /\ outcome' # "none" => text' = <<>>
      /\ outcome' = "parsed" => ~Failed(parser')
      /\ \E s, k : /\ Declared(s, message', k)
                   /\ Knows(k, parser', strings', fields', message', wire', text', Place')
  BY <1>1, <1>2, <1>3, <1>4, Zenon
<1>6. QED
  BY <1>5, CodecInvNext, Zenon

(* The invariant is inductive. *)
LEMMA CodecNextKeeps == CodecInv /\ [CodecNext]_codecVars => CodecInv'
<1> SUFFICES ASSUME CodecInv, [CodecNext]_codecVars
             PROVE  CodecInv'
  OBVIOUS
<1>1. CASE ParseByte
  BY <1>1, ParseByteKeeps
<1>2. CASE TryResponse
  BY <1>2, TryResponseKeeps
<1>3. CASE Return \/ Refuse \/ UNCHANGED codecVars
  BY <1>3, ReturnsKeep
<1>4. QED
  BY <1>1, <1>2, <1>3 DEF CodecNext

(* At every byte of a message the parser of its type is where the byte before *)
(* it says, its strings and fields hold what has been read, or it has failed;  *)
(* and the other parser fails on one of the first two bytes.                   *)
THEOREM CodecInvariant == CodecSpec => []CodecInv
BY CodecInitKeeps, CodecNextKeeps, PTL DEF CodecSpec

(* What is read of a message. *)
LEMMA HeadersMeant ==
    ASSUME NEW m, Sendable(m), NEW c \in 0 .. MaxLength
    PROVE  Without(HeadersBefore(m, c, Count(m) + 1)) = Without(Expected(m).headers)
<1> DEFINE L  == Text("content-length")
           N  == 1 .. Len(m.headers)
           n(i) == tolower(m.headers[i][1])
           K  == KeptBefore(m, Count(m) + 1)
           H  == HeadersBefore(m, c, Count(m) + 1)
           E  == [name \in {n(i) : i \in N} |-> m.headers[CHOOSE i \in N : n(i) = name][2]]
<1>1. /\ Len(m.headers) \in Nat /\ Count(m) = Len(m.headers) + 1 /\ ~Skipped(m, Count(m))
      /\ Name(m, c, Count(m)) = L
      /\ \A i \in N : Name(m, c, i) = m.headers[i][1] /\ Value(m, c, i) = m.headers[i][2]
  BY HeadersAre DEF Count, LengthName
<1>2. tolower(L) = L
  BY LengthNameIs DEF LengthName
<1>3. \A i, k \in N : n(k) = n(i) => k = i
  BY DEF Sendable
<1>4. \A i \in N : Skipped(m, i) <=> n(i) = L
  BY <1>1 DEF Skipped
<1>5. K = {i \in N : n(i) # L} \cup {Count(m)}
  <2>1. K = {j \in 1 .. (Count(m) + 1) - 1 : ~Skipped(m, j)}
    BY DEF KeptBefore
  <2>2. 1 .. (Count(m) + 1) - 1 = N \cup {Count(m)}
    BY <1>1
  <2> HIDE DEF n, L, K, N
  <2>3. QED
    BY <1>1, <1>4, <2>1, <2>2
<1>6. Expected(m).headers = E
  BY DEF Expected, Sendable
<1>7. H = [name \in {tolower(Name(m, c, j)) : j \in K} |->
             Value(m, c, CHOOSE j \in K : tolower(Name(m, c, j)) = name)]
  BY DEF HeadersBefore
<1>8. Count(m) \notin N
  BY <1>1
<1>9. \A j \in N : tolower(Name(m, c, j)) = n(j)
  BY <1>1
<1>10. tolower(Name(m, c, Count(m))) = L
  BY <1>1, <1>2
<1> HIDE DEF H, K, N, n, L, E
<1>11. DOMAIN H \ {L} = DOMAIN E \ {L}
  <2>1. DOMAIN H = {tolower(Name(m, c, j)) : j \in K} /\ DOMAIN E = {n(i) : i \in N}
    BY <1>7 DEF E
  <2>2. ASSUME NEW x \in DOMAIN H, x # L
        PROVE  x \in DOMAIN E
    BY <1>5, <1>9, <1>10, <2>1, <2>2
  <2>3. ASSUME NEW x \in DOMAIN E, x # L
        PROVE  x \in DOMAIN H
    BY <1>5, <1>9, <2>1, <2>3
  <2>4. QED
    BY <2>2, <2>3
<1>12. ASSUME NEW x \in DOMAIN H \ {L}
       PROVE  H[x] = E[x]
  <2>1. PICK i \in N : n(i) = x
    BY <1>11, <1>12 DEF E
  <2>2. (CHOOSE k \in N : n(k) = x) = i
    BY <1>3, <2>1
  <2>3. E[x] = m.headers[i][2]
    BY <1>11, <1>12, <2>2 DEF E
  <2>4. i \in K /\ \A j \in K : tolower(Name(m, c, j)) = x => j = i
    BY <1>3, <1>5, <1>9, <1>10, <1>12, <2>1
  <2>5. tolower(Name(m, c, i)) = x
    BY <1>9, <2>1
  <2>6. (CHOOSE j \in K : tolower(Name(m, c, j)) = x) = i
    BY <2>4, <2>5
  <2>7. H[x] = Value(m, c, i)
    BY <1>7, <1>12, <2>6
  <2>8. QED
    BY <1>1, <2>3, <2>7
<1>13. Without(H) = [name \in DOMAIN H \ {L} |-> H[name]] /\ Without(E) = [name \in DOMAIN E \ {L} |-> E[name]]
  BY Zenon DEF Without, L
<1>14. Without(H) = Without(E)
  BY <1>11, <1>12, <1>13
<1>15. QED
  BY <1>6, <1>14, Zenon DEF H

(* The message that is made of what was read, when the text has been read. *)
LEMMA BodyMeant ==
    ASSUME NEW s \in Seq(STRING), NEW t, t = Append(s, NUL)
    PROVE  (IF t = <<>> THEN <<>> ELSE SubSeq(t, 1, Len(t) - 1)) = s
<1> DEFINE T == STRING \cup {NUL}
<1>1. s \in Seq(T) /\ NUL \in T
  BY SeqLarger
<1> HIDE DEF T
<1>2. t \in Seq(T) /\ Len(t) = Len(s) + 1 /\ t # <<>> /\ \A i \in 1 .. Len(s) : t[i] = s[i]
  BY <1>1
<1>3. Len(t) - 1 = Len(s) /\ Len(s) \in Nat
  BY <1>1, <1>2
<1>4. SubSeq(t, 1, Len(s)) = s
  BY <1>1, <1>2
<1>5. QED
  BY <1>2, <1>3, <1>4, Zenon

(* A text that has been read to its end was read as it was meant. *)
LEMMA EndedMeant ==
    ASSUME Sendable(message), NEW c \in 0 .. MaxLength, Ended(parser, fields, message, c)
    PROVE  AsMeant
<1> DEFINE m == message
           W == Without(Expected(m).headers)
           H == HeadersBefore(m, c, Count(m) + 1)
           g == [fields EXCEPT !.body = <<>>]
<1>1. Sendable(m) /\ c \in 0 .. MaxLength
  OBVIOUS
<1>2. Without(H) = W
  BY <1>1, HeadersMeant, Zenon
<1>3. /\ parser.type = m.type /\ Begun(parser, g, m) /\ fields.headers = H
      /\ fields.body = Append(m.body, NUL)
  BY ZenonT(40) DEF Ended
<1>4. m.body \in Seq(STRING) /\ m.type \in {"HTTP_REQUEST", "HTTP_RESPONSE"}
      /\ (m.type = "HTTP_REQUEST" => m.status = 0) /\ (m.type = "HTTP_RESPONSE" => m.method = "")
  BY <1>1 DEF Sendable
<1>5. g.url = fields.url /\ g.method = fields.method
  OBVIOUS
<1> HIDE DEF g
<1>6. /\ fields.url = m.path
      /\ m.type = "HTTP_REQUEST" => fields.method = m.method
      /\ m.type = "HTTP_RESPONSE" => parser.status_code = m.status
  BY <1>3, <1>5, Zenon DEF Begun
<1>7. (IF fields.body = <<>> THEN <<>> ELSE SubSeq(fields.body, 1, Len(fields.body) - 1)) = m.body
  BY <1>3, <1>4, BodyMeant, ZenonT(40)
<1>8. Parsed = [type |-> m.type, method |-> m.method, status |-> m.status, path |-> m.path,
                headers |-> H, body |-> m.body]
  <2>1. (IF parser.type = "HTTP_REQUEST" THEN fields.method ELSE "") = m.method
    BY <1>3, <1>4, <1>6
  <2>2. (IF parser.type = "HTTP_REQUEST" THEN 0 ELSE parser.status_code) = m.status
    BY <1>3, <1>4, <1>6
  <2>3. fields.url = m.path /\ fields.headers = H /\ parser.type = m.type
    BY <1>3, <1>6
  <2> HIDE DEF H
  <2>4. QED
    BY <1>7, <2>1, <2>2, <2>3, ZenonT(40) DEF Parsed
<1> HIDE DEF H
<1>9. [Parsed EXCEPT !.headers = Without(@)] =
        [type |-> m.type, method |-> m.method, status |-> m.status, path |-> m.path,
         headers |-> W, body |-> m.body]
  BY <1>2, <1>8
<1>10. [Expected(m) EXCEPT !.headers = Without(@)] =
         [type |-> m.type, method |-> m.method, status |-> m.status, path |-> m.path,
          headers |-> W, body |-> m.body]
  <2> DEFINE E == [name \in {tolower(m.headers[i][1]) : i \in 1 .. Len(m.headers)} |->
                     m.headers[CHOOSE i \in 1 .. Len(m.headers) : tolower(m.headers[i][1]) = name][2]]
  <2>1. Expected(m) = [m EXCEPT !.headers = E]
    BY ZenonT(40) DEF Expected
  <2>2. m = [type |-> m.type, method |-> m.method, status |-> m.status, path |-> m.path,
             headers |-> m.headers, body |-> m.body]
    BY <1>1 DEF Sendable
  <2> HIDE DEF E, m
  <2>3. Expected(m) = [type |-> m.type, method |-> m.method, status |-> m.status, path |-> m.path,
                       headers |-> E, body |-> m.body]
    BY <2>1, <2>2
  <2>4. Expected(m).headers = E
    BY <2>3
  <2>5. Without(E) = W
    BY <2>4
  <2> HIDE DEF W
  <2>6. QED
    BY <2>3, <2>5
<1>11. QED
  BY <1>9, <1>10, Zenon DEF AsMeant

(* The invariant leaves no message misread. *)
LEMMA NeverMisreadKept == CodecInv => NeverMisread
<1> SUFFICES ASSUME CodecInv, outcome = "parsed", ~parser.upgrade
             PROVE  AsMeant
  BY DEF NeverMisread
<1>1. /\ outcome # "none" => text = <<>>
      /\ outcome = "parsed" => ~Failed(parser)
      /\ \E sent, c : /\ Declared(sent, message, c)
                      /\ Knows(c, parser, strings, fields, message, wire, text, Place)
  BY CodecInvIs, Zenon
<1>2. text = <<>> /\ ~Failed(parser)
  BY <1>1
<1>3. PICK sent, c : Declared(sent, message, c) /\ Knows(c, parser, strings, fields, message, wire, text, Place)
  BY <1>1
<1>4. /\ Sendable(message) /\ c \in 0 .. MaxLength
      /\ Reached(parser, strings, fields, message, c, text, Place)
  BY <1>3, Zenon DEF Knows
<1>5. Ended(parser, fields, message, c)
  BY <1>2, <1>4, Zenon DEF Reached
<1>6. QED
  BY <1>4, <1>5, EndedMeant, Zenon

(* serialize, parse and parse_http: a message that is accepted, and in which    *)
(* nothing was upgraded, has the type, start line, headers and body that were  *)
(* meant, whatever length was declared and whatever the headers say.           *)
THEOREM ReadAsMeant == CodecSpec => []NeverMisread
BY CodecInvariant, NeverMisreadKept, PTL
=============================================================================
