---------------------------- MODULE RouterProofs ----------------------------
(***************************************************************************)
(* The properties of Router, for every set of routes, requests, callbacks  *)
(* and words that the assumptions on its constants allow.                  *)
(*                                                                         *)
(* The invariant is small: the answer in hand is a function of the request *)
(* and of the routes.  What the properties say is what the functions on    *)
(* texts do, and those are recursive: split and FlattenSeq run over a text *)
(* symbol by symbol, and a match over a regex.  What they do for every     *)
(* text is proved by induction, which is stated here for sets: a set that  *)
(* holds the empty text, and with a text the text with one more symbol,    *)
(* holds every text.                                                       *)
(***************************************************************************)
EXTENDS Router, FiniteSetTheorems, SequenceTheorems, TLAPS
-----------------------------------------------------------------------------
(* Induction. *)

(* A set of numbers that is not empty has a least one.  Induction over data   *)
(* is done with it: of the numbers for which something fails, the least one   *)
(* has a predecessor for which it holds.                                      *)
LEMMA Least ==
    ASSUME NEW A \in SUBSET Nat, A # {}
    PROVE  \E m \in A : \A n \in A : m <= n
<1> DEFINE Below(n) == 0 .. (n - 1)
           T == {Below(n) : n \in A}
<1>1. T \subseteq FiniteSubsetsOf(Nat)
  <2> SUFFICES ASSUME NEW n \in A
               PROVE  Below(n) \in SUBSET Nat /\ IsFiniteSet(Below(n))
    BY DEF FiniteSubsetsOf
  <2>1. n \in Nat /\ n - 1 \in Int
    OBVIOUS
  <2>2. QED
    BY <2>1, FS_Interval
<1>2. IsWellFoundedOn(StrictSubsetOrdering(Nat), FiniteSubsetsOf(Nat))
  BY FS_StrictSubsetOrderingWellFounded
<1>3. PICK x \in T : \A y \in T : <<y, x>> \notin StrictSubsetOrdering(Nat)
  <2>1. T # {}
    OBVIOUS
  <2> HIDE DEF T
  <2>2. QED
  BY <1>1, <1>2, <2>1, WFMin
<1>4. PICK m \in A : x = Below(m)
  OBVIOUS
<1>5. ASSUME NEW n \in A, n < m
      PROVE  FALSE
  <2>1. Below(n) \in T /\ Below(n) \subseteq Nat /\ Below(m) \subseteq Nat
    OBVIOUS
  <2>2. Below(n) \subseteq Below(m) /\ n \in Below(m) /\ n \notin Below(n)
    BY <1>5
  <2>3. <<Below(n), Below(m)>> \in StrictSubsetOrdering(Nat)
    <3> HIDE DEF Below
    <3> QED BY <2>1, <2>2 DEF StrictSubsetOrdering
  <2>4. QED
    BY <1>3, <1>4, <2>1, <2>3
<1>6. QED
  BY <1>5

(* Induction, as a fact about a set of numbers. *)
LEMMA Induction ==
    ASSUME NEW A, 0 \in A, \A n \in Nat : n \in A => n + 1 \in A
    PROVE  Nat \subseteq A
<1> SUFFICES ASSUME Nat \ A # {} PROVE FALSE
  OBVIOUS
<1>1. PICK m \in Nat \ A : \A n \in Nat \ A : m <= n
  BY Least
<1>2. m - 1 \in Nat
  BY <1>1
<1>3. m - 1 \in A
  BY <1>1, <1>2
<1>4. QED
  BY <1>1, <1>2, <1>3
-----------------------------------------------------------------------------
(* Recursive functions.  TLAPS knows of a recursive function that it is the   *)
(* one with certain values, if there is one.                                  *)

(* A function on 0 .. n by its value at 0 and its steps.                      *)
Steps(f, S, n, base, step) ==
    /\ f \in [0 .. n -> S] /\ f[0] = base
    /\ \A i \in 1 .. n : f[i] = step[<<i, f[i - 1]>>]

(* One more step. *)
LEMMA OneMore ==
    ASSUME NEW S, NEW n \in Nat, NEW base \in S, NEW step \in [(1 .. n) \X S -> S],
           NEW m \in Nat, m + 1 <= n, NEW f, Steps(f, S, m, base, step)
    PROVE  \E g : Steps(g, S, m + 1, base, step)
<1> DEFINE last == step[<<m + 1, f[m]>>]
           g == [i \in 0 .. (m + 1) |-> IF i = m + 1 THEN last ELSE f[i]]
<1>1. last \in S
  <2>1. f[m] \in S /\ m + 1 \in 1 .. n
    BY DEF Steps
  <2>2. QED
    BY <2>1
<1>2. \A i \in 0 .. m : g[i] = f[i] /\ f[i] \in S
  BY DEF Steps
<1>3. g[m + 1] = last /\ g[m] = f[m] /\ g[0] = base
  BY DEF Steps
<1>4. g \in [0 .. (m + 1) -> S]
  <2>1. \A i \in 0 .. (m + 1) : i = m + 1 \/ i \in 0 .. m
    OBVIOUS
  <2>2. \A i \in 0 .. (m + 1) : g[i] \in S
    <3> HIDE DEF g, last
    <3> QED BY <1>1, <1>2, <1>3, <2>1
  <2>3. QED
    BY <2>2
<1>5. ASSUME NEW i \in 1 .. (m + 1)
      PROVE  g[i] = step[<<i, g[i - 1]>>]
  <2>1. CASE i = m + 1
    <3>1. i - 1 = m
      BY <2>1
    <3> HIDE DEF g
    <3>2. QED
      BY <1>3, <2>1, <3>1
  <2>2. CASE i # m + 1
    <3>1. i \in 1 .. m /\ i \in 0 .. m /\ i - 1 \in 0 .. m
      BY <2>2
    <3>2. f[i] = step[<<i, f[i - 1]>>]
      BY <3>1 DEF Steps
    <3> HIDE DEF g
    <3>3. QED
      BY <1>2, <3>1, <3>2
  <2>3. QED
    BY <2>1, <2>2
<1> HIDE DEF g
<1>6. QED
  BY <1>3, <1>4, <1>5 DEF Steps

(* There is a function that takes these steps. *)
LEMMA Recursion ==
    ASSUME NEW S, NEW n \in Nat, NEW base \in S, NEW step \in [(1 .. n) \X S -> S]
    PROVE  \E f : Steps(f, S, n, base, step)
<1> DEFINE A == {m \in Nat : m <= n => \E f : Steps(f, S, m, base, step)}
<1>1. 0 \in A
  <2>1. Steps([i \in 0 .. 0 |-> base], S, 0, base, step)
    BY DEF Steps
  <2>2. QED
    BY <2>1
<1>2. ASSUME NEW m \in Nat, m \in A
      PROVE  m + 1 \in A
  <2>1. CASE m + 1 <= n
    <3>1. PICK f : Steps(f, S, m, base, step)
      BY <1>2, <2>1
    <3>2. QED
      BY <2>1, <3>1, OneMore
  <2>2. QED
    BY <2>1
<1>3. n \in A
  <2> HIDE DEF A
  <2> QED BY <1>1, <1>2, Induction
<1>4. QED
  BY <1>3
-----------------------------------------------------------------------------
(* split, symbol by symbol. *)

(* Lists of texts, at least one. *)
Texts(X) == Seq(Seq(X)) \ {<<>>}

(* What Append has put together, Front and Last take apart. *)
LEMMA FrontLast ==
    ASSUME NEW S, NEW f \in Seq(S), NEW e \in S
    PROVE  Front(Append(f, e)) = f /\ Last(Append(f, e)) = e
<1> DEFINE g == Append(f, e)
<1>1. g \in Seq(S) /\ Len(g) = Len(f) + 1 /\ g[Len(f) + 1] = e /\ \A i \in 1 .. Len(f) : g[i] = f[i]
  BY AppendProperties
<1>2. Len(f) \in Nat /\ Len(g) - 1 = Len(f)
  BY <1>1, LenProperties
<1>3. \A i \in 1 .. Len(f) : g[i] \in S
  BY <1>1, ElementOfSeq
<1> HIDE DEF g
<1>4. /\ SubSeq(g, 1, Len(f)) \in Seq(S) /\ Len(SubSeq(g, 1, Len(f))) = Len(f)
      /\ \A i \in 1 .. Len(f) : SubSeq(g, 1, Len(f))[i] = f[i]
  BY <1>1, <1>2, <1>3, SubSeqProperties
<1>5. SubSeq(g, 1, Len(f)) = f
  BY <1>4, SeqEqual
<1>6. QED
  BY <1>1, <1>2, <1>5 DEF Front, Last, g

(* Appending to what comes last of a concatenation. *)
LEMMA AppendAfter ==
    ASSUME NEW S, NEW a \in Seq(S), NEW b \in Seq(S), NEW x \in S
    PROVE  a \o Append(b, x) = Append(a \o b, x)
<1>1. <<x>> \in Seq(S) /\ a \o b \in Seq(S)
  BY ConcatProperties
<1>2. Append(b, x) = b \o <<x>> /\ Append(a \o b, x) = (a \o b) \o <<x>>
  BY <1>1, AppendIsConcat
<1>3. QED
  BY <1>1, <1>2, ConcatAssociative

(* A list of texts has a last one. *)
LEMMA TextsAppend ==
    ASSUME NEW X, NEW p \in Texts(X)
    PROVE  \E f \in Seq(Seq(X)), l \in Seq(X) : p = Append(f, l)
BY SequenceEmptyOrAppend DEF Texts

(* Appended to, a list has a text. *)
LEMMA AppendTexts ==
    ASSUME NEW X, NEW f \in Seq(Seq(X)), NEW l \in Seq(X)
    PROVE  Append(f, l) \in Texts(X)
BY AppendProperties DEF Texts

(* Longer, by the list's last text. *)
LEMMA LongerOfAppend ==
    ASSUME NEW X, NEW f \in Seq(Seq(X)), NEW l \in Seq(X), NEW x \in X, NEW d
    PROVE  /\ x = d => Longer(Append(f, l), x, d) = Append(Append(f, l), <<>>)
           /\ x # d => Longer(Append(f, l), x, d) = Append(f, Append(l, x))
<1>1. Front(Append(f, l)) = f /\ Last(Append(f, l)) = l
  BY FrontLast
<1>2. QED
  BY <1>1 DEF Longer

(* Longer makes a list of a list. *)
LEMMA LongerType ==
    ASSUME NEW X, NEW p \in Texts(X), NEW x \in X, NEW d
    PROVE  Longer(p, x, d) \in Texts(X)
<1>1. PICK f \in Seq(Seq(X)), l \in Seq(X) : p = Append(f, l)
  BY TextsAppend
<1>2. Append(f, l) \in Seq(Seq(X)) /\ <<>> \in Seq(X) /\ Append(l, x) \in Seq(X)
  BY AppendProperties
<1>3. /\ x = d => Longer(Append(f, l), x, d) = Append(Append(f, l), <<>>)
      /\ x # d => Longer(Append(f, l), x, d) = Append(f, Append(l, x))
  BY LongerOfAppend
<1>4. Append(Append(f, l), <<>>) \in Texts(X) /\ Append(f, Append(l, x)) \in Texts(X)
  BY <1>2, AppendTexts
<1>5. QED
  BY <1>1, <1>3, <1>4

(* Pieces by the symbols that are read. *)
Reads(f, s, d) == f = [i \in 0 .. Len(s) |-> IF i = 0 THEN << <<>> >> ELSE Longer(f[i - 1], s[i], d)]

(* The recursive function in Pieces exists, and Pieces is its last value. *)
LEMMA PiecesRead ==
    ASSUME NEW X, NEW s \in Seq(X), NEW d
    PROVE  \E f \in [0 .. Len(s) -> Texts(X)] : Reads(f, s, d) /\ Pieces(s, d) = f[Len(s)]
<1> DEFINE n == Len(s)
           step == [a \in (1 .. n) \X Texts(X) |-> Longer(a[2], s[a[1]], d)]
<1>1. step \in [(1 .. n) \X Texts(X) -> Texts(X)]
  BY LongerType
<1>2. << <<>> >> \in Texts(X)
  BY DEF Texts
<1>3. PICK g : Steps(g, Texts(X), n, << <<>> >>, step)
  <2>1. n \in Nat
    OBVIOUS
  <2> HIDE DEF step, n
  <2>2. QED
    BY <1>1, <1>2, <2>1, Recursion
<1>4. Reads(g, s, d)
  <2>1. ASSUME NEW i \in 1 .. n
        PROVE g[i] = Longer(g[i - 1], s[i], d)
    <3>1. i - 1 \in 0 .. n
      OBVIOUS
    <3>2. g[i - 1] \in Texts(X) /\ g[i] = step[<<i, g[i - 1]>>]
      <4> HIDE DEF n, step
      <4> QED BY <1>3, <3>1 DEF Steps
    <3>3. QED
      BY <3>2
  <2> HIDE DEF step
  <2>2. g = [i \in 0 .. Len(s) |-> g[i]] /\ g[0] = << <<>> >>
    BY <1>3 DEF Steps
  <2>3. QED
    BY <2>1, <2>2 DEF Reads
<1> DEFINE F == CHOOSE f : Reads(f, s, d)
<1>5. Reads(F, s, d)
  BY <1>4
<1>6. Pieces(s, d) = F[n]
  BY DEF Pieces, Reads
<1> HIDE DEF F
<1> DEFINE A == {i \in Nat : i <= n => F[i] \in Texts(X)}
<1>7. 0 \in A
  BY <1>2, <1>5 DEF Reads
<1>8. ASSUME NEW i \in Nat, i \in A
      PROVE  i + 1 \in A
  <2> SUFFICES ASSUME i + 1 <= n
               PROVE  F[i + 1] \in Texts(X)
    OBVIOUS
  <2>1. i + 1 \in 0 .. n /\ i + 1 # 0 /\ (i + 1) - 1 = i /\ s[i + 1] \in X
    OBVIOUS
  <2>2. F[i + 1] = Longer(F[i], s[i + 1], d)
    BY <1>5, <2>1 DEF Reads
  <2>3. F[i] \in Texts(X)
    BY <1>8
  <2>4. QED
    BY <2>1, <2>2, <2>3, LongerType
<1>9. \A i \in 0 .. n : F[i] \in Texts(X)
  <2>1. Nat \subseteq A
    <3> HIDE DEF A
    <3> QED BY <1>7, <1>8, Induction
  <2>2. QED
    BY <2>1
<1>10. F = [i \in 0 .. n |-> F[i]]
  BY <1>5 DEF Reads
<1>11. F \in [0 .. Len(s) -> Texts(X)]
  BY <1>9, <1>10
<1>12. QED
  BY <1>5, <1>6, <1>11

(* Pieces, symbol by symbol. *)
LEMMA PiecesNone ==
    ASSUME NEW d
    PROVE  Pieces(<<>>, d) = << <<>> >>
<1>1. PICK f : Reads(f, <<>>, d) /\ Pieces(<<>>, d) = f[Len(<<>>)]
  <2>1. <<>> \in Seq({})
    OBVIOUS
  <2>2. QED
    BY <2>1, PiecesRead
<1>2. QED
  BY <1>1 DEF Reads

(* Pieces by one more symbol. *)
LEMMA PiecesMore ==
    ASSUME NEW X, NEW s \in Seq(X), NEW x \in X, NEW d
    PROVE  /\ Pieces(s, d) \in Texts(X)
           /\ Pieces(Append(s, x), d) = Longer(Pieces(s, d), x, d)
<1> DEFINE n == Len(s)
           t == Append(s, x)
<1>1. t \in Seq(X) /\ Len(t) = n + 1 /\ t[n + 1] = x /\ \A i \in 1 .. n : t[i] = s[i]
  BY AppendProperties
<1>2. n \in Nat
  OBVIOUS
<1> HIDE DEF n, t
<1>3. PICK f \in [0 .. n -> Texts(X)] : Reads(f, s, d) /\ Pieces(s, d) = f[n]
  BY PiecesRead DEF n
<1>4. PICK g \in [0 .. n + 1 -> Texts(X)] : Reads(g, t, d) /\ Pieces(t, d) = g[n + 1]
  BY <1>1, PiecesRead
<1> DEFINE A == {i \in Nat : i <= n => g[i] = f[i]}
<1>5. 0 \in A
  BY <1>1, <1>2, <1>3, <1>4 DEF Reads, n
<1>6. ASSUME NEW i \in Nat, i \in A
      PROVE  i + 1 \in A
  <2> SUFFICES ASSUME i + 1 <= n
               PROVE  g[i + 1] = f[i + 1]
    OBVIOUS
  <2>1. i + 1 \in 1 .. n /\ i + 1 \in 0 .. n /\ i + 1 \in 0 .. n + 1 /\ (i + 1) - 1 = i /\ i + 1 # 0
    BY <1>2
  <2>2. f[i + 1] = Longer(f[i], s[i + 1], d)
    BY <1>3, <2>1 DEF Reads, n
  <2>3. g[i + 1] = Longer(g[i], t[i + 1], d)
    BY <1>1, <1>4, <2>1 DEF Reads
  <2>4. t[i + 1] = s[i + 1] /\ g[i] = f[i]
    BY <1>1, <1>2, <1>6, <2>1
  <2>5. QED
    BY <2>2, <2>3, <2>4
<1>7. n \in A
  <2> HIDE DEF A
  <2> QED BY <1>2, <1>5, <1>6, Induction
<1>8. g[n + 1] = Longer(g[n], x, d)
  <2>1. n + 1 \in 0 .. n + 1 /\ n + 1 # 0 /\ (n + 1) - 1 = n
    BY <1>2
  <2>2. QED
    BY <1>1, <1>4, <2>1 DEF Reads
<1>9. f[n] \in Texts(X)
  BY <1>2
<1>10. QED
  BY <1>2, <1>3, <1>4, <1>7, <1>8, <1>9 DEF t
(* Induction over sequences: what holds of the empty one, and of one with an  *)
(* element more whenever it holds without it, holds of all.                   *)
LEMMA SeqInduction ==
    ASSUME NEW X, NEW A, <<>> \in A,
           \A s \in Seq(X), x \in X : s \in A => Append(s, x) \in A
    PROVE  Seq(X) \subseteq A
<1> DEFINE N == {n \in Nat : \A s \in Seq(X) : Len(s) = n => s \in A}
<1>1. 0 \in N
  BY EmptySeq
<1>2. ASSUME NEW n \in Nat, n \in N
      PROVE  n + 1 \in N
  <2> SUFFICES ASSUME NEW t \in Seq(X), Len(t) = n + 1
               PROVE  t \in A
    OBVIOUS
  <2>1. t # <<>>
    BY EmptySeq
  <2>2. PICK s \in Seq(X), x \in X : t = Append(s, x)
    BY <2>1, SequenceEmptyOrAppend
  <2>3. Len(s) = n
    BY <2>2, AppendProperties
  <2>4. QED
    BY <1>2, <2>2, <2>3
<1>3. Nat \subseteq N
  <2> HIDE DEF N
  <2> QED BY <1>1, <1>2, Induction
<1>4. QED
  <2> SUFFICES ASSUME NEW s \in Seq(X)
               PROVE  s \in A
    OBVIOUS
  <2>1. Len(s) \in Nat
    BY LenProperties
  <2>2. QED
    BY <1>3, <2>1

(* Without a delimiter there is one piece. *)
LEMMA PiecesPlain ==
    ASSUME NEW X, NEW d, d \notin X, NEW s \in Seq(X)
    PROVE  Pieces(s, d) = <<s>>
<1> DEFINE A == {t \in Seq(X) : Pieces(t, d) = <<t>>}
<1>1. <<>> \in A
  BY PiecesNone
<1>2. ASSUME NEW t \in Seq(X), NEW x \in X, t \in A
      PROVE  Append(t, x) \in A
  <2>1. Pieces(Append(t, x), d) = Longer(<<t>>, x, d)
    BY <1>2, PiecesMore
  <2>2. Longer(<<t>>, x, d) = <<Append(t, x)>>
    <3> DEFINE none == <<>>
    <3>1. <<t>> = Append(none, t) /\ <<Append(t, x)>> = Append(none, Append(t, x))
          /\ none \in Seq(Seq(X)) /\ x # d
      OBVIOUS
    <3> HIDE DEF none
    <3>2. Longer(Append(none, t), x, d) = Append(none, Append(t, x))
      BY <3>1, LongerOfAppend, SMTT(30)
    <3>3. QED
      BY <3>1, <3>2
  <2>3. Append(t, x) \in Seq(X)
    OBVIOUS
  <2>4. QED
    BY <2>1, <2>2, <2>3
<1>3. Seq(X) \subseteq A
  <2> HIDE DEF A
  <2> QED BY <1>1, <1>2, SeqInduction
<1>4. QED
  BY <1>3

(* Longer leaves the texts before the last as they are. *)
LEMMA LongerAfter ==
    ASSUME NEW X, NEW p \in Texts(X), NEW q \in Texts(X), NEW x \in X, NEW d
    PROVE  Longer(p \o q, x, d) = p \o Longer(q, x, d)
<1>1. PICK f \in Seq(Seq(X)), l \in Seq(X) : q = Append(f, l)
  BY TextsAppend
<1>2. p \in Seq(Seq(X)) /\ p \o f \in Seq(Seq(X)) /\ <<>> \in Seq(X) /\ Append(l, x) \in Seq(X)
  BY AppendProperties, ConcatProperties DEF Texts
<1>3. p \o q = Append(p \o f, l)
  BY <1>1, <1>2, AppendAfter
<1> DEFINE g == p \o f
<1>4. CASE x = d
  <2>1. p \o Append(q, <<>>) = Append(p \o q, <<>>)
    BY <1>2, AppendAfter DEF Texts
  <2>2. QED
    BY <1>4, <2>1 DEF Longer
<1>5. CASE x # d
  <2>1. Longer(Append(g, l), x, d) = Append(g, Append(l, x))
    <3>1. g \in Seq(Seq(X))
      BY <1>2
    <3> HIDE DEF g
    <3>2. QED
      BY <1>5, <3>1, LongerOfAppend
  <2>2. Longer(Append(f, l), x, d) = Append(f, Append(l, x))
    BY <1>5, LongerOfAppend
  <2>3. p \o Append(f, Append(l, x)) = Append(g, Append(l, x))
    BY <1>2, AppendAfter, SMTT(30)
  <2>4. QED
    BY <1>1, <1>3, <2>1, <2>2, <2>3
<1>6. QED
  BY <1>4, <1>5

(* A delimiter separates the pieces before it from those that follow. *)
LEMMA PiecesCut ==
    ASSUME NEW X, NEW d \in X, NEW a \in Seq(X), NEW b \in Seq(X)
    PROVE  Pieces((a \o <<d>>) \o b, d) = Pieces(a, d) \o Pieces(b, d)
<1> DEFINE c == a \o <<d>>
           A == {t \in Seq(X) : Pieces(c \o t, d) = Pieces(a, d) \o Pieces(t, d)}
<1>0. c \in Seq(X) /\ c = Append(a, d)
  BY AppendIsConcat, AppendProperties
<1>1. <<>> \in A
  <2>1. c \o <<>> = Append(a, d)
    BY <1>0, ConcatEmptySeq
  <2>2. Pieces(Append(a, d), d) = Append(Pieces(a, d), <<>>) /\ Pieces(a, d) \in Texts(X)
    BY PiecesMore DEF Longer
  <2>3. Append(Pieces(a, d), <<>>) = Pieces(a, d) \o << <<>> >>
    <3>1. Pieces(a, d) \in Seq(Seq(X)) /\ <<>> \in Seq(X)
      BY <2>2 DEF Texts
    <3>2. QED
      BY <3>1, AppendIsConcat
  <2>4. <<>> \in Seq(X)
    OBVIOUS
  <2> HIDE DEF c
  <2>5. QED
    BY <2>1, <2>2, <2>3, <2>4, PiecesNone
<1>2. ASSUME NEW t \in Seq(X), NEW x \in X, t \in A
      PROVE  Append(t, x) \in A
  <2>9. Pieces(c \o t, d) = Pieces(a, d) \o Pieces(t, d)
    BY <1>2
  <2> HIDE DEF c, A
  <2>1. c \o Append(t, x) = Append(c \o t, x)
    BY <1>0, AppendAfter
  <2>0. c \o t \in Seq(X)
    BY <1>0, ConcatProperties
  <2>2. Pieces(Append(c \o t, x), d) = Longer(Pieces(c \o t, d), x, d)
    <3> DEFINE u == c \o t
    <3> HIDE DEF u
    <3>1. u \in Seq(X)
      BY <2>0 DEF u
    <3>2. Pieces(Append(u, x), d) = Longer(Pieces(u, d), x, d)
      BY <3>1, PiecesMore
    <3>3. QED
      BY <3>2 DEF u
  <2>4. Pieces(a, d) \in Texts(X) /\ Pieces(t, d) \in Texts(X)
    BY PiecesMore
  <2>5. Longer(Pieces(a, d) \o Pieces(t, d), x, d) = Pieces(a, d) \o Longer(Pieces(t, d), x, d)
    BY <2>4, LongerAfter
  <2>6. Pieces(Append(t, x), d) = Longer(Pieces(t, d), x, d)
    BY PiecesMore
  <2>7. Append(t, x) \in Seq(X)
    BY AppendProperties
  <2>8. QED
    BY <2>1, <2>2, <2>9, <2>5, <2>6, <2>7 DEF A
<1>3. Seq(X) \subseteq A
  <2> HIDE DEF A
  <2> QED BY <1>1, <1>2, SeqInduction
<1>4. QED
  BY <1>3
(* split is Pieces without a last one that is empty. *)
Trim(p) == IF Last(p) = <<>> THEN Front(p) ELSE p

(* split, by Trim. *)
LEMMA SplitTrims ==
    ASSUME NEW s, NEW d
    PROVE  split(s, d) = Trim(Pieces(s, d))
BY DEF split, Trim

(* Trim, by the list's last text. *)
LEMMA TrimAppend ==
    ASSUME NEW X, NEW f \in Seq(Seq(X)), NEW l \in Seq(X)
    PROVE  /\ l = <<>> => Trim(Append(f, l)) = f
           /\ l # <<>> => Trim(Append(f, l)) = Append(f, l)
<1>1. Front(Append(f, l)) = f /\ Last(Append(f, l)) = l
  BY FrontLast
<1>2. QED
  BY <1>1 DEF Trim

(* Trim takes one text away at most. *)
LEMMA TrimType ==
    ASSUME NEW X, NEW p \in Texts(X)
    PROVE  Trim(p) \in Seq(Seq(X)) /\ Len(Trim(p)) <= Len(p) /\ Len(p) <= Len(Trim(p)) + 1
<1>1. PICK f \in Seq(Seq(X)), l \in Seq(X) : p = Append(f, l)
  BY TextsAppend
<1>2. p \in Seq(Seq(X)) /\ Len(p) = Len(f) + 1 /\ Len(f) \in Nat
  BY <1>1, AppendProperties, LenProperties
<1>3. Trim(p) = f \/ Trim(p) = p
  BY <1>1, TrimAppend
<1>4. QED
  <2>1. CASE Trim(p) = f
    BY <1>2, <2>1
  <2>2. CASE Trim(p) = p
    BY <1>2, <2>2
  <2>3. QED
    BY <1>3, <2>1, <2>2

(* Trim leaves the texts before the last as they are. *)
LEMMA TrimAfter ==
    ASSUME NEW X, NEW p \in Texts(X), NEW q \in Texts(X)
    PROVE  Trim(p \o q) = p \o Trim(q)
<1>1. PICK f \in Seq(Seq(X)), l \in Seq(X) : q = Append(f, l)
  BY TextsAppend
<1> DEFINE g == p \o f
<1>2. g \in Seq(Seq(X)) /\ p \o q = Append(g, l)
  <2>1. p \in Seq(Seq(X))
    BY DEF Texts
  <2>2. QED
    BY <1>1, <2>1, ConcatProperties, AppendAfter, SMTT(30)
<1>3. /\ l = <<>> => Trim(Append(f, l)) = f
      /\ l # <<>> => Trim(Append(f, l)) = Append(f, l)
  BY TrimAppend
<1>4. /\ l = <<>> => Trim(Append(g, l)) = g
      /\ l # <<>> => Trim(Append(g, l)) = Append(g, l)
  <2> HIDE DEF g
  <2> QED BY <1>2, TrimAppend
<1>5. QED
  BY <1>1, <1>2, <1>3, <1>4

(* split makes a list of texts. *)
LEMMA SplitType ==
    ASSUME NEW X, NEW s \in Seq(X), NEW d
    PROVE  split(s, d) \in Seq(Seq(X)) /\ Pieces(s, d) \in Texts(X)
           /\ (X # {} => Pieces(s, d) \in Texts(X))
<1>1. Pieces(s, d) \in Texts(X)
  BY PiecesRead
<1>2. QED
  BY <1>1, SplitTrims, TrimType

(* A delimiter separates: the pieces before it, and then those that split     *)
(* finds after it.                                                            *)
LEMMA SplitCut ==
    ASSUME NEW X, NEW d \in X, NEW a \in Seq(X), NEW b \in Seq(X)
    PROVE  split((a \o <<d>>) \o b, d) = Pieces(a, d) \o split(b, d)
<1>1. Pieces(a, d) \in Texts(X) /\ Pieces(b, d) \in Texts(X)
  BY SplitType
<1>2. Trim(Pieces(a, d) \o Pieces(b, d)) = Pieces(a, d) \o Trim(Pieces(b, d))
  BY <1>1, TrimAfter
<1>3. QED
  BY <1>2, PiecesCut, SplitTrims

(* A text without the delimiter is one piece, or none when it is empty. *)
LEMMA SplitPlain ==
    ASSUME NEW X, NEW d, d \notin X, NEW s \in Seq(X)
    PROVE  split(s, d) = IF s = <<>> THEN <<>> ELSE <<s>>
<1>1. split(s, d) = Trim(<<s>>)
  BY PiecesPlain, SplitTrims
<1>2. Last(<<s>>) = s /\ Front(<<s>>) = <<>>
  BY DEF Last, Front
<1>3. QED
  BY <1>1, <1>2 DEF Trim

(* No piece holds the delimiter. *)
LEMMA PiecesWithin ==
    ASSUME NEW X, NEW d, NEW s \in Seq(X)
    PROVE  Pieces(s, d) \in Texts(X \ {d}) /\ split(s, d) \in Seq(Seq(X \ {d}))
<1> DEFINE W == X \ {d}
           A == {t \in Seq(X) : Pieces(t, d) \in Texts(W)}
<1>1. <<>> \in A
  <2>1. << <<>> >> \in Texts(W) /\ <<>> \in Seq(X)
    BY DEF Texts
  <2> HIDE DEF W
  <2>2. QED
    BY <2>1, PiecesNone
<1>2. ASSUME NEW t \in Seq(X), NEW x \in X, t \in A
      PROVE  Append(t, x) \in A
  <2>1. Pieces(Append(t, x), d) = Longer(Pieces(t, d), x, d) /\ Append(t, x) \in Seq(X)
    BY PiecesMore, AppendProperties
  <2>2. Pieces(t, d) \in Texts(W)
    BY <1>2
  <2>3. CASE x = d
    <3>1. Append(Pieces(t, d), <<>>) \in Texts(W)
      <4> HIDE DEF W
      <4>1. Pieces(t, d) \in Seq(Seq(W)) /\ <<>> \in Seq(W)
        BY <2>2 DEF Texts
      <4>2. QED
        BY <4>1, AppendTexts
    <3>2. QED
      BY <2>1, <2>3, <3>1 DEF Longer
  <2>4. CASE x # d
    <3>1. x \in W
      BY <2>4
    <3> HIDE DEF W
    <3>2. Longer(Pieces(t, d), x, d) \in Texts(W)
      BY <2>2, <3>1, LongerType
    <3>3. QED
      BY <2>1, <3>2
  <2>5. QED
    BY <2>3, <2>4
<1>3. Seq(X) \subseteq A
  <2> HIDE DEF A
  <2> QED BY <1>1, <1>2, SeqInduction
<1>4. Pieces(s, d) \in Texts(W)
  BY <1>3
<1> HIDE DEF W
<1>5. Trim(Pieces(s, d)) \in Seq(Seq(W))
  BY <1>4, TrimType
<1>6. QED
  BY <1>4, <1>5, SplitTrims DEF W

(* A longer text has as many pieces, or more. *)
LEMMA SplitGrows ==
    ASSUME NEW X, NEW d \in X, NEW a \in Seq(X), NEW b \in Seq(X)
    PROVE  Len(split(a, d)) <= Len(split(a \o b, d))
<1> DEFINE A == {t \in Seq(X) : Len(split(a, d)) <= Len(split(a \o t, d))}
<1>1. <<>> \in A
  <2>1. a \o <<>> = a /\ <<>> \in Seq(X) /\ Len(split(a, d)) \in Nat
    BY ConcatEmptySeq, SplitType, LenProperties
  <2>2. QED
    BY <2>1
<1>2. ASSUME NEW t \in Seq(X), NEW x \in X, t \in A
      PROVE  Append(t, x) \in A
  <2> DEFINE u == a \o t
  <2>1. u \in Seq(X) /\ a \o Append(t, x) = Append(u, x) /\ Append(t, x) \in Seq(X)
    BY ConcatProperties, AppendAfter, AppendProperties
  <2>2. Len(split(a, d)) <= Len(split(u, d))
    BY <1>2
  <2> HIDE DEF u, A
  <2>3. PICK f \in Seq(Seq(X)), l \in Seq(X) : Pieces(u, d) = Append(f, l)
    BY <2>1, SplitType, TextsAppend
  <2> DEFINE p == Append(f, l)
             m == Append(l, x)
  <2>4. /\ Len(f) \in Nat /\ <<>> \in Seq(X)
        /\ p \in Seq(Seq(X)) /\ Len(p) = Len(f) + 1
        /\ m \in Seq(X) /\ m # <<>>
    BY AppendProperties, LenProperties
  <2>5. Len(split(u, d)) <= Len(f) + 1
    <3>1. Trim(p) = f \/ Trim(p) = p
      BY TrimAppend
    <3> HIDE DEF p
    <3>2. CASE Trim(p) = f
      <4>1. split(u, d) = f
        BY <2>3, <3>2, SplitTrims DEF p
      <4>2. QED
        BY <2>4, <4>1
    <3>3. CASE Trim(p) = p
      <4>1. split(u, d) = p
        BY <2>3, <3>3, SplitTrims DEF p
      <4>2. QED
        BY <2>4, <4>1
    <3>4. QED
      BY <3>1, <3>2, <3>3
  <2>6. Len(split(Append(u, x), d)) = Len(f) + 1
    <3>1. Pieces(Append(u, x), d) = Longer(Append(f, l), x, d)
      <4>1. u \in Seq(X)
        BY <2>1
      <4>2. Pieces(Append(u, x), d) = Longer(Pieces(u, d), x, d)
        BY <4>1, PiecesMore
      <4>3. QED
        BY <2>3, <4>2
    <3>2. /\ x = d => Longer(Append(f, l), x, d) = Append(p, <<>>)
          /\ x # d => Longer(Append(f, l), x, d) = Append(f, m)
      BY LongerOfAppend
    <3> HIDE DEF p, m
    <3>3. Trim(Append(p, <<>>)) = p
      BY <2>4, TrimAppend
    <3>4. Trim(Append(f, m)) = Append(f, m) /\ Len(Append(f, m)) = Len(f) + 1
      BY <2>4, TrimAppend, AppendProperties
    <3>5. CASE x = d
      <4>1. split(Append(u, x), d) = p
        BY <3>1, <3>2, <3>3, <3>5, SplitTrims
      <4>2. QED
        BY <2>4, <4>1
    <3>6. CASE x # d
      <4>1. split(Append(u, x), d) = Append(f, m)
        BY <3>1, <3>2, <3>4, <3>6, SplitTrims
      <4>2. QED
        BY <3>4, <4>1
    <3>7. QED
      BY <3>5, <3>6
  <2>7. Len(split(a, d)) \in Nat /\ Len(split(u, d)) \in Nat
    BY <2>1, SplitType, LenProperties
  <2>8. Len(split(a, d)) <= Len(split(Append(u, x), d))
    BY <2>2, <2>4, <2>5, <2>6, <2>7
  <2>9. QED
    BY <2>1, <2>8 DEF A
<1>3. Seq(X) \subseteq A
  <2> HIDE DEF A
  <2> QED BY <1>1, <1>2, SeqInduction
<1>4. QED
  BY <1>3
-----------------------------------------------------------------------------
(* FlattenSeq, text by text. *)

(* Texts that are joined, one by one. *)
Joins(f, ss) == f = [i \in 1 .. Len(ss) |-> IF i = 1 THEN ss[i] ELSE f[i - 1] \o ss[i]]

(* The recursive function in FlattenSeq exists, and FlattenSeq is its last    *)
(* value.                                                                     *)
LEMMA FlattenJoins ==
    ASSUME NEW X, NEW ss \in Seq(Seq(X))
    PROVE  \E f \in [1 .. Len(ss) -> Seq(X)] :
              Joins(f, ss) /\ (ss # <<>> => FlattenSeq(ss) = f[Len(ss)])
<1> DEFINE n == Len(ss)
           step == [a \in (1 .. n) \X Seq(X) |-> a[2] \o ss[a[1]]]
<1>1. step \in [(1 .. n) \X Seq(X) -> Seq(X)]
  <2>1. \A a \in (1 .. n) \X Seq(X) : a[2] \o ss[a[1]] \in Seq(X)
    <3> SUFFICES ASSUME NEW i \in 1 .. n, NEW t \in Seq(X)
                 PROVE  t \o ss[i] \in Seq(X)
      OBVIOUS
    <3>1. ss[i] \in Seq(X)
      BY ElementOfSeq
    <3>2. QED
      BY <3>1, ConcatProperties
  <2>2. QED
    BY <2>1
<1>2. <<>> \in Seq(X) /\ n \in Nat
  OBVIOUS
<1>3. PICK g : Steps(g, Seq(X), n, <<>>, step)
  <2> HIDE DEF step, n
  <2> QED BY <1>1, <1>2, Recursion
<1> DEFINE h == [i \in 1 .. n |-> g[i]]
<1>4. \A i \in 0 .. n : g[i] \in Seq(X)
  <2> HIDE DEF n, step
  <2> QED BY <1>3 DEF Steps
<1>5. \A i \in 1 .. n : g[i] = g[i - 1] \o ss[i]
  <2> SUFFICES ASSUME NEW i \in 1 .. n
               PROVE  g[i] = g[i - 1] \o ss[i]
    OBVIOUS
  <2>1. i - 1 \in 0 .. n /\ g[i - 1] \in Seq(X)
    BY <1>4
  <2>2. g[i] = step[<<i, g[i - 1]>>]
    <3> HIDE DEF step, n
    <3> QED BY <1>3 DEF Steps
  <2>3. QED
    BY <2>1, <2>2
<1>6. \A i \in 1 .. n : h[i] = IF i = 1 THEN ss[i] ELSE h[i - 1] \o ss[i]
  <2> SUFFICES ASSUME NEW i \in 1 .. n
               PROVE  g[i] = IF i = 1 THEN ss[i] ELSE h[i - 1] \o ss[i]
    OBVIOUS
  <2>1. CASE i = 1
    <3>1. g[0] = <<>>
      BY <1>3 DEF Steps
    <3>2. ss[i] \in Seq(X)
      BY ElementOfSeq
    <3>3. <<>> \o ss[i] = ss[i]
      BY <3>2, ConcatEmptySeq
    <3>4. g[i] = g[i - 1] \o ss[i]
      BY <1>5
    <3>7. i - 1 = 0
      BY <2>1
    <3>5. g[i] = ss[i]
      <4> HIDE DEF n, step, h
      <4> QED BY <3>1, <3>3, <3>4, <3>7
    <3>6. QED
      BY <2>1, <3>5
  <2>2. CASE i # 1
    <3>1. i - 1 \in 1 .. n
      BY <2>2
    <3>2. h[i - 1] = g[i - 1]
      BY <3>1
    <3>3. QED
      BY <1>5, <2>2, <3>2
  <2>3. QED
    BY <2>1, <2>2
<1>7. Joins(h, ss)
  <2>1. h = [i \in 1 .. n |-> h[i]]
    OBVIOUS
  <2> HIDE DEF h
  <2>2. QED
    BY <1>6, <2>1 DEF Joins
<1> DEFINE F == CHOOSE f : Joins(f, ss)
<1>8. Joins(F, ss)
  BY <1>7
<1>9. ss # <<>> => FlattenSeq(ss) = F[n]
  <2>1. ss # <<>> => Len(ss) # 0
    BY EmptySeq
  <2>2. QED
    BY <2>1 DEF FlattenSeq, Joins
<1> HIDE DEF F
<1> DEFINE A == {i \in Nat : i + 1 <= n => F[i + 1] \in Seq(X)}
<1>10. 0 \in A
  <2> SUFFICES ASSUME 1 <= n
               PROVE  F[1] \in Seq(X)
    OBVIOUS
  <2>1. 1 \in 1 .. n
    BY <1>2
  <2>2. F[1] = ss[1] /\ ss[1] \in Seq(X)
    BY <1>8, <2>1, ElementOfSeq DEF Joins
  <2>3. QED
    BY <2>2
<1>11. ASSUME NEW i \in Nat, i \in A
       PROVE  i + 1 \in A
  <2> SUFFICES ASSUME (i + 1) + 1 <= n
               PROVE  F[(i + 1) + 1] \in Seq(X)
    OBVIOUS
  <2> DEFINE j == (i + 1) + 1
  <2>1. j \in 1 .. n /\ j # 1 /\ j - 1 = i + 1
    BY <1>2
  <2>2. F[i + 1] \in Seq(X)
    BY <1>2, <1>11
  <2> HIDE DEF j
  <2>3. F[j] = F[i + 1] \o ss[j] /\ ss[j] \in Seq(X)
    BY <1>8, <2>1, ElementOfSeq DEF Joins
  <2>4. F[j] \in Seq(X)
    BY <2>2, <2>3, ConcatProperties
  <2>5. QED
    BY <2>4 DEF j
<1>12. \A i \in 1 .. n : F[i] \in Seq(X)
  <2>1. Nat \subseteq A
    <3> HIDE DEF A
    <3> QED BY <1>10, <1>11, Induction
  <2> SUFFICES ASSUME NEW i \in 1 .. n
               PROVE  F[i] \in Seq(X)
    OBVIOUS
  <2>2. i - 1 \in A /\ (i - 1) + 1 = i
    <3>1. i - 1 \in Nat /\ (i - 1) + 1 = i
      OBVIOUS
    <3> HIDE DEF A
    <3>2. QED
      BY <2>1, <3>1
  <2>3. QED
    BY <1>2, <2>2
<1>13. F \in [1 .. Len(ss) -> Seq(X)]
  <2>1. F = [i \in 1 .. n |-> F[i]]
    BY <1>8 DEF Joins
  <2>2. QED
    BY <1>12, <2>1
<1>14. QED
  BY <1>8, <1>9, <1>13

(* FlattenSeq of no texts. *)
LEMMA FlattenNone == FlattenSeq(<<>>) = <<>>
BY DEF FlattenSeq

(* FlattenSeq makes a text. *)
LEMMA FlattenType ==
    ASSUME NEW X, NEW ss \in Seq(Seq(X))
    PROVE  FlattenSeq(ss) \in Seq(X)
<1>1. CASE ss = <<>>
  <2>1. FlattenSeq(ss) = <<>>
    BY <1>1, FlattenNone
  <2>2. <<>> \in Seq(X)
    OBVIOUS
  <2>3. QED
    BY <2>1, <2>2
<1>2. CASE ss # <<>>
  <2>1. PICK f \in [1 .. Len(ss) -> Seq(X)] : FlattenSeq(ss) = f[Len(ss)]
    BY <1>2, FlattenJoins
  <2>2. Len(ss) \in 1 .. Len(ss)
    BY <1>2, EmptySeq
  <2>3. f[Len(ss)] \in Seq(X)
    <3> DEFINE m == Len(ss)
    <3> HIDE DEF m
    <3>1. f \in [1 .. m -> Seq(X)] /\ m \in 1 .. m
      BY <2>1, <2>2 DEF m
    <3>2. f[m] \in Seq(X)
      BY <3>1
    <3>3. QED
      BY <3>2 DEF m
  <2>4. QED
    BY <2>1, <2>3
<1>3. QED
  BY <1>1, <1>2

(* FlattenSeq by one more text. *)
LEMMA FlattenMore ==
    ASSUME NEW X, NEW ss \in Seq(Seq(X)), NEW w \in Seq(X)
    PROVE  FlattenSeq(Append(ss, w)) = FlattenSeq(ss) \o w
<1> DEFINE n == Len(ss)
           tt == Append(ss, w)
<1>1. /\ tt \in Seq(Seq(X)) /\ tt # <<>> /\ Len(tt) = n + 1 /\ tt[n + 1] = w
      /\ \A i \in 1 .. n : tt[i] = ss[i]
  BY AppendProperties
<1>2. n \in Nat
  OBVIOUS
<1> HIDE DEF tt, n
<1>3. PICK g \in [1 .. n + 1 -> Seq(X)] : Joins(g, tt) /\ FlattenSeq(tt) = g[n + 1]
  BY <1>1, FlattenJoins
<1>4. CASE ss = <<>>
  <2>1. n = 0
    BY <1>4 DEF n
  <2>2. g[1] = tt[1]
    BY <1>1, <1>3, <2>1 DEF Joins
  <2>3. FlattenSeq(tt) = w
    BY <1>1, <1>3, <2>1, <2>2
  <2>4. <<>> \o w = w
    BY ConcatEmptySeq
  <2>5. QED
    BY <1>4, <2>3, <2>4, FlattenNone DEF tt
<1>5. CASE ss # <<>>
  <2>1. PICK f \in [1 .. n -> Seq(X)] : Joins(f, ss) /\ FlattenSeq(ss) = f[n]
    BY <1>5, FlattenJoins DEF n
  <2>2. n \in 1 .. n
    BY <1>5, EmptySeq DEF n
  <2> DEFINE A == {i \in Nat : i + 1 <= n => g[i + 1] = f[i + 1]}
  <2>3. 0 \in A
    <3>1. 1 \in 1 .. n /\ 1 \in 1 .. n + 1
      BY <2>2
    <3>2. f[1] = ss[1] /\ g[1] = tt[1]
      BY <1>1, <1>3, <2>1, <3>1 DEF Joins, n
    <3>3. QED
      BY <1>1, <3>1, <3>2
  <2>4. ASSUME NEW i \in Nat, i \in A
        PROVE  i + 1 \in A
    <3> SUFFICES ASSUME (i + 1) + 1 <= n
                 PROVE  g[(i + 1) + 1] = f[(i + 1) + 1]
      OBVIOUS
    <3> DEFINE j == (i + 1) + 1
    <3>1. j \in 1 .. n /\ j \in 1 .. n + 1 /\ j # 1 /\ j - 1 = i + 1
      BY <1>2
    <3>2. g[i + 1] = f[i + 1]
      BY <1>2, <2>4
    <3> HIDE DEF j
    <3>3. f[j] = f[i + 1] \o ss[j]
      BY <2>1, <3>1 DEF Joins, n
    <3>4. g[j] = g[i + 1] \o tt[j]
      BY <1>1, <1>3, <3>1 DEF Joins
    <3>5. g[j] = f[j]
      BY <1>1, <3>1, <3>2, <3>3, <3>4
    <3>6. QED
      BY <3>5 DEF j
  <2>5. g[n] = f[n]
    <3>1. n - 1 \in A
      <4>1. n - 1 \in Nat
        BY <2>2
      <4> HIDE DEF A
      <4>2. QED
        BY <2>3, <2>4, <4>1, Induction
    <3>2. (n - 1) + 1 = n /\ n <= n
      BY <1>2
    <3>3. QED
      BY <3>1, <3>2
  <2>6. g[n + 1] = g[n] \o w
    <3>1. n + 1 \in 1 .. n + 1 /\ n + 1 # 1 /\ (n + 1) - 1 = n
      BY <1>2, <2>2
    <3>2. QED
      BY <1>1, <1>3, <3>1 DEF Joins
  <2>7. QED
    BY <1>3, <2>1, <2>5, <2>6 DEF tt
<1>6. QED
  BY <1>4, <1>5

(* The least of a set of positions. *)
LEMMA LeastIsMin ==
    ASSUME NEW A \in SUBSET Nat, NEW m \in A, \A n \in A : m <= n
    PROVE  Min(A) = m
<1>1. \A k \in A : (\A n \in A : k <= n) => k = m
  <2> SUFFICES ASSUME NEW k \in A, \A n \in A : k <= n
               PROVE  k = m
    OBVIOUS
  <2>1. k <= m /\ m <= k /\ k \in Nat /\ m \in Nat
    OBVIOUS
  <2>2. QED
    BY <2>1
<1>2. Min(A) \in A /\ \A n \in A : Min(A) <= n
  BY DEF Min
<1>3. QED
  BY <1>1, <1>2
-----------------------------------------------------------------------------
(* What comes before the first of a symbol. *)

(* A text holds no d, or it has a first one. *)
CutAt(X, d, s) == \/ s \in Seq(X \ {d})
                  \/ \E a \in Seq(X \ {d}), b \in Seq(X) : s = (a \o <<d>>) \o b

(* Every text is one of the two. *)
LEMMA FirstCut ==
    ASSUME NEW X, NEW d \in X, NEW s \in Seq(X)
    PROVE  CutAt(X, d, s)
<1> DEFINE W == X \ {d}
           Found(t) == \E a \in Seq(W), b \in Seq(X) : t = (a \o <<d>>) \o b
           A == {t \in Seq(X) : t \in Seq(W) \/ Found(t)}
<1>1. <<>> \in A
  OBVIOUS
<1> HIDE DEF Found
<1>2. ASSUME NEW t \in Seq(X), NEW x \in X, t \in A
      PROVE  Append(t, x) \in A
  <2>1. Append(t, x) \in Seq(X)
    BY AppendProperties
  <2>2. CASE t \in Seq(W) /\ x # d
    <3>1. Append(t, x) \in Seq(W)
      BY <2>2, AppendProperties
    <3>2. QED
      BY <2>1, <3>1
  <2>3. CASE t \in Seq(W) /\ x = d
    <3>1. t \o <<d>> = Append(t, x) /\ <<>> \in Seq(X)
      BY <2>3, AppendIsConcat
    <3>2. Append(t, x) = (t \o <<d>>) \o <<>>
      BY <2>1, <3>1, ConcatEmptySeq
    <3>3. Found(Append(t, x))
      BY <2>3, <3>1, <3>2 DEF Found
    <3>4. QED
      BY <2>1, <3>3
  <2>4. CASE Found(t)
    <3>1. PICK a \in Seq(W), b \in Seq(X) : t = (a \o <<d>>) \o b
      BY <2>4 DEF Found
    <3> DEFINE c == a \o <<d>>
    <3>2. c \in Seq(X)
      BY ConcatProperties, SeqMonotonic
    <3> HIDE DEF c
    <3>3. c \o Append(b, x) = Append(c \o b, x) /\ Append(b, x) \in Seq(X)
      BY <3>2, AppendAfter, AppendProperties
    <3>4. Found(Append(t, x))
      BY <3>1, <3>3 DEF Found, c
    <3>5. QED
      BY <2>1, <3>4
  <2>5. QED
    BY <1>2, <2>2, <2>3, <2>4
<1>3. Seq(X) \subseteq A
  <2> HIDE DEF A
  <2> QED BY <1>1, <1>2, SeqInduction
<1>4. QED
  BY <1>3 DEF Found, CutAt

(* What UpTo returns. *)
LEMMA UpToIs ==
    ASSUME NEW X, NEW d \in X, NEW t \in Seq(X), NEW n \in 0 .. Len(t),
           \A i \in 1 .. n : t[i] # d, n < Len(t) => t[n + 1] = d
    PROVE  UpTo(t, d) = SubSeq(t, 1, n)
<1> DEFINE s == Append(t, d)
           I == {i \in 1 .. Len(s) : s[i] = d}
           m == n + 1
<1>1. /\ s \in Seq(X) /\ Len(s) = Len(t) + 1 /\ s[Len(t) + 1] = d /\ Len(t) \in Nat
      /\ \A i \in 1 .. Len(t) : s[i] = t[i]
  BY AppendProperties, LenProperties
<1>2. m \in I /\ I \in SUBSET Nat /\ m \in Nat /\ m - 1 = n
  <2> HIDE DEF s
  <2>1. n < Len(t) \/ n = Len(t)
    BY <1>1
  <2>2. m \in 1 .. Len(s) /\ m - 1 = n
    BY <1>1
  <2>3. s[m] = d
    BY <1>1, <2>1
  <2>4. QED
    BY <1>1, <2>2, <2>3
<1>3. \A k \in I : m <= k
  <2> SUFFICES ASSUME NEW k \in I, k < m
               PROVE  FALSE
    BY <1>2
  <2>1. k \in 1 .. n /\ k \in 1 .. Len(t)
    BY <1>1
  <2>2. s[k] = t[k] /\ t[k] # d /\ s[k] = d
    BY <1>1, <2>1
  <2>3. QED
    BY <2>2
<1>4. UpTo(t, d) = SubSeq(t, 1, Min(I) - 1)
  <2>1. I # {}
    BY <1>2
  <2>2. QED
    BY <2>1 DEF UpTo, SelectInSeq
<1>5. Min(I) = m
  <2> HIDE DEF I, m
  <2> QED BY <1>2, <1>3, LeastIsMin
<1>6. QED
  <2> HIDE DEF I, m
  <2> QED BY <1>2, <1>4, <1>5

(* UpTo leaves a text as it is that does not hold the symbol. *)
LEMMA UpToPlain ==
    ASSUME NEW X, NEW d \in X, NEW a \in Seq(X \ {d})
    PROVE  UpTo(a, d) = a
<1>1. a \in Seq(X)
  BY SeqMonotonic
<1>2. \A i \in 1 .. Len(a) : a[i] # d
  <2> SUFFICES ASSUME NEW i \in 1 .. Len(a)
               PROVE  a[i] \in X \ {d}
    OBVIOUS
  <2> QED BY ElementOfSeq
<1>3. Len(a) \in 0 .. Len(a) /\ ~(Len(a) < Len(a))
  BY <1>1, LenProperties
<1>4. UpTo(a, d) = SubSeq(a, 1, Len(a))
  BY <1>1, <1>2, <1>3, UpToIs
<1>5. QED
  BY <1>4, SubSeqFull

(* The beginning of a text. *)
LEMMA Beginning ==
    ASSUME NEW X, NEW a \in Seq(X), NEW b \in Seq(X)
    PROVE  SubSeq(a \o b, 1, Len(a)) = a
<1>1. CASE Len(a) = 0
  <2>1. a = <<>>
    BY <1>1, EmptySeq
  <2>2. SubSeq(a \o b, 1, 0) = <<>>
    BY SubSeqEmpty
  <2>3. QED
    BY <1>1, <2>1, <2>2
<1>2. CASE Len(a) # 0
  <2>1. 1 \in 1 .. Len(a) /\ Len(a) \in 1 .. Len(a)
    BY <1>2, LenProperties
  <2>2. SubSeq(a \o b, 1, Len(a)) = SubSeq(a, 1, Len(a))
    BY <2>1, SubSeqOfConcat1
  <2>3. QED
    BY <2>2, SubSeqFull
<1>3. QED
  BY <1>1, <1>2

(* UpTo ends at the first of the symbol. *)
LEMMA UpToCut ==
    ASSUME NEW X, NEW d \in X, NEW a \in Seq(X \ {d}), NEW b \in Seq(X)
    PROVE  UpTo((a \o <<d>>) \o b, d) = a
<1> DEFINE e == <<d>> \o b
           t == a \o e
<1>1. /\ a \in Seq(X) /\ e \in Seq(X) /\ Len(e) = 1 + Len(b) /\ e[1] = d
      /\ Len(b) \in Nat /\ Len(a) \in Nat
  <2>1. <<d>> \in Seq(X) /\ Len(<<d>>) = 1 /\ <<d>>[1] = d
    OBVIOUS
  <2>2. QED
    BY <2>1, ConcatProperties, LenProperties, SeqMonotonic
<1>2. t = (a \o <<d>>) \o b
  BY <1>1, ConcatAssociative
<1> HIDE DEF e
<1>3. /\ t \in Seq(X) /\ Len(t) = Len(a) + Len(e)
      /\ \A i \in 1 .. Len(a) + Len(e) : t[i] = IF i <= Len(a) THEN a[i] ELSE e[i - Len(a)]
  BY <1>1, ConcatProperties
<1>4. SubSeq(t, 1, Len(a)) = a
  BY <1>1, Beginning
<1> HIDE DEF t
<1>5. \A i \in 1 .. Len(a) : t[i] # d
  <2> SUFFICES ASSUME NEW i \in 1 .. Len(a)
               PROVE  t[i] # d
    OBVIOUS
  <2>1. a[i] \in X \ {d}
    BY ElementOfSeq
  <2>2. i \in 1 .. Len(a) + Len(e) /\ i <= Len(a)
    BY <1>1
  <2>3. QED
    BY <1>3, <2>1, <2>2
<1>6. Len(a) \in 0 .. Len(t) /\ t[Len(a) + 1] = d
  <2>1. Len(a) + 1 \in 1 .. Len(a) + Len(e) /\ ~(Len(a) + 1 <= Len(a)) /\ (Len(a) + 1) - Len(a) = 1
    BY <1>1
  <2>2. QED
    BY <1>1, <1>3, <2>1
<1>7. UpTo(t, d) = SubSeq(t, 1, Len(a))
  BY <1>3, <1>5, <1>6, UpToIs, ZenonT(30)
<1>8. QED
  BY <1>2, <1>4, <1>7
-----------------------------------------------------------------------------
(* Texts that are joined with something between them. *)

(* Lists of texts. *)
Lines(X) == Seq(Seq(X))

(* No text is a list of texts. *)
LEMMA LinesNone ==
    ASSUME NEW X
    PROVE  <<>> \in Lines(X)
BY DEF Lines

(* A list with a text more is a list. *)
LEMMA LinesMore ==
    ASSUME NEW X, NEW ss \in Lines(X), NEW w \in Seq(X)
    PROVE  Append(ss, w) \in Lines(X) /\ Append(ss, w) # <<>>
<1>1. ss \in Seq(Seq(X))
  BY DEF Lines
<1>2. QED
  BY <1>1, AppendProperties DEF Lines

(* Induction over lists of texts. *)
LEMMA LinesInduction ==
    ASSUME NEW X, NEW A, <<>> \in A,
           \A s \in Lines(X), x \in Seq(X) : s \in A => Append(s, x) \in A
    PROVE  Lines(X) \subseteq A
<1> USE DEF Lines
<1> QED BY SeqInduction

(* A list that is not empty is one of at least one text. *)
LEMMA LinesTexts ==
    ASSUME NEW X, NEW ss \in Lines(X), ss # <<>>
    PROVE  ss \in Texts(X)
BY DEF Lines, Texts

(* Texts with something before the first and something before the others. *)
Marked(first, sep, ss) == [i \in 1 .. Len(ss) |-> (IF i = 1 THEN first ELSE sep) \o ss[i]]

(* Their concatenation. *)
Joined(first, sep, ss) == FlattenSeq(Marked(first, sep, ss))

(* Marked by one more text. *)
LEMMA MarkedBoth ==
    ASSUME NEW X, NEW first \in Seq(X), NEW sep \in Seq(X), NEW ss \in Seq(Seq(X)), NEW w \in Seq(X)
    PROVE  /\ Marked(first, sep, ss) \in Seq(Seq(X))
           /\ ss = <<>> => Marked(first, sep, Append(ss, w)) = Append(Marked(first, sep, ss), first \o w)
           /\ ss # <<>> => Marked(first, sep, Append(ss, w)) = Append(Marked(first, sep, ss), sep \o w)
<1>1. ASSUME NEW tt \in Seq(Seq(X))
      PROVE  /\ Marked(first, sep, tt) \in Seq(Seq(X))
             /\ Len(Marked(first, sep, tt)) = Len(tt)
             /\ \A i \in 1 .. Len(tt) : Marked(first, sep, tt)[i] = (IF i = 1 THEN first ELSE sep) \o tt[i]
  <2> DEFINE g == Marked(first, sep, tt)
             n == Len(tt)
  <2>1. \A i \in 1 .. n : (IF i = 1 THEN first ELSE sep) \o tt[i] \in Seq(X)
    <3> SUFFICES ASSUME NEW i \in 1 .. n
                 PROVE  (IF i = 1 THEN first ELSE sep) \o tt[i] \in Seq(X)
      OBVIOUS
    <3>1. tt[i] \in Seq(X)
      BY ElementOfSeq
    <3>2. first \o tt[i] \in Seq(X) /\ sep \o tt[i] \in Seq(X)
      BY <3>1, ConcatProperties
    <3>3. QED
      BY <3>2
  <2>2. n \in Nat
    BY LenProperties
  <2>3. g \in [1 .. n -> Seq(X)] /\ \A i \in 1 .. n : g[i] = (IF i = 1 THEN first ELSE sep) \o tt[i]
    BY <2>1 DEF Marked
  <2>4. g \in Seq(Seq(X)) /\ Len(g) = n
    <3> HIDE DEF g, n
    <3> QED BY <2>2, <2>3
  <2>5. QED
    BY <2>3, <2>4
<1> DEFINE t == Append(ss, w)
           m == Marked(first, sep, ss)
           g == Marked(first, sep, t)
           n == Len(ss)
<1>2. t \in Seq(Seq(X)) /\ Len(t) = n + 1 /\ t[n + 1] = w /\ \A i \in 1 .. n : t[i] = ss[i]
  BY AppendProperties
<1>3. n \in Nat /\ (ss = <<>> <=> n = 0)
  BY LenProperties, EmptySeq
<1>4. m \in Seq(Seq(X)) /\ Len(m) = n /\ \A i \in 1 .. n : m[i] = (IF i = 1 THEN first ELSE sep) \o ss[i]
  BY <1>1
<1>5. /\ g \in Seq(Seq(X)) /\ Len(g) = n + 1
      /\ \A i \in 1 .. n + 1 : g[i] = (IF i = 1 THEN first ELSE sep) \o t[i]
  <2> HIDE DEF t
  <2> QED BY <1>1, <1>2
<1>6. ASSUME NEW e \in Seq(X), g[n + 1] = e
      PROVE  g = Append(m, e)
  <2> HIDE DEF g, m, t, n
  <2>1. /\ Append(m, e) \in Seq(Seq(X)) /\ Len(Append(m, e)) = n + 1 /\ Append(m, e)[n + 1] = e
        /\ \A i \in 1 .. n : Append(m, e)[i] = m[i]
    BY <1>4, AppendProperties
  <2>2. \A i \in 1 .. n + 1 : g[i] = Append(m, e)[i]
    <3> SUFFICES ASSUME NEW i \in 1 .. n + 1
                 PROVE  g[i] = Append(m, e)[i]
      OBVIOUS
    <3>1. CASE i = n + 1
      BY <1>6, <2>1, <3>1
    <3>2. CASE i # n + 1
      <4>1. i \in 1 .. n
        BY <1>3, <3>2
      <4>2. g[i] = (IF i = 1 THEN first ELSE sep) \o ss[i]
        BY <1>2, <1>5, <4>1
      <4>3. QED
        BY <1>4, <2>1, <4>1, <4>2
    <3>3. QED
      BY <3>1, <3>2
  <2>3. QED
    BY <1>5, <2>1, <2>2, SeqEqual, SMTT(30)
<1>7. ASSUME ss = <<>>
      PROVE  g = Append(m, first \o w)
  <2>1. first \o w \in Seq(X)
    BY ConcatProperties
  <2> HIDE DEF g, m, t
  <2>2. n + 1 \in 1 .. n + 1 /\ n + 1 = 1
    BY <1>3, <1>7
  <2>3. g[n + 1] = first \o w
    BY <1>2, <1>5, <2>2
  <2>4. QED
    BY <1>6, <2>1, <2>3
<1>8. ASSUME ss # <<>>
      PROVE  g = Append(m, sep \o w)
  <2>1. sep \o w \in Seq(X)
    BY ConcatProperties
  <2> HIDE DEF g, m, t
  <2>2. n + 1 \in 1 .. n + 1 /\ n + 1 # 1
    <3> HIDE DEF n
    <3> QED BY <1>3, <1>8
  <2>3. g[n + 1] = sep \o w
    BY <1>2, <1>5, <2>2
  <2>4. QED
    BY <1>6, <2>1, <2>3
<1>9. QED
  BY <1>4, <1>7, <1>8

(* Marked makes a list of texts. *)
LEMMA MarkedType ==
    ASSUME NEW X, NEW first \in Seq(X), NEW sep \in Seq(X), NEW ss \in Lines(X)
    PROVE  Marked(first, sep, ss) \in Lines(X)
<1>1. <<>> \in Seq(X) /\ ss \in Seq(Seq(X))
  BY DEF Lines
<1>2. QED
  BY <1>1, MarkedBoth DEF Lines

(* Joined makes a text. *)
LEMMA JoinedType ==
    ASSUME NEW X, NEW first \in Seq(X), NEW sep \in Seq(X), NEW ss \in Lines(X)
    PROVE  Joined(first, sep, ss) \in Seq(X)
<1>1. Marked(first, sep, ss) \in Lines(X)
  BY MarkedType
<1>2. FlattenSeq(Marked(first, sep, ss)) \in Seq(X)
  <2> DEFINE m == Marked(first, sep, ss)
  <2> HIDE DEF m
  <2>1. m \in Lines(X)
    BY <1>1 DEF m
  <2>2. FlattenSeq(m) \in Seq(X)
    BY <2>1, FlattenType DEF Lines
  <2>3. QED
    BY <2>2 DEF m
<1>3. QED
  BY <1>2 DEF Joined

(* Joined of no texts. *)
LEMMA JoinedNone ==
    ASSUME NEW first, NEW sep
    PROVE  Joined(first, sep, <<>>) = <<>>
<1>1. Marked(first, sep, <<>>) = <<>>
  BY DEF Marked
<1>2. QED
  BY <1>1, FlattenNone DEF Joined

(* Joined of one text. *)
LEMMA JoinedOne ==
    ASSUME NEW X, NEW first \in Seq(X), NEW sep \in Seq(X), NEW w \in Seq(X)
    PROVE  Joined(first, sep, <<w>>) = first \o w
<1> DEFINE e == first \o w
<1>1. e \in Seq(X)
  BY ConcatProperties
<1>2. Marked(first, sep, <<w>>) = <<e>>
  BY DEF Marked
<1>3. <<e>> = Append(<<>>, e)
  OBVIOUS
<1> HIDE DEF e
<1>4. FlattenSeq(Append(<<>>, e)) = FlattenSeq(<<>>) \o e
  <2>1. <<>> \in Seq(Seq(X))
    OBVIOUS
  <2>2. QED
    BY <1>1, <2>1, FlattenMore
<1>5. <<>> \o e = e
  BY <1>1, ConcatEmptySeq
<1>6. Joined(first, sep, <<w>>) = e
  BY <1>2, <1>3, <1>4, <1>5, FlattenNone DEF Joined
<1>7. QED
  BY <1>6 DEF e

(* One more text. *)
JoinsMore(X, first, sep) ==
    \A ss \in Texts(X), w \in Seq(X) :
        Joined(first, sep, Append(ss, w)) = (Joined(first, sep, ss) \o sep) \o w

(* Joined by one more text, when there is one already. *)
LEMMA JoinedMore ==
    ASSUME NEW X, NEW first \in Seq(X), NEW sep \in Seq(X)
    PROVE  JoinsMore(X, first, sep)
<1> SUFFICES ASSUME NEW ss \in Texts(X), NEW w \in Seq(X)
             PROVE  Joined(first, sep, Append(ss, w)) = (Joined(first, sep, ss) \o sep) \o w
  BY DEF JoinsMore
<1> DEFINE e == sep \o w
           m == Marked(first, sep, ss)
           f == FlattenSeq(m)
<1>0. ss \in Lines(X) /\ ss # <<>>
  BY DEF Texts, Lines
<1>1. e \in Seq(X)
  BY ConcatProperties
<1>2. m \in Lines(X)
  BY <1>0, MarkedType
<1>3. Marked(first, sep, Append(ss, w)) = Append(m, e)
  <2>1. ss \in Seq(Seq(X))
    BY <1>0 DEF Lines
  <2>2. QED
    BY <1>0, <2>1, MarkedBoth, SMTT(30)
<1> HIDE DEF m
<1>4. f \in Seq(X)
  BY <1>2, FlattenType DEF Lines
<1>5. FlattenSeq(Append(m, e)) = f \o e
  <2> HIDE DEF e
  <2> QED BY <1>1, <1>2, FlattenMore DEF Lines
<1> HIDE DEF f
<1>6. f \o (sep \o w) = (f \o sep) \o w
  BY <1>4, ConcatAssociative, SMTT(30)
<1>7. Joined(first, sep, Append(ss, w)) = (f \o sep) \o w
  BY <1>3, <1>5, <1>6 DEF Joined
<1>8. QED
  BY <1>7 DEF f, m, Joined

(* A first mark is put before the rest. *)
LEMMA JoinedFirst ==
    ASSUME NEW X, NEW first \in Seq(X), NEW sep \in Seq(X), NEW ss \in Lines(X), ss # <<>>
    PROVE  Joined(first, sep, ss) = first \o Joined(<<>>, sep, ss)
<1> DEFINE A == {tt \in Lines(X) : tt # <<>> => Joined(first, sep, tt) = first \o Joined(<<>>, sep, tt)}
<1>1. <<>> \in A
  BY LinesNone
<1>2. ASSUME NEW tt \in Lines(X), NEW w \in Seq(X), tt \in A
      PROVE  Append(tt, w) \in A
  <2> DEFINE J == Joined(<<>>, sep, tt)
             K == Joined(first, sep, tt)
             JJ == Joined(<<>>, sep, Append(tt, w))
             KK == Joined(first, sep, Append(tt, w))
  <2>1. Append(tt, w) \in Lines(X)
    BY LinesMore
  <2>2. <<>> \in Seq(X)
    OBVIOUS
  <2>3. KK = first \o JJ
    <3>1. CASE tt = <<>>
      <4>1. Append(tt, w) = <<w>>
        BY <3>1
      <4>2. Joined(<<>>, sep, <<w>>) = <<>> \o w
        BY <2>2, JoinedOne
      <4>3. Joined(first, sep, <<w>>) = first \o w
        BY JoinedOne
      <4>4. <<>> \o w = w
        BY ConcatEmptySeq
      <4>5. QED
        BY <4>1, <4>2, <4>3, <4>4
    <3>2. CASE tt # <<>>
      <4>0. tt \in Texts(X)
        BY <3>2, LinesTexts
      <4>1. J \in Seq(X)
        BY <2>2, JoinedType
      <4>2. JJ = (J \o sep) \o w
        <5>1. JoinsMore(X, <<>>, sep)
          BY <2>2, JoinedMore
        <5> HIDE DEF A
        <5>2. QED
          BY <4>0, <5>1 DEF JoinsMore
      <4>3. KK = (K \o sep) \o w
        <5>1. JoinsMore(X, first, sep)
          BY JoinedMore
        <5>2. QED
          BY <4>0, <5>1 DEF JoinsMore
      <4>4. K = first \o J
        BY <1>2, <3>2
      <4> HIDE DEF J, K, JJ, KK
      <4> DEFINE l == J \o sep
      <4>5. l \in Seq(X)
        BY <4>1, ConcatProperties
      <4>6. (first \o J) \o sep = first \o l
        BY <4>1, ConcatAssociative, SMTT(30)
      <4> HIDE DEF l
      <4>7. (first \o l) \o w = first \o (l \o w)
        BY <4>5, ConcatAssociative, SMTT(30)
      <4>8. QED
        BY <4>2, <4>3, <4>4, <4>6, <4>7 DEF l
    <3>3. QED
      BY <3>1, <3>2
  <2>4. QED
    BY <2>1, <2>3
<1>3. Lines(X) \subseteq A
  <2> HIDE DEF A
  <2> QED BY <1>1, <1>2, LinesInduction
<1>4. QED
  BY <1>3

(* What is joined with delimiters is what Pieces finds. *)
LEMMA JoinedPieces ==
    ASSUME NEW X, NEW d \in X, NEW ss \in Lines(X \ {d}), ss # <<>>
    PROVE  Pieces(Joined(<<>>, <<d>>, ss), d) = ss
<1> DEFINE W == X \ {d}
           J(tt) == Joined(<<>>, <<d>>, tt)
           A == {tt \in Lines(W) : tt # <<>> => Pieces(J(tt), d) = tt}
<1>0. <<>> \in Seq(X) /\ <<d>> \in Seq(X)
  OBVIOUS
<1>1. <<>> \in A
  BY LinesNone
<1>2. ASSUME NEW tt \in Lines(W), NEW w \in Seq(W), tt \in A
      PROVE  Append(tt, w) \in A
  <2>1. Append(tt, w) \in Lines(W) /\ Append(tt, w) # <<>>
    <3> HIDE DEF W
    <3> QED BY LinesMore
  <2>2. w \in Seq(X) /\ tt \in Lines(X) /\ Pieces(w, d) = <<w>>
    <3>1. Seq(W) \subseteq Seq(X)
      BY SeqMonotonic
    <3>2. tt \in Lines(X)
      <4> HIDE DEF W
      <4> QED BY <3>1, SeqMonotonic DEF Lines
    <3>3. d \notin W
      OBVIOUS
    <3>4. Pieces(w, d) = <<w>>
      <4> HIDE DEF W
      <4> QED BY <3>3, PiecesPlain
    <3>5. QED
      BY <3>1, <3>2, <3>4
  <2> DEFINE a == J(tt)
             b == J(Append(tt, w))
  <2>3. /\ a \in Seq(X)
        /\ tt = <<>> => b = <<>> \o w
        /\ tt # <<>> => b = (a \o <<d>>) \o w
    <3>1. a \in Seq(X)
      BY <1>0, <2>2, JoinedType
    <3>2. ASSUME tt = <<>>
          PROVE  b = <<>> \o w
      <4>1. Append(tt, w) = <<w>>
        BY <3>2
      <4>2. Joined(<<>>, <<d>>, <<w>>) = <<>> \o w
        BY <1>0, <2>2, JoinedOne
      <4>3. QED
        BY <4>1, <4>2
    <3>3. ASSUME tt # <<>>
          PROVE  b = (a \o <<d>>) \o w
      <4>1. tt \in Texts(X)
        BY <2>2, <3>3, LinesTexts
      <4>2. QED
        <5>1. JoinsMore(X, <<>>, <<d>>)
          BY <1>0, JoinedMore
        <5>2. QED
          BY <2>2, <4>1, <5>1 DEF JoinsMore
    <3>4. QED
      BY <3>1, <3>2, <3>3
  <2>4. tt # <<>> => Pieces(a, d) = tt
    BY <1>2
  <2> HIDE DEF a, b, J, W
  <2>5. Pieces(b, d) = Append(tt, w)
    <3>1. CASE tt = <<>>
      <4>1. <<>> \o w = w
        BY <2>2, ConcatEmptySeq
      <4>2. Append(tt, w) = <<w>>
        BY <3>1
      <4>3. QED
        BY <2>2, <2>3, <3>1, <4>1, <4>2
    <3>2. CASE tt # <<>>
      <4>1. Pieces((a \o <<d>>) \o w, d) = Pieces(a, d) \o Pieces(w, d)
        BY <2>2, <2>3, PiecesCut
      <4>2. tt \o <<w>> = Append(tt, w)
        BY AppendIsConcat DEF Lines
      <4>3. QED
        BY <2>2, <2>3, <2>4, <3>2, <4>1, <4>2
    <3>3. QED
      BY <3>1, <3>2
  <2>6. QED
    BY <2>1, <2>5 DEF b
<1>3. Lines(W) \subseteq A
  <2> HIDE DEF A, W
  <2> QED BY <1>1, <1>2, LinesInduction
<1>4. QED
  BY <1>3

(* A symbol is a text. *)
LEMMA OneSymbol ==
    ASSUME NEW X, NEW x \in X
    PROVE  <<x>> \in Seq(X)
OBVIOUS

(* The texts of a request. *)
LEMMA PathJoins ==
    ASSUME NEW segments
    PROVE  PathText(segments) = Joined(<<"/">>, <<"/">>, segments)
BY DEF PathText, Joined, Marked

(* Texts of some symbols are texts of more. *)
LEMMA LinesWiden ==
    ASSUME NEW X, NEW Y, X \subseteq Y, NEW ss \in Lines(X)
    PROVE  ss \in Lines(Y)
<1>1. Seq(X) \subseteq Seq(Y)
  BY SeqMonotonic
<1>2. QED
  BY <1>1, SeqMonotonic DEF Lines

(* A path's pieces are its segments, after an empty one. *)
LEMMA PathSplit ==
    ASSUME NEW X, "/" \in X, NEW segments \in Lines(X \ {"/"}), segments # <<>>
    PROVE  /\ PathText(segments) \in Seq(X)
           /\ Pieces(PathText(segments), "/") = << <<>> >> \o segments
<1> DEFINE q == Joined(<<>>, <<"/">>, segments)
           p == PathText(segments)
<1>1. segments \in Lines(X) /\ <<"/">> \in Seq(X) /\ <<>> \in Seq(X)
  <2>1. X \ {"/"} \subseteq X
    OBVIOUS
  <2>2. QED
    BY <2>1, LinesWiden
<1>2. q \in Seq(X)
  BY <1>1, JoinedType
<1>3. p \in Seq(X)
  <2>1. Joined(<<"/">>, <<"/">>, segments) \in Seq(X)
    BY <1>1, JoinedType
  <2>2. QED
    BY <2>1, PathJoins
<1>4. p = <<"/">> \o q
  <2>1. Joined(<<"/">>, <<"/">>, segments) = <<"/">> \o q
    BY <1>1, JoinedFirst
  <2>2. QED
    BY <2>1, PathJoins
<1>5. Pieces(q, "/") = segments
  BY JoinedPieces
<1> HIDE DEF p, q
<1>6. p = (<<>> \o <<"/">>) \o q
  BY <1>4
<1>7. Pieces((<<>> \o <<"/">>) \o q, "/") = Pieces(<<>>, "/") \o Pieces(q, "/")
  BY <1>1, <1>2, PiecesCut
<1>8. QED
  BY <1>3, <1>5, <1>6, <1>7, PiecesNone DEF p
-----------------------------------------------------------------------------
(* The parts of a request: paths, fields and queries. *)

(* The fields of a query, as RequestAssumption has them. *)
Field == [key : Plaintext({"/", "?", "&", "=", ","}), equals : BOOLEAN,
          values : Seq(Plaintext({"?", "&", "=", ","}) \ {<<>>})]

(* The text of a field, by its parts, and the symbols that it does not hold. *)
LEMMA FieldType ==
    ASSUME NEW f \in Field
    PROVE  /\ f.values \in Lines(Symbols \ {"?", "&", "=", ","})
           /\ FieldText(f) \in Seq(Symbols \ {"?", "&"})
           /\ FieldText(f) = f.key \o (IF f.equals THEN <<"=">> ELSE <<>>) \o Joined(<<>>, <<",">>, f.values)
<1> DEFINE W == Symbols \ {"?", "&", "=", ","}
           X == Symbols \ {"?", "&"}
           v == Joined(<<>>, <<",">>, f.values)
           e == IF f.equals THEN <<"=">> ELSE <<>>
<1>1. f.values \in Lines(W)
  <2>1. Seq(W) \ {<<>>} \subseteq Seq(W) /\ f.values \in Seq(Seq(W) \ {<<>>})
    BY DEF Field, Plaintext
  <2> HIDE DEF W
  <2>2. f.values \in Seq(Seq(W))
    BY <2>1, SeqMonotonic
  <2>3. QED
    BY <2>2 DEF Lines
<1>0. {"/", "?", "&", "=", ",", ":"} \subseteq Symbols
  BY RouteAssumption
<1>2. f.key \in Seq(X)
  <2> DEFINE K == Symbols \ {"/", "?", "&", "=", ","}
  <2>1. f.key \in Seq(K)
    BY DEF Field, Plaintext
  <2>2. K \subseteq X
    OBVIOUS
  <2> HIDE DEF K, X
  <2>3. QED
    BY <2>1, <2>2, SeqMonotonic
<1>3. v \in Seq(X)
  <2>1. W \subseteq X
    OBVIOUS
  <2>2. <<>> \in Seq(X) /\ <<",">> \in Seq(X)
    <3>1. "," \in X
      BY <1>0
    <3> HIDE DEF X
    <3>2. <<",">> \in Seq(X)
      BY <3>1, OneSymbol
    <3>3. <<>> \in Seq(X)
      OBVIOUS
    <3>4. QED
      BY <3>2, <3>3
  <2> HIDE DEF W, X
  <2>3. f.values \in Lines(X)
    BY <1>1, <2>1, LinesWiden
  <2>4. QED
    BY <2>2, <2>3, JoinedType
<1>4. e \in Seq(X)
  <2>1. "=" \in X
    BY <1>0
  <2> HIDE DEF X
  <2>2. <<"=">> \in Seq(X) /\ <<>> \in Seq(X)
    BY <2>1
  <2>3. QED
    BY <2>2
<1>5. FieldText(f) = f.key \o e \o v
  BY DEF FieldText, Joined, Marked
<1>6. f.key \o e \o v \in Seq(X)
  <2> HIDE DEF e, v, X
  <2>1. f.key \o e \in Seq(X)
    BY <1>2, <1>4, ConcatProperties
  <2>2. QED
    BY <1>3, <2>1, ConcatProperties
<1>7. QED
  BY <1>1, <1>5, <1>6

(* The texts of fields. *)
Texted(query) == [i \in 1 .. Len(query) |-> FieldText(query[i])]

(* They are as many, and in the same order. *)
LEMMA TextedType ==
    ASSUME NEW query \in Seq(Field)
    PROVE  /\ Texted(query) \in Lines(Symbols \ {"?", "&"})
           /\ Len(Texted(query)) = Len(query)
           /\ \A i \in 1 .. Len(query) : Texted(query)[i] = FieldText(query[i])
           /\ query = <<>> <=> Texted(query) = <<>>
<1> DEFINE S == Seq(Symbols \ {"?", "&"})
           n == Len(query)
           t == Texted(query)
<1>1. n \in Nat /\ (query = <<>> <=> n = 0)
  BY LenProperties, EmptySeq
<1>2. \A i \in 1 .. n : FieldText(query[i]) \in S
  <2> SUFFICES ASSUME NEW i \in 1 .. n
               PROVE  FieldText(query[i]) \in S
    OBVIOUS
  <2>1. query[i] \in Field
    BY ElementOfSeq
  <2>2. QED
    BY <2>1, FieldType
<1>3. t \in [1 .. n -> S] /\ \A i \in 1 .. n : t[i] = FieldText(query[i])
  <2> HIDE DEF S
  <2> QED BY <1>2 DEF Texted
<1> HIDE DEF t, n, S
<1>4. t \in Seq(S) /\ Len(t) = n
  BY <1>1, <1>3
<1>5. t = <<>> <=> n = 0
  BY <1>4, EmptySeq
<1>6. QED
  BY <1>1, <1>3, <1>4, <1>5 DEF t, n, S, Lines

(* A query is nothing, or a question mark and its fields. *)
QueryBody(query) == Joined(<<>>, <<"&">>, Texted(query))

(* The text of a query, and the fields that it is split into. *)
LEMMA QueryJoined ==
    ASSUME NEW query \in Seq(Field)
    PROVE  /\ QueryText(query) \in Seq(Symbols)
           /\ query = <<>> => QueryText(query) = <<>>
           /\ query # <<>> => /\ QueryBody(query) \in Seq(Symbols \ {"?"})
                              /\ QueryText(query) = <<"?">> \o QueryBody(query)
                              /\ Pieces(QueryBody(query), "&") = Texted(query)
<1> DEFINE X == Symbols \ {"?"}
           tt == Texted(query)
           q == Joined(<<>>, <<"&">>, tt)
<1>0. {"/", "?", "&", "=", ",", ":"} \subseteq Symbols
  BY RouteAssumption
<1>1. QueryText(query) = Joined(<<"?">>, <<"&">>, tt)
  <2>1. \A i \in 1 .. Len(query) : <<IF i = 1 THEN "?" ELSE "&">> \o FieldText(query[i])
                                  = (IF i = 1 THEN <<"?">> ELSE <<"&">>) \o tt[i]
    BY DEF Texted
  <2>2. Len(tt) = Len(query)
    BY TextedType
  <2> HIDE DEF tt
  <2>3. [i \in 1 .. Len(query) |-> <<IF i = 1 THEN "?" ELSE "&">> \o FieldText(query[i])]
        = Marked(<<"?">>, <<"&">>, tt)
    BY <2>1, <2>2, SMTT(30) DEF Marked
  <2>4. QED
    BY <2>3 DEF QueryText, Joined
<1>2. tt \in Lines(Symbols \ {"?", "&"}) /\ (query = <<>> <=> tt = <<>>)
  BY TextedType
<1> HIDE DEF tt
<1>3. tt \in Lines(X) /\ tt \in Lines(Symbols) /\ tt \in Lines(X \ {"&"})
  <2>1. Symbols \ {"?", "&"} \subseteq X /\ Symbols \ {"?", "&"} \subseteq Symbols /\ Symbols \ {"?", "&"} \subseteq X \ {"&"}
    OBVIOUS
  <2> HIDE DEF X
  <2>2. QED
    BY <1>2, <2>1, LinesWiden
<1>4. <<"?">> \in Seq(Symbols) /\ <<"&">> \in Seq(Symbols) /\ <<"&">> \in Seq(X) /\ <<>> \in Seq(X)
  <2>1. "?" \in Symbols /\ "&" \in Symbols /\ "&" \in X
    BY <1>0
  <2> HIDE DEF X
  <2>2. QED
    BY <2>1
<1>5. Joined(<<"?">>, <<"&">>, tt) \in Seq(Symbols)
  BY <1>3, <1>4, JoinedType
<1>6. ASSUME query = <<>>
      PROVE  QueryText(query) = <<>>
  BY <1>1, <1>2, <1>6, JoinedNone
<1>7. ASSUME query # <<>>
      PROVE  q \in Seq(X) /\ QueryText(query) = <<"?">> \o q /\ Pieces(q, "&") = tt
  <2>1. tt # <<>>
    BY <1>2, <1>7
  <2>2. Joined(<<"?">>, <<"&">>, tt) = <<"?">> \o q
    BY <1>3, <1>4, <2>1, JoinedFirst
  <2>3. q \in Seq(X)
    <3> HIDE DEF X
    <3> QED BY <1>3, <1>4, JoinedType
  <2>4. Pieces(q, "&") = tt
    <3>1. "&" \in X
      BY <1>0
    <3> HIDE DEF X
    <3>2. QED
      BY <1>3, <2>1, <3>1, JoinedPieces
  <2>5. QED
    BY <1>1, <2>2, <2>3, <2>4
<1>8. QED
  BY <1>1, <1>5, <1>6, <1>7 DEF tt, QueryBody

(* The same, for some text after the question mark. *)
LEMMA QueryMarked ==
    ASSUME NEW query \in Seq(Field)
    PROVE  /\ QueryText(query) \in Seq(Symbols)
           /\ query = <<>> => QueryText(query) = <<>>
           /\ query # <<>> => \E q \in Seq(Symbols \ {"?"}) :
                 QueryText(query) = <<"?">> \o q /\ Pieces(q, "&") = Texted(query)
BY QueryJoined

(* A text that ends with something else than the delimiter loses no piece. *)
LEMMA SplitClosed ==
    ASSUME NEW X, NEW t \in Seq(X), NEW x \in X, NEW d, x # d
    PROVE  split(Append(t, x), d) = Pieces(Append(t, x), d)
<1>1. PICK f \in Seq(Seq(X)), l \in Seq(X) : Pieces(t, d) = Append(f, l)
  BY PiecesMore, TextsAppend
<1> DEFINE m == Append(l, x)
<1>2. m \in Seq(X) /\ m # <<>>
  BY AppendProperties
<1>3. Pieces(Append(t, x), d) = Longer(Append(f, l), x, d)
  <2>1. Pieces(Append(t, x), d) = Longer(Pieces(t, d), x, d)
    BY PiecesMore
  <2>2. QED
    BY <1>1, <2>1
<1>4. Longer(Append(f, l), x, d) = Append(f, m)
  BY LongerOfAppend
<1> HIDE DEF m
<1>5. Trim(Append(f, m)) = Append(f, m)
  BY <1>2, TrimAppend
<1>6. QED
  BY <1>3, <1>4, <1>5, SplitTrims

(* The tokens of a route: an empty one, and one or more that are not all empty. *)
Word == Symbols \ {"/", "?"}

(* A route begins with a slash and does not end with one: split finds all of  *)
(* its pieces.                                                                *)
LEMMA RouteTokens ==
    ASSUME NEW text \in RouteTexts
    PROVE  /\ text \in Seq(Symbols)
           /\ split(text, "/") = Pieces(text, "/")
           /\ \E tokens \in Texts(Word) : split(text, "/") = << <<>> >> \o tokens
<1> DEFINE X == Symbols \ {"?"}
<1>0. {"/", "?", "&", "=", ",", ":"} \subseteq Symbols /\ "/" # "?"
  BY RouteAssumption
<1>1. text \in Seq(X) /\ text # <<>> /\ Head(text) = "/" /\ Last(text) # "/"
  BY RouteAssumption
<1>2. "/" \in X /\ X \subseteq Symbols /\ X \ {"/"} = Word
  BY <1>0 DEF Word
<1> HIDE DEF X
<1>3. text \in Seq(Symbols)
  BY <1>1, <1>2, SeqMonotonic
<1>4. split(text, "/") = Pieces(text, "/")
  <2>1. PICK t \in Seq(X), x \in X : text = Append(t, x)
    BY <1>1, SequenceEmptyOrAppend
  <2>2. Last(Append(t, x)) = x
    BY FrontLast
  <2>3. x # "/"
    BY <1>1, <2>1, <2>2
  <2>4. split(Append(t, x), "/") = Pieces(Append(t, x), "/")
    BY <2>3, SplitClosed
  <2>5. QED
    BY <2>1, <2>4
<1>5. Pieces(text, "/") = << <<>> >> \o Pieces(Tail(text), "/") /\ Tail(text) \in Seq(X)
  <2> DEFINE b == Tail(text)
  <2>1. b \in Seq(X) /\ Len(b) = Len(text) - 1 /\ \A i \in 1 .. Len(b) : b[i] = text[i + 1]
    BY <1>1, HeadTailProperties
  <2>2. text = <<"/">> \o b
    <3>1. text = <<Head(text)>> \o Tail(text)
      BY <1>1, HeadTailProperties
    <3>2. QED
      BY <1>1, <3>1
  <2> HIDE DEF b
  <2>3. text = (<<>> \o <<"/">>) \o b
    BY <2>2
  <2>4. <<>> \in Seq(X)
    OBVIOUS
  <2>5. Pieces((<<>> \o <<"/">>) \o b, "/") = Pieces(<<>>, "/") \o Pieces(b, "/")
    BY <1>2, <2>1, <2>4, PiecesCut
  <2>6. QED
    BY <2>1, <2>3, <2>5, PiecesNone DEF b
<1>6. Pieces(Tail(text), "/") \in Texts(Word)
  BY <1>2, <1>5, PiecesWithin
<1>7. QED
  BY <1>3, <1>4, <1>5, <1>6
-----------------------------------------------------------------------------
(* Routes and their parameters. *)

(* The parameters of a route: the last is at the last token. *)
Id(tokens, count) ==
    IF IsParam(tokens[count]) \/ count = Len(tokens)
    THEN << [pos |-> count - 1, name |-> tokens[count]] >> ELSE <<>>

(* The parameters, token by token. *)
Ids(f, tokens) ==
    f = [count \in 0 .. Len(tokens) |->
            IF count = 0 THEN <<>> ELSE f[count - 1] \o Id(tokens, count)]

(* Parameters at positions before n. *)
Before(n) == [pos : {j \in Nat : 1 <= j /\ j < n}, name : Seq(Symbols)]

(* The first of a route's tokens is no parameter. *)
Tokenized(tokens) == tokens \in Lines(Symbols) /\ Len(tokens) >= 2 /\ ~IsParam(tokens[1])

(* A token's parameter has the token's position. *)
LEMMA IdType ==
    ASSUME NEW tokens, Tokenized(tokens), NEW i \in 1 .. Len(tokens)
    PROVE  Id(tokens, i) \in Seq(Before(i))
<1>1. tokens[i] \in Seq(Symbols) /\ Len(tokens) \in Nat /\ Len(tokens) >= 2 /\ ~IsParam(tokens[1])
  BY ElementOfSeq, LenProperties DEF Lines, Tokenized
<1>2. CASE i = 1
  <2>1. Id(tokens, i) = <<>>
    <3> DEFINE n == Len(tokens)
    <3>0. n \in Nat /\ n >= 2
      BY <1>1
    <3> HIDE DEF n
    <3>1. 1 # n
      BY <3>0
    <3>2. QED
      BY <1>1, <1>2, <3>1 DEF Id, n
  <2>2. QED
    BY <2>1
<1>3. CASE i # 1
  <2>1. i - 1 \in Nat /\ 1 <= i - 1 /\ i - 1 < i
    BY <1>1, <1>3
  <2>2. [pos |-> i - 1, name |-> tokens[i]] \in Before(i)
    BY <1>1, <2>1 DEF Before
  <2>3. << [pos |-> i - 1, name |-> tokens[i]] >> \in Seq(Before(i))
    BY <2>2, OneSymbol
  <2>4. <<>> \in Seq(Before(i))
    OBVIOUS
  <2>5. QED
    BY <2>3, <2>4 DEF Id
<1>4. QED
  BY <1>2, <1>3

(* The recursive function in parse_param_ids_in_route exists. *)
LEMMA IdsExist ==
    ASSUME NEW tokens, Tokenized(tokens)
    PROVE  \E f : Ids(f, tokens)
<1> DEFINE n == Len(tokens)
           S == Seq(Before(n))
           step == [a \in (1 .. n) \X S |-> a[2] \o Id(tokens, a[1])]
<1>1. n \in Nat
  BY LenProperties DEF Lines, Tokenized
<1>2. step \in [(1 .. n) \X S -> S]
  <2>1. \A a \in (1 .. n) \X S : a[2] \o Id(tokens, a[1]) \in S
    <3> SUFFICES ASSUME NEW i \in 1 .. n, NEW s \in S
                 PROVE  s \o Id(tokens, i) \in S
      OBVIOUS
    <3>1. Id(tokens, i) \in Seq(Before(i))
      BY IdType
    <3>2. Before(i) \subseteq Before(n)
      BY <1>1 DEF Before
    <3>3. Id(tokens, i) \in S
      BY <3>1, <3>2, SeqMonotonic
    <3>4. QED
      BY <3>3, ConcatProperties
  <2> HIDE DEF S, n
  <2>2. QED
    BY <2>1
<1>3. <<>> \in S
  OBVIOUS
<1>4. PICK g : Steps(g, S, n, <<>>, step)
  <2> HIDE DEF step, n, S
  <2> QED BY <1>1, <1>2, <1>3, Recursion
<1>5. ASSUME NEW i \in 1 .. n
      PROVE  g[i] = g[i - 1] \o Id(tokens, i)
  <2>1. i - 1 \in 0 .. n
    OBVIOUS
  <2>2. g[i - 1] \in S /\ g[i] = step[<<i, g[i - 1]>>]
    <3> HIDE DEF n, step, S
    <3> QED BY <1>4, <2>1 DEF Steps
  <2> HIDE DEF S
  <2>3. QED
    BY <2>2
<1>6. g = [i \in 0 .. n |-> g[i]] /\ g[0] = <<>>
  <2> HIDE DEF step, n, S
  <2> QED BY <1>4 DEF Steps
<1>7. Ids(g, tokens)
  <2> HIDE DEF step, S, n
  <2>1. \A i \in 0 .. n : i # 0 => i \in 1 .. n
    BY <1>1
  <2>2. g = [i \in 0 .. n |-> IF i = 0 THEN <<>> ELSE g[i - 1] \o Id(tokens, i)]
    BY <1>5, <1>6, <2>1
  <2>3. QED
    BY <2>2 DEF Ids, n
<1>8. QED
  BY <1>7

(* The parameters that parse_param_ids_in_route finds: some, and the last     *)
(* token.                                                                     *)
LEMMA ParamIds ==
    ASSUME NEW text \in Seq(Symbols), NEW tokens, NEW n,
           tokens = split(text, "/"), n = Len(tokens), n >= 2, ~IsParam(tokens[1])
    PROVE  /\ n \in Nat \ {0} /\ tokens \in Lines(Symbols)
           /\ \E others \in Seq(Before(n - 1)) :
                 parse_param_ids_in_route(text) = Append(others, [pos |-> n - 1, name |-> tokens[n]])
<1>1. tokens \in Lines(Symbols) /\ n \in Nat \ {0}
  <2>1. tokens \in Seq(Seq(Symbols))
    BY SplitType
  <2>2. QED
    BY <2>1, LenProperties DEF Lines
<1> DEFINE F == CHOOSE f : Ids(f, tokens)
<1>0. Tokenized(tokens)
  BY <1>1 DEF Tokenized
<1>2. Ids(F, tokens)
  BY <1>0, IdsExist
<1>3. parse_param_ids_in_route(text) = F[n]
  BY DEF parse_param_ids_in_route, Ids, Id
<1> HIDE DEF F
<1> DEFINE A == {i \in Nat : i <= n => F[i] \in Seq(Before(i))}
<1>4. 0 \in A
  <2>1. F[0] = <<>>
    BY <1>1, <1>2 DEF Ids
  <2>2. F[0] \in Seq(Before(0))
    BY <2>1
  <2>3. QED
    BY <2>2
<1>5. ASSUME NEW i \in Nat, i \in A
      PROVE  i + 1 \in A
  <2> SUFFICES ASSUME i + 1 <= n
               PROVE  F[i + 1] \in Seq(Before(i + 1))
    OBVIOUS
  <2>1. i + 1 \in 1 .. n /\ i + 1 # 0 /\ (i + 1) - 1 = i /\ i <= n
    BY <1>1
  <2>2. F[i + 1] = F[i] \o Id(tokens, i + 1)
    <3> DEFINE j == i + 1
    <3>1. j \in 0 .. Len(tokens) /\ j # 0 /\ j - 1 = i
      BY <2>1
    <3> HIDE DEF j
    <3>2. F[j] = F[j - 1] \o Id(tokens, j)
      BY <1>2, <3>1 DEF Ids
    <3>3. F[j] = F[i] \o Id(tokens, j)
      BY <3>1, <3>2
    <3>4. QED
      BY <3>3 DEF j
  <2>3. F[i] \in Seq(Before(i))
    BY <1>5, <2>1
  <2>4. Before(i) \subseteq Before(i + 1)
    BY DEF Before
  <2>5. F[i] \in Seq(Before(i + 1))
    BY <2>3, <2>4, SeqMonotonic
  <2>6. Id(tokens, i + 1) \in Seq(Before(i + 1))
    BY <1>0, <1>1, <2>1, IdType
  <2>7. QED
    BY <2>2, <2>5, <2>6, ConcatProperties
<1>6. F[n - 1] \in Seq(Before(n - 1))
  <2>1. Nat \subseteq A
    <3> HIDE DEF A
    <3> QED BY <1>4, <1>5, Induction
  <2>2. n - 1 \in Nat /\ n - 1 <= n
    BY <1>1
  <2>3. n - 1 \in A
    BY <2>1, <2>2
  <2>4. QED
    BY <2>2, <2>3
<1> DEFINE last == [pos |-> n - 1, name |-> tokens[n]]
<1>7. F[n] = F[n - 1] \o <<last>>
  <2>1. n \in 0 .. n /\ n # 0 /\ n \in 1 .. n
    BY <1>1
  <2>2. F[n] = F[n - 1] \o Id(tokens, n)
    BY <1>2, <2>1 DEF Ids
  <2>3. Id(tokens, n) = <<last>>
    BY DEF Id
  <2>4. QED
    BY <2>2, <2>3
<1>8. F[n] = Append(F[n - 1], last)
  <2>1. last \in Before(n)
    <3>1. tokens[n] \in Seq(Symbols)
      BY <1>1, ElementOfSeq DEF Lines
    <3>2. n - 1 \in Nat /\ 1 <= n - 1 /\ n - 1 < n
      BY <1>1
    <3>3. QED
      BY <3>1, <3>2 DEF Before
  <2>2. F[n - 1] \in Seq(Before(n))
    <3>1. Before(n - 1) \subseteq Before(n)
      BY <1>1 DEF Before
    <3>2. QED
      BY <1>6, <3>1, SeqMonotonic
  <2> HIDE DEF last
  <2>3. QED
    BY <1>7, <2>1, <2>2, AppendIsConcat
<1>9. QED
  BY <1>1, <1>3, <1>6, <1>8
-----------------------------------------------------------------------------
(* The invariant. *)

(* What add_route makes of a text. *)
RouteOf(text) == [text |-> text, regex |-> generate_route_regex(text),
                  depth |-> url_depth(text), params |-> parse_param_ids_in_route(text)]

(* What process_http finds for a request. *)
Found(r) == match(RequestText(r))

(* What its handler gets. *)
Answered(r) == IF Found(r) = 0 THEN Unrouted ELSE Answer(Found(r), RequestText(r))

(* What add_callback makes of a url. *)
Destined(c) == [uri |-> c, destination |-> parse_url(CallbackText(c)),
                callback_path |-> parse_path(CallbackText(c))]

(* The inductive invariant.  Routes come from add_route; the answer is a      *)
(* function of the request in hand and of the routes, which do not change     *)
(* while it is there; so is what add_callback keeps of a url.  The properties *)
(* follow from this and from what the functions on texts do.                  *)
RouterInv ==
    /\ routes \in Seq({RouteOf(text) : text \in RouteTexts})
    /\ \/ request = NoRequest /\ answer = Unrouted
       \/ request # NoRequest /\ \E r \in Requests : request = r /\ answer = Answered(r)
    /\ callback = NoCallback \/ \E c \in Callbacks : callback = Destined(c)

(* The answer depends on the routes alone. *)
LEMMA AnsweredStays ==
    ASSUME NEW r, routes' = routes
    PROVE  Answered(r)' = Answered(r)
<1>1. Found(r)' = Found(r)
  BY DEF Found, match, SelectInSeq
<1>2. ASSUME NEW i, NEW url
      PROVE  Answer(i, url)' = Answer(i, url)
  BY DEF Answer
<1>3. QED
  BY <1>1, <1>2 DEF Answered

(* Every operation keeps the invariant: add_route, process_http and           *)
(* add_callback.                                                              *)
LEMMA Invariant == Spec => []RouterInv
<1>1. Init => RouterInv
  <2> SUFFICES ASSUME Init
               PROVE  RouterInv
    OBVIOUS
  <2>1. <<>> \in Seq({RouteOf(text) : text \in RouteTexts})
    OBVIOUS
  <2>2. QED
    BY <2>1 DEF Init, RouterInv
<1>2. RouterInv /\ [Next]_routerVars => RouterInv'
  <2> SUFFICES ASSUME RouterInv, [Next]_routerVars
               PROVE  RouterInv'
    OBVIOUS
  <2>1. ASSUME NEW text \in RouteTexts, add_route(text)
        PROVE  RouterInv'
    <3> DEFINE R == {RouteOf(t) : t \in RouteTexts}
    <3>1. routes' = Append(routes, RouteOf(text)) /\ RouteOf(text) \in R /\ routes \in Seq(R)
      BY <2>1 DEF add_route, RouteOf, RouterInv
    <3>2. request = NoRequest /\ UNCHANGED <<request, answer, callback>>
      BY <2>1 DEF add_route
    <3> HIDE DEF R
    <3>3. routes' \in Seq(R)
      BY <3>1, AppendProperties
    <3>4. QED
      BY <3>2, <3>3 DEF RouterInv, R
  <2>2. ASSUME NEW r \in Requests, process_http(r)
        PROVE  RouterInv'
    <3>1. UNCHANGED <<routes, callback>> /\ request' = r /\ answer' = Answered(r)
      BY <2>2 DEF process_http, Answered, Found
    <3>2. r # NoRequest
      <4>1. r.segments # <<>>
        BY RequestAssumption
      <4>2. NoRequest.segments = <<>>
        BY DEF NoRequest
      <4>3. QED
        BY <4>1, <4>2
    <3>3. Answered(r)' = Answered(r)
      BY <3>1, AnsweredStays
    <3>4. QED
      BY <3>1, <3>2, <3>3 DEF RouterInv
  <2>3. ASSUME NEW c \in Callbacks, add_callback(c)
        PROVE  RouterInv'
    <3>1. UNCHANGED <<routes, request, answer>> /\ request = NoRequest /\ callback' = Destined(c)
      BY <2>3 DEF add_callback, Destined
    <3>2. QED
      BY <3>1 DEF RouterInv
  <2>4. CASE UNCHANGED routerVars
    <3>1. UNCHANGED <<routes, request, answer, callback>>
      BY <2>4 DEF routerVars
    <3>2. CASE request = NoRequest
      BY <3>1, <3>2 DEF RouterInv
    <3>3. CASE request # NoRequest
      <4>1. PICK r \in Requests : request = r /\ answer = Answered(r)
        BY <3>3 DEF RouterInv
      <4>2. Answered(r)' = Answered(r)
        BY <3>1, AnsweredStays
      <4>3. QED
        BY <3>1, <3>3, <4>1, <4>2 DEF RouterInv
    <3>4. QED
      BY <3>2, <3>3
  <2>5. QED
    BY <2>1, <2>2, <2>3, <2>4 DEF Next
<1>3. QED
  BY <1>1, <1>2, PTL DEF Spec
-----------------------------------------------------------------------------
(* What match finds, and the positions of parameters. *)

(* The route that match finds. *)
Takes(i, url) == /\ routes[i].depth = url_depth(UpTo(url, "?"))
                 /\ regex_match(UpTo(url, "?"), routes[i].regex)

(* Router::match finds the first of the routes that take a url, or none. *)
LEMMA MatchFinds ==
    ASSUME NEW url
    PROVE  /\ match(url) # 0 => /\ match(url) \in 1 .. Len(routes) /\ Takes(match(url), url)
                                /\ \A i \in 1 .. Len(routes) : Takes(i, url) => match(url) <= i
           /\ match(url) = 0 => \A i \in 1 .. Len(routes) : ~Takes(i, url)
<1> DEFINE I == {i \in 1 .. Len(routes) : Takes(i, url)}
<1>1. match(url) = IF I # {} THEN Min(I) ELSE 0
  BY DEF match, SelectInSeq, Takes
<1>2. CASE I = {}
  BY <1>1, <1>2
<1>3. CASE I # {}
  <2>1. I \in SUBSET Nat
    OBVIOUS
  <2>2. PICK m \in I : \A n \in I : m <= n
    <3> HIDE DEF I
    <3> QED BY <1>3, <2>1, Least
  <2>3. Min(I) = m
    <3> HIDE DEF I
    <3> QED BY <2>1, <2>2, LeastIsMin
  <2>4. match(url) = m /\ m \in I /\ m # 0
    BY <1>1, <1>3, <2>3
  <2> HIDE DEF Takes
  <2>5. QED
    BY <2>2, <2>4
<1>4. QED
  BY <1>2, <1>3

(* The text of a request by its parts: what match reads is its path, which is *)
(* split into its segments.                                                   *)
LEMMA RequestParts ==
    ASSUME NEW r \in Requests
    PROVE  /\ r.segments \in Texts(Word) /\ r.query \in Seq(Field)
           /\ PathText(r.segments) \in Seq(Symbols \ {"?"})
           /\ QueryText(r.query) \in Seq(Symbols)
           /\ RequestText(r) = PathText(r.segments) \o QueryText(r.query)
           /\ UpTo(RequestText(r), "?") = PathText(r.segments)
           /\ Pieces(PathText(r.segments), "/") = << <<>> >> \o r.segments
<1> DEFINE X == Symbols \ {"?"}
           p == PathText(r.segments)
           q == QueryText(r.query)
<1>0. {"/", "?", "&", "=", ",", ":"} \subseteq Symbols /\ "/" # "?"
  BY RouteAssumption
<1>1. r.segments \in Texts(Word)
  BY RequestAssumption DEF Texts, Word, Plaintext
<1>2. r.query \in Seq(Field)
  BY RequestAssumption DEF Field
<1>3. "/" \in X /\ "?" \in Symbols /\ X \ {"/"} = Word
  BY <1>0 DEF Word
<1>4. p \in Seq(X) /\ Pieces(p, "/") = << <<>> >> \o r.segments
  <2>1. r.segments \in Lines(Word) /\ r.segments # <<>>
    BY <1>1 DEF Texts, Lines
  <2> HIDE DEF X
  <2>2. r.segments \in Lines(X \ {"/"})
    BY <1>3, <2>1
  <2>3. QED
    BY <1>3, <2>1, <2>2, PathSplit
<1>5. q \in Seq(Symbols)
  BY <1>2, QueryMarked
<1>6. UpTo(p \o q, "?") = p
  <2>1. p \in Seq(Symbols)
    <3>1. X \subseteq Symbols
      OBVIOUS
    <3> HIDE DEF X, p
    <3>2. QED
      BY <1>4, <3>1, SeqMonotonic
  <2>2. CASE r.query = <<>>
    <3>1. q = <<>>
      BY <1>2, <2>2, QueryMarked
    <3>2. p \o <<>> = p
      BY <2>1, ConcatEmptySeq
    <3>3. UpTo(p, "?") = p
      BY <1>3, <1>4, UpToPlain
    <3>4. QED
      BY <3>1, <3>2, <3>3
  <2>3. CASE r.query # <<>>
    <3>1. PICK b \in Seq(X) : q = <<"?">> \o b
      BY <1>2, <2>3, QueryMarked
    <3>2. b \in Seq(Symbols) /\ <<"?">> \in Seq(Symbols)
      <4>1. X \subseteq Symbols
        OBVIOUS
      <4> HIDE DEF X
      <4>2. QED
        BY <1>3, <3>1, <4>1, SeqMonotonic, OneSymbol
    <3> HIDE DEF p, q
    <3>3. (p \o <<"?">>) \o b = p \o (<<"?">> \o b)
      BY <2>1, <3>2, ConcatAssociative
    <3>4. UpTo((p \o <<"?">>) \o b, "?") = p
      BY <1>3, <1>4, <3>2, UpToCut
    <3>5. QED
      BY <3>1, <3>3, <3>4
  <2>4. QED
    BY <2>2, <2>3
<1>7. QED
  BY <1>1, <1>2, <1>4, <1>5, <1>6 DEF RequestText

(* The delimiters are symbols, and no part of a word. *)
LEMMA WordFacts ==
    /\ {"/", "?", "&", "=", ",", ":"} \subseteq Symbols /\ "/" # "?"
    /\ Word \subseteq Symbols /\ Word \subseteq Symbols \ {"/"} /\ Word \subseteq Symbols \ {"?"}
    /\ "/" \notin Word /\ "?" \notin Word
BY RouteAssumption DEF Word

(* What a route was found for. *)
LEMMA ServedBy ==
    ASSUME RouterInv, answer.route # 0
    PROVE  \E r \in Requests, text \in RouteTexts, i \in 1 .. Len(routes) :
              /\ request = r /\ request # NoRequest /\ answer = Answer(i, RequestText(r)) /\ answer.route = i
              /\ i = Found(r) /\ routes[i] = RouteOf(text) /\ Takes(i, RequestText(r))
<1>1. request # NoRequest
  BY DEF RouterInv, Unrouted
<1>2. PICK r \in Requests : request = r /\ answer = Answered(r)
  BY <1>1 DEF RouterInv
<1> DEFINE i == Found(r)
<1>3. i # 0 /\ answer = Answer(i, RequestText(r))
  BY <1>2 DEF Answered, Unrouted
<1>4. i \in 1 .. Len(routes) /\ Takes(i, RequestText(r))
  BY <1>3, MatchFinds DEF Found
<1>5. routes[i] \in {RouteOf(text) : text \in RouteTexts}
  <2> DEFINE R == {RouteOf(text) : text \in RouteTexts}
  <2>1. routes \in Seq(R)
    BY DEF RouterInv
  <2> HIDE DEF R, i
  <2>2. routes[i] \in R
    BY <1>4, <2>1, ElementOfSeq
  <2>3. QED
    BY <2>2 DEF R
<1>6. answer.route = i
  BY <1>3 DEF Answer
<1>7. PICK text \in RouteTexts : routes[i] = RouteOf(text)
  BY <1>5
<1> HIDE DEF i
<1>8. QED
  BY <1>1, <1>2, <1>3, <1>4, <1>6, <1>7 DEF i

(* The parameters of a route. *)
LEMMA RouteParams ==
    ASSUME NEW text \in RouteTexts, NEW n, n = url_depth(text)
    PROVE  /\ n \in Nat /\ n >= 2
           /\ \E others \in Seq(Before(n - 1)), last \in Before(n) :
                 /\ parse_param_ids_in_route(text) = Append(others, last)
                 /\ last = [pos |-> n - 1, name |-> split(text, "/")[n]]
                 /\ others \in Seq(Before(n))
<1> DEFINE tokens == split(text, "/")
<1>1. PICK t \in Texts(Word) : tokens = << <<>> >> \o t
  BY RouteTokens
<1>2. t \in Seq(Seq(Symbols)) /\ Len(t) \in Nat /\ Len(t) >= 1
  <2>1. t \in Lines(Word) /\ t # <<>>
    BY DEF Texts, Lines
  <2>2. t \in Lines(Symbols)
    BY <2>1, LinesWiden, WordFacts
  <2>3. t \in Seq(Seq(Symbols))
    BY <2>2 DEF Lines
  <2>4. Len(t) \in Nat \ {0}
    BY <2>1, <2>3, EmptySeq
  <2>5. QED
    BY <2>3, <2>4
<1>3. Len(tokens) = 1 + Len(t)
  <2>1. << <<>> >> \in Seq(Seq(Symbols)) /\ Len(<< <<>> >>) = 1
    OBVIOUS
  <2> HIDE DEF tokens
  <2>2. QED
    BY <1>1, <1>2, <2>1, ConcatProperties
<1>4. n = Len(tokens)
  BY DEF url_depth
<1>5. n \in Nat /\ n >= 2
  BY <1>2, <1>3, <1>4
<1>6. text \in Seq(Symbols)
  BY RouteTokens
<1>7. n >= 2 /\ ~IsParam(tokens[1])
  <2>1. <<>> \in Seq(Symbols)
    OBVIOUS
  <2>2. (<< <<>> >> \o t)[1] = <<>>
    <3>1. t[1] \in Seq(Symbols)
      BY <1>2, ElementOfSeq
    <3> DEFINE e == << <<>> >>
               T == Seq(Symbols)
    <3>2. e \in Seq(T) /\ Len(e) = 1 /\ e[1] = <<>>
      BY <2>1
    <3> HIDE DEF e, T
    <3>3. t \in Seq(T) /\ Len(t) \in Nat
      BY <1>2 DEF T
    <3>4. \A i \in 1 .. Len(e) + Len(t) : (e \o t)[i] = IF i <= Len(e) THEN e[i] ELSE t[i - Len(e)]
      BY <3>2, <3>3, ConcatProperties
    <3>5. 1 \in 1 .. Len(e) + Len(t) /\ 1 <= Len(e)
      BY <3>2, <3>3
    <3>6. QED
      BY <3>2, <3>4, <3>5 DEF e
  <2>3. ~IsParam(<<>>)
    BY DEF IsParam
  <2>4. QED
    BY <1>1, <1>5, <2>2, <2>3
<1> HIDE DEF tokens
<1>8. /\ tokens \in Lines(Symbols)
      /\ \E others \in Seq(Before(n - 1)) :
            parse_param_ids_in_route(text) = Append(others, [pos |-> n - 1, name |-> tokens[n]])
  BY <1>4, <1>6, <1>7, ParamIds DEF tokens
<1>9. PICK others \in Seq(Before(n - 1)) :
         parse_param_ids_in_route(text) = Append(others, [pos |-> n - 1, name |-> tokens[n]])
  BY <1>8
<1>10. [pos |-> n - 1, name |-> tokens[n]] \in Before(n)
  <2>1. n \in 1 .. Len(tokens)
    BY <1>4, <1>5
  <2>2. tokens[n] \in Seq(Symbols)
    BY <1>8, <2>1, ElementOfSeq DEF Lines
  <2>3. n - 1 \in Nat /\ 1 <= n - 1 /\ n - 1 < n
    BY <1>5
  <2>4. QED
    BY <2>2, <2>3 DEF Before
<1>11. others \in Seq(Before(n))
  <2>1. Before(n - 1) \subseteq Before(n)
    BY <1>5 DEF Before
  <2>2. QED
    BY <2>1, SeqMonotonic
<1>12. QED
  BY <1>5, <1>9, <1>10, <1>11 DEF tokens

(* A route's parameters are at positions before its depth. *)
LEMMA ParamsBefore ==
    ASSUME NEW text \in RouteTexts
    PROVE  parse_param_ids_in_route(text) \in Seq(Before(url_depth(text)))
<1> DEFINE n == url_depth(text)
<1>1. PICK others \in Seq(Before(n - 1)), last \in Before(n) :
         /\ parse_param_ids_in_route(text) = Append(others, last)
         /\ others \in Seq(Before(n))
  BY RouteParams
<1> HIDE DEF n
<1>2. Append(others, last) \in Seq(Before(n))
  BY <1>1, AppendProperties
<1>3. QED
  BY <1>1, <1>2 DEF n

(* PositionsInRange in a state of the invariant. *)
LEMMA RangedIn ==
    ASSUME RouterInv
    PROVE  PositionsInRange
<1> SUFFICES ASSUME answer.route # 0
             PROVE  InRange(RequestText(request), routes[answer.route].params)
  BY DEF PositionsInRange
<1>1. PICK r \in Requests, text \in RouteTexts, i \in 1 .. Len(routes) :
         /\ request = r /\ answer.route = i /\ routes[i] = RouteOf(text) /\ Takes(i, RequestText(r))
  BY ServedBy
<1> DEFINE p == PathText(r.segments)
           q == QueryText(r.query)
           schema == parse_param_ids_in_route(text)
           n == url_depth(text)
<1>2. /\ p \in Seq(Symbols \ {"?"}) /\ q \in Seq(Symbols)
      /\ RequestText(r) = p \o q /\ UpTo(RequestText(r), "?") = p
  BY RequestParts
<1>3. p \in Seq(Symbols)
  <2> HIDE DEF p
  <2> QED BY <1>2, SeqMonotonic
<1>4. n = url_depth(p)
  BY <1>1, <1>2 DEF Takes, RouteOf
<1>5. Len(split(p, "/")) <= Len(split(p \o q, "/"))
  <2>1. "/" \in Symbols
    BY WordFacts
  <2> HIDE DEF p, q
  <2>2. QED
    BY <1>2, <1>3, <2>1, SplitGrows
<1>6. Len(split(p, "/")) \in Nat /\ Len(split(p \o q, "/")) \in Nat
  <2> HIDE DEF p, q
  <2>1. p \o q \in Seq(Symbols)
    BY <1>2, <1>3, ConcatProperties
  <2>2. split(p, "/") \in Seq(Seq(Symbols)) /\ split(p \o q, "/") \in Seq(Seq(Symbols))
    BY <1>3, <2>1, SplitType
  <2>3. QED
    BY <2>2, LenProperties
<1>7. schema \in Seq(Before(n))
  BY ParamsBefore
<1>8. routes[answer.route].params = schema
  BY <1>1 DEF RouteOf
<1> HIDE DEF p, q, schema, n
<1>9. ASSUME NEW k \in 1 .. Len(schema)
      PROVE  schema[k].pos < Len(split(p \o q, "/"))
  <2>1. schema[k] \in Before(n)
    BY <1>7, ElementOfSeq
  <2>2. schema[k].pos \in Nat /\ schema[k].pos < n
    BY <2>1 DEF Before
  <2>3. n = Len(split(p, "/"))
    BY <1>4 DEF url_depth
  <2>4. QED
    BY <1>5, <1>6, <2>2, <2>3
<1>10. InRange(RequestText(r), schema)
  BY <1>2, <1>9 DEF InRange
<1>11. QED
  BY <1>1, <1>8, <1>10

(* In every state the positions of the parameters of the route that           *)
(* Router::match found are positions of the request's url, so that            *)
(* parse_all_params_in_url reads only tokens that there are.  The url's       *)
(* tokens are never fewer than the route's: match has compared the depths,    *)
(* and a query adds tokens at the end only.                                   *)
THEOREM Ranged == Spec => []PositionsInRange
<1>1. RouterInv => PositionsInRange
  BY RangedIn
<1>2. QED
  BY <1>1, Invariant, PTL

(* A sequence behind one more element. *)
LEMMA HeadFirst ==
    ASSUME NEW S, NEW x \in S, NEW s \in Seq(S)
    PROVE  /\ <<x>> \o s \in Seq(S)
           /\ Len(<<x>> \o s) = 1 + Len(s) /\ Len(s) \in Nat
           /\ (<<x>> \o s)[1] = x
           /\ \A i \in 1 .. Len(s) : (<<x>> \o s)[i + 1] = s[i]
<1>1. <<x>> \in Seq(S) /\ Len(<<x>>) = 1 /\ <<x>>[1] = x
  OBVIOUS
<1> DEFINE h == <<x>>
           t == h \o s
<1> HIDE DEF h
<1>2. Len(s) \in Nat /\ h \in Seq(S) /\ Len(h) = 1 /\ h[1] = x
  BY <1>1, LenProperties DEF h
<1>3. t \in Seq(S) /\ Len(t) = 1 + Len(s)
  BY <1>2, ConcatProperties, ZenonT(30)
<1>4. \A i \in 1 .. Len(h) + Len(s) : t[i] = IF i <= Len(h) THEN h[i] ELSE s[i - Len(h)]
  BY <1>2, ConcatProperties
<1> HIDE DEF t
<1>5. t[1] = x
  BY <1>2, <1>4
<1>6. ASSUME NEW i \in 1 .. Len(s)
      PROVE  t[i + 1] = s[i]
  <2>1. i + 1 \in 1 .. Len(h) + Len(s) /\ ~(i + 1 <= Len(h)) /\ (i + 1) - Len(h) = i
    BY <1>2
  <2>2. QED
    BY <1>4, <2>1
<1>7. QED
  BY <1>2, <1>3, <1>5, <1>6 DEF t, h
-----------------------------------------------------------------------------
(* The values of parameters. *)

(* Concatenation can be regrouped. *)
Associates(S) == \A s \in Seq(S) : \A t \in Seq(S) : \A u \in Seq(S) : (s \o t) \o u = s \o (t \o u)

(* It can, whatever the elements are. *)
LEMMA ConcatAssociates ==
    ASSUME NEW S
    PROVE  Associates(S)
BY ConcatAssociative DEF Associates

(* The text of a path with one more segment. *)
LEMMA PathMore ==
    ASSUME NEW X, "/" \in X, NEW front \in Lines(X), NEW l \in Seq(X)
    PROVE  /\ PathText(front) \in Seq(X)
           /\ PathText(Append(front, l)) = (PathText(front) \o <<"/">>) \o l
<1>1. <<"/">> \in Seq(X)
  BY OneSymbol
<1>2. PathText(front) \in Seq(X)
  <2>1. Joined(<<"/">>, <<"/">>, front) \in Seq(X)
    BY <1>1, JoinedType
  <2>2. QED
    BY <2>1, PathJoins
<1>3. CASE front = <<>>
  <2>1. Append(front, l) = <<l>>
    BY <1>3
  <2>2. PathText(<<l>>) = <<"/">> \o l
    <3>1. Joined(<<"/">>, <<"/">>, <<l>>) = <<"/">> \o l
      BY <1>1, JoinedOne
    <3>2. QED
      BY <3>1, PathJoins
  <2>3. PathText(front) = <<>>
    BY <1>3, JoinedNone, PathJoins
  <2>4. <<>> \o <<"/">> = <<"/">>
    OBVIOUS
  <2>5. QED
    BY <1>2, <2>1, <2>2, <2>3, <2>4
<1>4. CASE front # <<>>
  <2>1. JoinsMore(X, <<"/">>, <<"/">>)
    BY <1>1, JoinedMore
  <2>2. front \in Texts(X)
    BY <1>4, LinesTexts
  <2>3. Joined(<<"/">>, <<"/">>, Append(front, l)) = (Joined(<<"/">>, <<"/">>, front) \o <<"/">>) \o l
    BY <2>1, <2>2 DEF JoinsMore
  <2>4. QED
    BY <1>2, <2>3, PathJoins
<1>5. QED
  BY <1>3, <1>4

(* The pieces of a path, and of its text up to a segment. *)
LEMMA PathPieces ==
    ASSUME NEW front \in Lines(Word)
    PROVE  Pieces(PathText(front), "/") = << <<>> >> \o front
<1>1. CASE front = <<>>
  <2>1. PathText(front) = <<>>
    BY <1>1, JoinedNone, PathJoins
  <2>2. << <<>> >> \o <<>> = << <<>> >>
    OBVIOUS
  <2>3. QED
    BY <1>1, <2>1, <2>2, PiecesNone
<1>2. CASE front # <<>>
  <2> DEFINE X == Symbols \ {"?"}
  <2>1. "/" \in X /\ Word = X \ {"/"}
    BY WordFacts DEF Word
  <2> HIDE DEF X
  <2>2. front \in Lines(X \ {"/"})
    BY <2>1
  <2>3. QED
    BY <1>2, <2>1, <2>2, PathSplit
<1>3. QED
  BY <1>1, <1>2

(* The tokens of a url: the segments before the last, and what the last is    *)
(* split into together with the query.                                        *)
LEMMA UrlTokens ==
    ASSUME NEW front \in Lines(Word), NEW l \in Seq(Word), NEW q \in Seq(Symbols)
    PROVE  split(PathText(Append(front, l)) \o q, "/") = (<< <<>> >> \o front) \o split(l \o q, "/")
<1> DEFINE p == PathText(front)
           m == l \o q
           c == p \o <<"/">>
<1>1. /\ "/" \in Symbols /\ front \in Lines(Symbols) /\ l \in Seq(Symbols) /\ <<"/">> \in Seq(Symbols)
  BY WordFacts, LinesWiden, SeqMonotonic, OneSymbol
<1>2. p \in Seq(Symbols) /\ PathText(Append(front, l)) = c \o l
  BY <1>1, PathMore
<1> HIDE DEF p
<1>3. m \in Seq(Symbols)
  BY <1>1, ConcatProperties
<1>4. c \in Seq(Symbols)
  BY <1>1, <1>2, ConcatProperties
<1>5. (c \o l) \o q = c \o m
  <2> HIDE DEF c
  <2> QED BY <1>1, <1>4, ConcatAssociative, SMTT(30)
<1> HIDE DEF m
<1>6. split(c \o m, "/") = Pieces(p, "/") \o split(m, "/")
  BY <1>1, <1>2, <1>3, SplitCut, Zenon
<1>7. Pieces(p, "/") = << <<>> >> \o front
  BY PathPieces DEF p
<1>8. QED
  BY <1>2, <1>5, <1>6, <1>7 DEF m

(* The last segment's token, up to its query. *)
LEMMA CutToken ==
    ASSUME NEW l \in Seq(Word), NEW b \in Seq(Symbols)
    PROVE  /\ split((l \o <<"?">>) \o b, "?") = <<l>> \o split(b, "?")
           /\ split((l \o <<"?">>) \o b, "?")[1] = l
<1>1. "?" \in Symbols /\ "?" \notin Word /\ l \in Seq(Symbols)
  BY WordFacts, SeqMonotonic
<1>2. Pieces(l, "?") = <<l>>
  BY <1>1, PiecesPlain
<1>3. split((l \o <<"?">>) \o b, "?") = Pieces(l, "?") \o split(b, "?")
  BY <1>1, SplitCut
<1>4. split(b, "?") \in Seq(Seq(Symbols))
  BY SplitType
<1>5. (<<l>> \o split(b, "?"))[1] = l
  BY <1>1, <1>4, HeadFirst
<1>6. QED
  BY <1>2, <1>3, <1>5

(* What stands before the question mark in the first of those is the last     *)
(* segment.                                                                   *)
LEMMA FirstToken ==
    ASSUME NEW l \in Seq(Word), l # <<>>, NEW q \in Seq(Symbols),
           q = <<>> \/ \E b \in Seq(Symbols) : q = <<"?">> \o b
    PROVE  split(split(l \o q, "/")[1], "?")[1] = l
<1>0. /\ "/" \in Symbols /\ "?" \in Symbols /\ "/" \notin Word /\ "?" \notin Word /\ l \in Seq(Symbols)
      /\ "/" # "?" /\ Word \subseteq Symbols \ {"/"}
  BY WordFacts, SeqMonotonic
<1>1. CASE q = <<>>
  <2>1. l \o q = l
    BY <1>1, ConcatEmptySeq
  <2>2. split(l, "/") = <<l>> /\ split(l, "?") = <<l>>
    BY <1>0, SplitPlain
  <2>3. QED
    BY <2>1, <2>2
<1>2. CASE \E b \in Seq(Symbols) : q = <<"?">> \o b
  <2>1. PICK b \in Seq(Symbols) : q = <<"?">> \o b
    BY <1>2
  <2> DEFINE W == Symbols \ {"/"}
             c == l \o <<"?">>
  <2>2. <<"?">> \in Seq(W) /\ <<"?">> \in Seq(Symbols) /\ l \in Seq(W) /\ "/" \notin W
    <3>1. "?" \in W /\ Word \subseteq W
      BY <1>0
    <3>2. "/" \notin W
      OBVIOUS
    <3> HIDE DEF W
    <3>3. QED
      BY <1>0, <3>1, <3>2, OneSymbol, SeqMonotonic
  <2>3. l \o q = c \o b
    BY <1>0, <2>1, <2>2, ConcatAssociative, SMTT(30)
  <2>4. c \in Seq(W) /\ c \in Seq(Symbols)
    <3> HIDE DEF W
    <3> QED BY <1>0, <2>2, ConcatProperties
  <2>5. ASSUME NEW a \in Seq(W)
        PROVE  /\ c \o a \in Seq(W) /\ c \o a \in Seq(Symbols)
               /\ split(c \o a, "?")[1] = l /\ Pieces(c \o a, "/") = <<c \o a>>
    <3>1. a \in Seq(Symbols)
      <4>1. W \subseteq Symbols
        OBVIOUS
      <4> HIDE DEF W
      <4>2. QED
        BY <4>1, SeqMonotonic
    <3>2. split(c \o a, "?")[1] = l
      BY <3>1, CutToken
    <3> HIDE DEF c, W
    <3>3. c \o a \in Seq(W) /\ c \o a \in Seq(Symbols)
      BY <2>4, <3>1, ConcatProperties
    <3>4. Pieces(c \o a, "/") = <<c \o a>>
      BY <2>2, <3>3, PiecesPlain
    <3>5. QED
      BY <3>2, <3>3, <3>4
  <2>6. CASE b \in Seq(W)
    <3> DEFINE t == c \o b
    <3>1. t \in Seq(W) /\ split(t, "?")[1] = l
      BY <2>5, <2>6
    <3>2. t # <<>>
      <4>1. c # <<>>
        BY <1>0, <2>2, ConcatEqualIffEmpty
      <4> HIDE DEF c
      <4>2. QED
        BY <2>4, <4>1, ConcatEqualIffEmpty
    <3>4. l \o q = t
      BY <2>3
    <3> HIDE DEF t, W
    <3>3. split(t, "/") = <<t>>
      BY <2>2, <3>1, <3>2, SplitPlain
    <3>5. split(t, "/")[1] = t
      BY <3>3
    <3>6. QED
      BY <3>1, <3>4, <3>5
  <2>7. CASE \E a \in Seq(W), d \in Seq(Symbols) : b = (a \o <<"/">>) \o d
    <3>1. PICK a \in Seq(W), d \in Seq(Symbols) : b = (a \o <<"/">>) \o d
      BY <2>7
    <3> DEFINE t == c \o a
    <3>2. t \in Seq(Symbols) /\ split(t, "?")[1] = l /\ Pieces(t, "/") = <<t>>
      BY <2>5
    <3>3. a \in Seq(Symbols) /\ <<"/">> \in Seq(Symbols)
      <4>1. W \subseteq Symbols
        OBVIOUS
      <4> HIDE DEF W
      <4>2. QED
        BY <1>0, <4>1, SeqMonotonic, OneSymbol
    <3>4. c \o b = (t \o <<"/">>) \o d
      <4> DEFINE e == a \o <<"/">>
      <4>1. e \in Seq(Symbols)
        BY <3>3, ConcatProperties
      <4> HIDE DEF c, W
      <4>2. c \o e = (c \o a) \o <<"/">>
        BY <2>4, <3>3, ConcatAssociative, SMTT(30)
      <4> HIDE DEF e
      <4>3. (c \o e) \o d = c \o (e \o d)
        <5>1. c \in Seq(Symbols)
          BY <2>4
        <5>2. Associates(Symbols)
          BY ConcatAssociates
        <5>3. QED
          BY <4>1, <5>1, <5>2, Zenon DEF Associates
      <4>4. QED
        BY <3>1, <4>2, <4>3 DEF e
    <3> HIDE DEF t, c, W
    <3>5. split((t \o <<"/">>) \o d, "/") = Pieces(t, "/") \o split(d, "/")
      BY <1>0, <3>2, SplitCut, ZenonT(30)
    <3>6. split(d, "/") \in Seq(Seq(Symbols))
      BY SplitType
    <3>7. (<<t>> \o split(d, "/"))[1] = t
      BY <3>2, <3>6, HeadFirst
    <3>8. QED
      BY <2>3, <3>2, <3>4, <3>5, <3>7
  <2>8. b \in Seq(W) \/ \E a \in Seq(W), d \in Seq(Symbols) : b = (a \o <<"/">>) \o d
    <3>1. CutAt(Symbols, "/", b)
      BY <1>0, FirstCut
    <3>2. QED
      BY <3>1 DEF CutAt
  <2> HIDE DEF W
  <2>9. QED
    BY <2>6, <2>7, <2>8
<1>3. QED
  BY <1>1, <1>2

(* The token at a position of the path, without a query, is the segment at    *)
(* that position.                                                             *)
LEMMA TokenValue ==
    ASSUME NEW r \in Requests, NEW pos \in Nat, pos < url_depth(PathText(r.segments)),
           split(RequestText(r), "/")[pos + 1] # <<>>
    PROVE  split(split(RequestText(r), "/")[pos + 1], "?")[1] = r.segments[pos]
<1>1. /\ r.segments \in Texts(Word) /\ QueryText(r.query) \in Seq(Symbols)
      /\ RequestText(r) = PathText(r.segments) \o QueryText(r.query)
      /\ r.query \in Seq(Field)
  BY RequestParts
<1>2. PICK front \in Seq(Seq(Word)), l \in Seq(Word) : r.segments = Append(front, l)
  <2> DEFINE s == r.segments
  <2>1. s \in Texts(Word)
    BY <1>1
  <2> HIDE DEF s
  <2>2. \E f \in Seq(Seq(Word)), e \in Seq(Word) : s = Append(f, e)
    BY <2>1, TextsAppend
  <2>3. QED
    BY <2>2 DEF s
<1> DEFINE q == QueryText(r.query)
           H == << <<>> >> \o front
           U == split(l \o q, "/")
           L == split(l, "/")
           T == H \o U
           m == Len(front)
<1>3. front \in Lines(Word) /\ q \in Seq(Symbols) /\ <<>> \in Seq(Symbols) /\ l \in Seq(Symbols)
  <2>1. Word \subseteq Symbols
    BY WordFacts
  <2>2. l \in Seq(Symbols)
    BY <2>1, SeqMonotonic
  <2>3. <<>> \in Seq(Symbols)
    OBVIOUS
  <2>4. QED
    BY <1>1, <2>2, <2>3 DEF Lines
<1>4. split(RequestText(r), "/") = T
  BY <1>1, <1>2, <1>3, UrlTokens
<1>5. url_depth(PathText(r.segments)) = Len(H \o L)
  <2> DEFINE p == PathText(Append(front, l))
  <2>1. split(p \o <<>>, "/") = H \o split(l \o <<>>, "/")
    BY <1>3, UrlTokens
  <2>2. l \o <<>> = l
    BY ConcatEmptySeq
  <2>3. p \in Seq(Symbols \ {"?"})
    BY <1>2, RequestParts
  <2> HIDE DEF H, L
  <2>4. p \o <<>> = p
    <3> HIDE DEF p
    <3> QED BY <2>3, ConcatEmptySeq
  <2>5. url_depth(p) = Len(H \o L)
    <3> HIDE DEF p
    <3> QED BY <2>1, <2>2, <2>4 DEF url_depth, L
  <2>6. QED
    BY <1>2, <2>5
<1>6. /\ H \in Seq(Seq(Symbols)) /\ Len(H) = 1 + m /\ m \in Nat /\ H[1] = <<>>
      /\ \A i \in 1 .. m : H[i + 1] = front[i]
  <2>1. front \in Seq(Seq(Symbols)) /\ <<>> \in Seq(Symbols)
    BY <1>3, WordFacts, LinesWiden DEF Lines
  <2>2. QED
    BY <2>1, HeadFirst
<1>7. U \in Seq(Seq(Symbols)) /\ L \in Seq(Seq(Symbols)) /\ (L = <<>> \/ (L = <<l>> /\ l # <<>>))
  <2>1. l \o q \in Seq(Symbols)
    BY <1>3, ConcatProperties
  <2>2. U \in Seq(Seq(Symbols)) /\ L \in Seq(Seq(Symbols))
    BY <1>3, <2>1, SplitType
  <2>3. L = <<>> \/ (L = <<l>> /\ l # <<>>)
    BY WordFacts, SplitPlain, ZenonT(30)
  <2>4. QED
    BY <2>2, <2>3
<1> HIDE DEF H, U, L, q
<1>20. H \in Seq(Seq(Symbols)) /\ U \in Seq(Seq(Symbols)) /\ L \in Seq(Seq(Symbols))
  BY <1>6, <1>7
<1>8. \A i \in 1 .. Len(H) + Len(U) : T[i] = IF i <= Len(H) THEN H[i] ELSE U[i - Len(H)]
  BY <1>20, ConcatProperties
<1>9. Len(H \o L) = Len(H) + Len(L) /\ Len(U) \in Nat /\ Len(L) \in Nat
  BY <1>20, ConcatProperties, LenProperties
<1>10. r.segments[m + 1] = l /\ \A i \in 1 .. m : r.segments[i] = front[i]
  BY <1>2, AppendProperties
<1>11. T[pos + 1] # <<>> /\ pos < Len(H) + Len(L)
  BY <1>4, <1>5, <1>9
<1> HIDE DEF T
<1>12. CASE pos = 0
  <2>1. 1 \in 1 .. Len(H) + Len(U) /\ 1 <= Len(H)
    BY <1>6, <1>9
  <2>2. T[1] = <<>>
    BY <1>6, <1>8, <2>1
  <2>3. QED
    BY <1>11, <1>12, <2>2
<1>13. CASE pos \in 1 .. m
  <2> DEFINE w == front[pos]
  <2>1. pos + 1 \in 1 .. Len(H) + Len(U) /\ pos + 1 <= Len(H)
    BY <1>6, <1>9, <1>13
  <2>2. T[pos + 1] = w
    BY <1>6, <1>8, <1>13, <2>1
  <2>3. w \in Seq(Word) /\ w # <<>>
    BY <1>11, <1>13, <2>2, ElementOfSeq
  <2>4. r.segments[pos] = w
    BY <1>10, <1>13
  <2> HIDE DEF w
  <2>5. split(w, "?") = <<w>>
    BY <2>3, WordFacts, SplitPlain
  <2>6. QED
    BY <1>4, <2>2, <2>4, <2>5
<1>14. CASE pos > m
  <2>1. L = <<l>> /\ l # <<>> /\ pos = m + 1
    <3>1. L # <<>>
      <4>1. Len(<<>>) = 0
        OBVIOUS
      <4>2. Len(L) # 0
        BY <1>6, <1>9, <1>11, <1>14
      <4>3. QED
        BY <4>1, <4>2
    <3>2. L = <<l>> /\ l # <<>>
      BY <1>7, <3>1
    <3>3. Len(<<l>>) = 1
      OBVIOUS
    <3>4. QED
      BY <1>6, <1>11, <1>14, <3>2, <3>3
  <2>2. q = <<>> \/ \E b \in Seq(Symbols) : q = <<"?">> \o b
    <3>1. CASE r.query = <<>>
      BY <1>1, <3>1, QueryMarked DEF q
    <3>2. CASE r.query # <<>>
      <4>1. PICK b \in Seq(Symbols \ {"?"}) : q = <<"?">> \o b
        BY <1>1, <3>2, QueryMarked DEF q
      <4>2. b \in Seq(Symbols)
        BY SeqMonotonic
      <4>3. QED
        BY <4>1, <4>2
    <3>3. QED
      BY <3>1, <3>2
  <2>3. split(U[1], "?")[1] = l
    <3>1. l # <<>>
      BY <2>1
    <3>2. q \in Seq(Symbols)
      BY <1>3
    <3>3. QED
      BY <2>2, <3>1, <3>2, FirstToken DEF U
  <2>4. Len(L) <= Len(U)
    <3>1. "/" \in Symbols /\ q \in Seq(Symbols) /\ l \in Seq(Symbols)
      BY <1>3, WordFacts
    <3>2. QED
      BY <3>1, SplitGrows DEF L, U
  <2>5. pos + 1 \in 1 .. Len(H) + Len(U) /\ ~(pos + 1 <= Len(H)) /\ (pos + 1) - Len(H) = 1
    <3>1. Len(L) = 1
      BY <2>1
    <3>2. QED
      BY <1>6, <1>9, <2>1, <2>4, <3>1
  <2>6. T[pos + 1] = U[1]
    BY <1>8, <2>5
  <2>7. QED
    BY <1>4, <1>10, <2>1, <2>3, <2>6
<1>15. QED
  BY <1>6, <1>12, <1>13, <1>14

(* The states of the invariant have the property. *)
LEMMA ValuedIn ==
    ASSUME RouterInv
    PROVE  ValuesFromPath
<1>1. CASE answer.route = 0
  <2>1. answer = Unrouted
    <3>1. CASE request = NoRequest
      BY <3>1 DEF RouterInv
    <3>2. CASE request # NoRequest
      <4>1. PICK r \in Requests : answer = Answered(r)
        BY <3>2 DEF RouterInv
      <4>2. Found(r) # 0 => answer.route = Found(r)
        BY <4>1 DEF Answered, Answer
      <4>3. QED
        BY <1>1, <4>1, <4>2 DEF Answered
    <3>3. QED
      BY <3>1, <3>2
  <2>2. answer.params = <<>>
    BY <2>1 DEF Unrouted
  <2>3. DOMAIN answer.params = {}
    BY <2>2
  <2>4. QED
    BY <2>3 DEF ValuesFromPath
<1>2. CASE answer.route # 0
  <2>1. PICK r \in Requests, text \in RouteTexts, i \in 1 .. Len(routes) :
           /\ request = r /\ answer = Answer(i, RequestText(r)) /\ answer.route = i
           /\ routes[i] = RouteOf(text) /\ Takes(i, RequestText(r))
    BY <1>2, ServedBy
  <2> DEFINE url == RequestText(r)
             schema == parse_param_ids_in_route(text)
             n == url_depth(text)
  <2>2. routes[i].params = schema /\ routes[answer.route].params = schema
    BY <2>1 DEF RouteOf
  <2>3. n = url_depth(PathText(r.segments))
    <3>1. routes[i].depth = n
      BY <2>1 DEF RouteOf
    <3>2. UpTo(url, "?") = PathText(r.segments)
      BY RequestParts
    <3>3. QED
      BY <2>1, <3>1, <3>2 DEF Takes
  <2>4. schema \in Seq(Before(n))
    BY ParamsBefore
  <2> HIDE DEF url, schema, n
  <2>5. CASE ~(InRange(url, schema) /\ ParamsDefined(url, schema))
    <3>1. answer.params = <<>>
      BY <2>1, <2>2, <2>5 DEF Answer, url
    <3>2. DOMAIN answer.params = {}
      BY <3>1
    <3>3. QED
      BY <3>2 DEF ValuesFromPath
  <2>6. CASE InRange(url, schema) /\ ParamsDefined(url, schema)
    <3>1. answer.params = parse_all_params_in_url(url, schema)
      BY <2>1, <2>2, <2>6 DEF Answer, url
    <3>2. /\ DOMAIN answer.params = 1 .. Len(schema)
          /\ \A k \in 1 .. Len(schema) :
                answer.params[k].value = split(split(url, "/")[schema[k].pos + 1], "?")[1]
      BY <3>1 DEF parse_all_params_in_url, TokensOf
    <3>3. ASSUME NEW k \in 1 .. Len(schema)
          PROVE  split(split(url, "/")[schema[k].pos + 1], "?")[1] = r.segments[schema[k].pos]
      <4> DEFINE pos == schema[k].pos
                 token == split(url, "/")[pos + 1]
      <4>1. pos \in Nat /\ pos < n
        <5>1. schema[k] \in Before(n)
          BY <2>4, ElementOfSeq
        <5>2. QED
          BY <5>1 DEF Before
      <4>2. token # <<>>
        <5>1. TokensOf(url, schema) = [j \in 1 .. Len(schema) |-> split(url, "/")[schema[j].pos + 1]]
          BY DEF TokensOf
        <5>2. token \in ToSet(TokensOf(url, schema))
          BY <5>1 DEF ToSet
        <5>3. QED
          BY <2>6, <5>2 DEF ParamsDefined
      <4> HIDE DEF pos
      <4>3. split(split(url, "/")[pos + 1], "?")[1] = r.segments[pos]
        BY <2>3, <4>1, <4>2, TokenValue DEF url
      <4>4. QED
        BY <4>3 DEF pos
    <3>4. QED
      BY <2>1, <2>2, <3>2, <3>3 DEF ValuesFromPath
  <2>7. QED
    BY <2>5, <2>6
<1>3. QED
  BY <1>1, <1>2

(* In every state the value that parse_all_params_in_url gives the handler    *)
(* for a parameter of the path is the request's segment at the parameter's    *)
(* position, whatever slashes and question marks the query holds.             *)
THEOREM Valued == Spec => []ValuesFromPath
<1>1. RouterInv => ValuesFromPath
  BY ValuedIn
<1>2. QED
  BY <1>1, Invariant, PTL

(* A concatenation begins as its first text does. *)
LEMMA ConcatHead ==
    ASSUME NEW X, NEW a \in Seq(X), NEW b \in Seq(X), a # <<>>
    PROVE  Head(a \o b) = Head(a) /\ a \o b # <<>>
<1>1. a \o b \in Seq(X) /\ Len(a) \in Nat \ {0} /\ Len(b) \in Nat
  BY ConcatProperties, EmptySeq, LenProperties
<1>2. (a \o b)[1] = a[1]
  BY <1>1, ConcatProperties
<1>3. a \o b # <<>>
  BY ConcatEqualIffEmpty
<1>4. QED
  BY <1>1, <1>2, <1>3, HeadTailProperties

(* The end of a text. *)
LEMMA Ending ==
    ASSUME NEW X, NEW a \in Seq(X), NEW b \in Seq(X)
    PROVE  SubSeq(a \o b, Len(a) + 1, Len(a \o b)) = b
<1> DEFINE m == Len(a)
           n == Len(b)
<1>1. Len(a \o b) = m + n /\ m \in Nat /\ n \in Nat /\ a \o b \in Seq(X)
  BY ConcatProperties, LenProperties
<1>2. CASE n = 0
  <2>1. b = <<>>
    BY <1>2, EmptySeq
  <2>2. SubSeq(a \o b, m + 1, m + n) = <<>>
    <3>1. m + 1 \in Int /\ m + n \in Int /\ m + n < m + 1
      BY <1>1, <1>2
    <3> HIDE DEF m, n
    <3>2. QED
      BY <3>1, SubSeqEmpty
  <2>3. QED
    BY <1>1, <2>1, <2>2
<1>3. CASE n # 0
  <2>1. /\ m + 1 \in m + 1 .. m + n /\ m + n \in m + 1 .. m + n
        /\ (m + 1) - m = 1 /\ (m + n) - m = n
    BY <1>1, <1>3
  <2>2. SubSeq(a \o b, m + 1, m + n) = SubSeq(b, (m + 1) - m, (m + n) - m)
    BY <2>1, SubSeqOfConcat2
  <2>3. SubSeq(b, 1, n) = b
    BY SubSeqFull
  <2> HIDE DEF m, n
  <2>4. SubSeq(a \o b, m + 1, m + n) = b
    BY <2>1, <2>2, <2>3
  <2>5. QED
    BY <1>1, <2>4 DEF m
<1>4. QED
  BY <1>2, <1>3

(* A text that does not contain a symbol is one of the other symbols. *)
LEMMA PlainIf ==
    ASSUME NEW X, NEW d, NEW s \in Seq(X), ~Contains(s, d)
    PROVE  s \in Seq(X \ {d})
<1>1. Len(s) \in Nat /\ s \in [1 .. Len(s) -> X]
  BY LenProperties
<1>2. \A i \in 1 .. Len(s) : s[i] \in X \ {d}
  BY <1>1 DEF Contains
<1>3. s = [i \in 1 .. Len(s) |-> s[i]]
  BY <1>1
<1> DEFINE n == Len(s)
<1>4. s \in [1 .. n -> X \ {d}] /\ n \in Nat
  BY <1>1, <1>2, <1>3
<1> HIDE DEF n
<1>5. QED
  BY <1>4
-----------------------------------------------------------------------------
(* Callbacks. *)

(* The url of a callback without its scheme. *)
Rest(c) == (c.address \o c.port) \o c.path

(* The url of a callback by its parts.  Its address is not a scheme: what     *)
(* NoScheme takes away is the scheme.                                         *)
LEMMA CallbackParts ==
    ASSUME NEW c \in Callbacks
    PROVE  /\ c.address \in Seq(Symbols \ {"/", ":"}) /\ c.address \in Seq(Symbols) /\ c.address # <<>>
           /\ Head(c.address) \notin Schemes
           /\ c.port \in Seq(Symbols) /\ c.path \in Seq(Symbols)
           /\ c.port = <<>> \/ \E n \in Numbers : c.port = <<":", n>>
           /\ c.path = <<>> \/ \E b \in Seq(Symbols) : c.path = <<"/">> \o b
           /\ NoScheme(CallbackText(c)) = Rest(c)
<1>0. "/" \in Symbols /\ ":" \in Symbols /\ Numbers \subseteq Symbols /\ Schemes \subseteq Symbols
  BY RouteAssumption, CallbackAssumption
<1>1. c.address \in Seq(Symbols \ {"/", ":"}) /\ c.address # <<>> /\ Head(c.address) \notin Schemes
  BY CallbackAssumption DEF Plaintext
<1>2. c.address \in Seq(Symbols)
  <2>1. Symbols \ {"/", ":"} \subseteq Symbols
    OBVIOUS
  <2>2. QED
    BY <1>1, <2>1, SeqMonotonic
<1>3. c.port = <<>> \/ \E n \in Numbers : c.port = <<":", n>>
  BY CallbackAssumption
<1>4. c.port \in Seq(Symbols)
  <2>1. CASE c.port = <<>>
    BY <2>1
  <2>2. CASE \E n \in Numbers : c.port = <<":", n>>
    <3>1. PICK n \in Numbers : c.port = <<":", n>>
      BY <2>2
    <3>2. n \in Symbols
      BY <1>0
    <3>3. QED
      BY <1>0, <3>1, <3>2
  <2>3. QED
    BY <1>3, <2>1, <2>2
<1>5. c.path \in Seq(Symbols) /\ (c.path # <<>> => Head(c.path) = "/")
  BY CallbackAssumption
<1>6. c.path = <<>> \/ \E b \in Seq(Symbols) : c.path = <<"/">> \o b
  <2> SUFFICES ASSUME c.path # <<>>
               PROVE  \E b \in Seq(Symbols) : c.path = <<"/">> \o b
    OBVIOUS
  <2>1. c.path = <<Head(c.path)>> \o Tail(c.path) /\ Tail(c.path) \in Seq(Symbols)
    BY <1>5, HeadTailProperties
  <2>2. QED
    BY <1>5, <2>1
<1>7. NoScheme(CallbackText(c)) = Rest(c)
  <2> DEFINE a == c.address
             p == c.port
             h == c.path
             ap == a \o p
             rest == ap \o h
  <2>1. ap \in Seq(Symbols) /\ ap # <<>> /\ Head(ap) = Head(a)
    <3> HIDE DEF a, p
    <3>1. a \in Seq(Symbols) /\ p \in Seq(Symbols) /\ a # <<>>
      BY <1>1, <1>2, <1>4 DEF a, p
    <3>2. QED
      BY <3>1, ConcatHead, ConcatProperties
  <2>2. rest \in Seq(Symbols) /\ rest # <<>> /\ Head(rest) = Head(a)
    <3> HIDE DEF ap, h
    <3>1. h \in Seq(Symbols)
      BY <1>5 DEF h
    <3>2. QED
      BY <2>1, <3>1, ConcatHead, ConcatProperties
  <2>3. c.scheme = <<>> \/ \E word \in Schemes : c.scheme = <<word>>
    BY CallbackAssumption
  <2>4. CASE c.scheme = <<>>
    <3>1. <<>> \o a = a
      BY <1>2, ConcatEmptySeq
    <3>2. CallbackText(c) = rest
      BY <2>4, <3>1 DEF CallbackText
    <3> HIDE DEF rest
    <3>3. NoScheme(rest) = rest
      BY <1>1, <2>2 DEF NoScheme, a
    <3>4. QED
      BY <3>2, <3>3 DEF rest, Rest
  <2>5. CASE \E word \in Schemes : c.scheme = <<word>>
    <3>1. PICK word \in Schemes : c.scheme = <<word>>
      BY <2>5
    <3> DEFINE w == <<word>>
    <3>2. w \in Seq(Symbols) /\ a \in Seq(Symbols) /\ p \in Seq(Symbols) /\ h \in Seq(Symbols)
      <4>1. word \in Symbols
        BY <1>0
      <4>2. QED
        BY <1>2, <1>4, <1>5, <4>1, OneSymbol
    <3>3. ((w \o a) \o p) \o h = w \o rest
      <4> HIDE DEF w, a, p, h
      <4>0. Associates(Symbols)
        BY ConcatAssociates
      <4>1. (w \o a) \o p = w \o ap
        BY <3>2, <4>0 DEF Associates
      <4> HIDE DEF ap
      <4>2. (w \o ap) \o h = w \o (ap \o h)
        BY <2>1, <3>2, <4>0, SMTT(30) DEF Associates
      <4>3. QED
        BY <4>1, <4>2
    <3>4. CallbackText(c) = w \o rest
      BY <3>1, <3>3 DEF CallbackText
    <3> HIDE DEF rest, a, p, h, ap
    <3>5. Head(w \o rest) = word /\ Tail(w \o rest) = rest /\ w \o rest # <<>>
      <4>1. word \in Symbols
        BY <1>0
      <4>2. /\ w \o rest \in Seq(Symbols) /\ Len(w \o rest) = 1 + Len(rest) /\ Len(rest) \in Nat
            /\ (w \o rest)[1] = word /\ \A i \in 1 .. Len(rest) : (w \o rest)[i + 1] = rest[i]
        BY <2>2, <4>1, HeadFirst
      <4> DEFINE t == w \o rest
      <4> HIDE DEF t, w
      <4>3. t # <<>>
        BY <4>2, EmptySeq DEF t
      <4>4. /\ Head(t) = word /\ Tail(t) \in Seq(Symbols) /\ Len(Tail(t)) = Len(rest)
            /\ \A i \in 1 .. Len(Tail(t)) : Tail(t)[i] = t[i + 1]
        <5>1. t \in Seq(Symbols) /\ Len(t) = 1 + Len(rest) /\ Len(rest) \in Nat /\ t[1] = word
          BY <4>2 DEF t
        <5>2. QED
          BY <4>3, <5>1, HeadTailProperties
      <4>5. Tail(t) = rest
        <5>1. \A i \in 1 .. Len(Tail(t)) : Tail(t)[i] = rest[i]
          BY <4>2, <4>4 DEF t
        <5>2. QED
          BY <2>2, <4>4, <5>1, SeqEqual
      <4>6. QED
        BY <4>3, <4>4, <4>5 DEF t
    <3> HIDE DEF w
    <3>6. NoScheme(w \o rest) = rest
      BY <3>1, <3>5 DEF NoScheme
    <3>7. QED
      BY <3>4, <3>6 DEF rest, Rest, a, p, h, ap
  <2>6. QED
    BY <2>3, <2>4, <2>5
<1>8. QED
  BY <1>1, <1>2, <1>3, <1>4, <1>5, <1>6, <1>7

(* Three texts in a concatenation can be regrouped. *)
Associated(s, t, u) == (s \o t) \o u = s \o (t \o u)

(* The same for four. *)
Regrouped(s, t, u, w) == s \o ((t \o u) \o w) = ((s \o t) \o u) \o w

(* Three texts can be regrouped. *)
LEMMA IsAssociated ==
    ASSUME NEW X, NEW s \in Seq(X), NEW t \in Seq(X), NEW u \in Seq(X)
    PROVE  Associated(s, t, u)
<1>1. (s \o t) \o u = s \o (t \o u)
  BY ConcatAssociative
<1>2. QED
  BY <1>1 DEF Associated

(* Four texts can be regrouped. *)
LEMMA Regroup ==
    ASSUME NEW X, NEW s \in Seq(X), NEW t \in Seq(X), NEW u \in Seq(X), NEW w \in Seq(X)
    PROVE  Regrouped(s, t, u, w)
<1> DEFINE tu == t \o u
<1>1. ASSUME NEW x \in Seq(X), NEW y \in Seq(X), NEW z \in Seq(X)
      PROVE  Associated(x, y, z)
  BY IsAssociated
<1>2. tu \in Seq(X)
  BY ConcatProperties
<1>3. Associated(s, t, u)
  BY <1>1
<1> HIDE DEF tu
<1>4. Associated(s, tu, w)
  BY <1>1, <1>2
<1>5. s \o tu = (s \o t) \o u
  BY <1>3 DEF Associated, tu
<1>6. s \o (tu \o w) = (s \o tu) \o w
  BY <1>4 DEF Associated
<1>7. QED
  BY <1>5, <1>6 DEF Regrouped, tu

(* The pieces of an address, a colon, and a port that something may follow. *)
PortCut(a, n, h) ==
    LET tokens == split((a \o <<":", n>>) \o h, ":")
    IN  /\ Len(tokens) >= 2 /\ tokens[1] = a /\ tokens[2] # <<>> /\ Head(tokens[2]) = n
        /\ h = <<>> => Len(tokens) = 2

(* The first piece is the address, and the second begins with the port. *)
LEMMA PortToken ==
    ASSUME NEW a \in Seq(Symbols \ {":"}), NEW n \in Symbols \ {":"}, NEW h \in Seq(Symbols), ":" \in Symbols
    PROVE  PortCut(a, n, h)
<1> DEFINE W == Symbols \ {":"}
           m == <<n>> \o h
           V == split(m, ":")
           tokens == split((a \o <<":", n>>) \o h, ":")
<1>1. /\ a \in Seq(Symbols) /\ <<n>> \in Seq(Symbols) /\ <<n>> \in Seq(W) /\ <<":">> \in Seq(Symbols)
      /\ W \subseteq Symbols /\ ":" \notin W
  <2>1. W \subseteq Symbols /\ n \in W /\ n \in Symbols /\ ":" \notin W
    OBVIOUS
  <2> HIDE DEF W
  <2>2. a \in Seq(W)
    BY DEF W
  <2>3. QED
    BY <2>1, <2>2, OneSymbol, SeqMonotonic
<1>2. m \in Seq(Symbols)
  BY <1>1, ConcatProperties
<1>3. (a \o <<":", n>>) \o h = (a \o <<":">>) \o m
  <2> DEFINE o == <<n>>
             k == <<":">>
             ko == k \o o
             ak == a \o k
  <2>1. <<":", n>> = ko
    OBVIOUS
  <2>2. o \in Seq(Symbols) /\ k \in Seq(Symbols) /\ a \in Seq(Symbols)
    BY <1>1
  <2> HIDE DEF o, k
  <2>3. Associates(Symbols)
    BY ConcatAssociates
  <2>4. a \o (k \o o) = (a \o k) \o o
    BY <2>2, <2>3, ZenonT(30) DEF Associates
  <2>5. ak \in Seq(Symbols)
    BY <2>2, ConcatProperties
  <2> HIDE DEF ak
  <2>6. (ak \o o) \o h = ak \o (o \o h)
    BY <2>2, <2>3, <2>5, Zenon DEF Associates
  <2>7. QED
    BY <2>1, <2>4, <2>6 DEF o, k, ak
<1>4. tokens = <<a>> \o V
  <2>1. Pieces(a, ":") = <<a>>
    <3>1. a \in Seq(W)
      OBVIOUS
    <3> HIDE DEF W
    <3>2. QED
      BY <1>1, <3>1, PiecesPlain
  <2>2. split((a \o <<":">>) \o m, ":") = Pieces(a, ":") \o split(m, ":")
    <3> HIDE DEF m
    <3> QED BY <1>1, <1>2, SplitCut, ZenonT(30)
  <2>3. QED
    BY <1>3, <2>1, <2>2
<1>5. V \in Seq(Seq(Symbols))
  BY <1>2, SplitType
<1>6. ASSUME NEW x \in Seq(W)
      PROVE  Head(<<n>> \o x) = n /\ <<n>> \o x # <<>> /\ <<n>> \o x \in Seq(W) /\ <<n>> \o x \in Seq(Symbols)
  <2>1. n \in W
    OBVIOUS
  <2> HIDE DEF W
  <2>2. Head(<<n>> \o x) = Head(<<n>>) /\ <<n>> \o x # <<>>
    <3>1. <<n>> # <<>> /\ <<n>> \in Seq(W)
      BY <1>1
    <3>2. QED
      BY <3>1, ConcatHead
  <2>3. <<n>> \o x \in Seq(W)
    BY <1>1, ConcatProperties
  <2>4. <<n>> \o x \in Seq(Symbols)
    BY <1>1, <2>3, SeqMonotonic
  <2>5. Head(<<n>>) = n
    OBVIOUS
  <2>6. QED
    BY <2>2, <2>3, <2>4, <2>5
<1>7. Len(V) >= 1 /\ V[1] # <<>> /\ Head(V[1]) = n /\ (h = <<>> => Len(V) = 1)
  <2>1. CASE h \in Seq(W)
    <3>1. Head(m) = n /\ m # <<>> /\ m \in Seq(W)
      BY <1>6, <2>1
    <3> HIDE DEF m, W
    <3>2. V = <<m>>
      BY <1>1, <3>1, SplitPlain
    <3> HIDE DEF V
    <3>3. Len(V) = 1 /\ V[1] = m
      BY <3>2
    <3>4. QED
      BY <3>1, <3>3
  <2>2. CASE \E x \in Seq(W), y \in Seq(Symbols) : h = (x \o <<":">>) \o y
    <3>1. PICK x \in Seq(W), y \in Seq(Symbols) : h = (x \o <<":">>) \o y
      BY <2>2
    <3> DEFINE o == <<n>>
               k == <<":">>
               ox == o \o x
               xk == x \o k
    <3>2. Head(ox) = n /\ ox # <<>> /\ ox \in Seq(W) /\ ox \in Seq(Symbols)
      BY <1>6
    <3>3. o \in Seq(Symbols) /\ k \in Seq(Symbols) /\ x \in Seq(Symbols)
      <4> HIDE DEF W
      <4> QED BY <1>1, SeqMonotonic
    <3>4. m = (ox \o k) \o y
      <4>1. m = o \o ((x \o k) \o y)
        BY <3>1
      <4> HIDE DEF o, k, m, W
      <4>2. o \in Seq(Symbols)
        BY <3>3
      <4>3. k \in Seq(Symbols)
        BY <3>3
      <4>4. x \in Seq(Symbols)
        BY <3>3
      <4>5. Regrouped(o, x, k, y)
        BY <4>2, <4>3, <4>4, Regroup
      <4>6. QED
        BY <4>1, <4>5 DEF Regrouped
    <3> HIDE DEF ox, m, W
    <3>5. split((ox \o k) \o y, ":") = Pieces(ox, ":") \o split(y, ":")
      BY <3>2, SplitCut, ZenonT(30)
    <3>6. Pieces(ox, ":") = <<ox>>
      BY <1>1, <3>2, PiecesPlain
    <3>7. split(y, ":") \in Seq(Seq(Symbols))
      BY SplitType
    <3> DEFINE Y == split(y, ":")
    <3>8. V = <<ox>> \o Y
      BY <3>4, <3>5, <3>6
    <3> HIDE DEF Y, V
    <3>9. Y \in Seq(Seq(Symbols)) /\ ox \in Seq(Symbols)
      BY <3>2, <3>7 DEF Y
    <3>10. (<<ox>> \o Y)[1] = ox /\ Len(<<ox>> \o Y) = 1 + Len(Y) /\ Len(Y) \in Nat
      BY <3>9, HeadFirst
    <3>11. h # <<>>
      <4>1. k # <<>>
        OBVIOUS
      <4> HIDE DEF k
      <4>2. xk \in Seq(Symbols) /\ xk # <<>>
        BY <3>3, <4>1, ConcatEqualIffEmpty, ConcatProperties
      <4> HIDE DEF xk
      <4>3. xk \o y # <<>>
        BY <4>2, ConcatEqualIffEmpty
      <4>4. QED
        BY <3>1, <4>3 DEF xk, k
    <3>12. Len(V) >= 1 /\ V[1] = ox
      BY <3>8, <3>10
    <3>13. QED
      BY <3>2, <3>11, <3>12
  <2>3. h \in Seq(W) \/ \E x \in Seq(W), y \in Seq(Symbols) : h = (x \o <<":">>) \o y
    <3>1. CutAt(Symbols, ":", h)
      BY FirstCut
    <3>2. QED
      BY <3>1 DEF CutAt
  <2> HIDE DEF V, W
  <2>4. QED
    BY <2>1, <2>2, <2>3
<1> HIDE DEF V, W
<1>8. Len(tokens) >= 2 /\ tokens[1] = a /\ tokens[2] = V[1] /\ Len(tokens) = 1 + Len(V)
  <2> HIDE DEF tokens
  <2>1. /\ Len(<<a>> \o V) = 1 + Len(V) /\ Len(V) \in Nat /\ (<<a>> \o V)[1] = a
        /\ \A i \in 1 .. Len(V) : (<<a>> \o V)[i + 1] = V[i]
    BY <1>1, <1>5, HeadFirst
  <2> DEFINE t == <<a>> \o V
  <2> HIDE DEF t
  <2>2. tokens = t /\ Len(t) = 1 + Len(V) /\ Len(V) \in Nat /\ t[1] = a /\ \A i \in 1 .. Len(V) : t[i + 1] = V[i]
    BY <1>4, <2>1 DEF t
  <2>3. 1 \in 1 .. Len(V) /\ t[1 + 1] = V[1]
    BY <1>7, <2>2
  <2>4. QED
    BY <1>7, <2>2, <2>3
<1> HIDE DEF tokens
<1>9. tokens[2] # <<>> /\ Head(tokens[2]) = n
  BY <1>7, <1>8
<1>10. ASSUME h = <<>>
       PROVE  Len(tokens) = 2
  <2>1. Len(V) = 1
    BY <1>7, <1>10
  <2>2. Len(tokens) = 1 + Len(V)
    BY <1>8
  <2>3. QED
    BY <2>1, <2>2
<1>11. QED
  BY <1>8, <1>9, <1>10 DEF tokens, PortCut

(* Where a callback goes whose url has a port. *)
LEMMA WithPort ==
    ASSUME NEW c \in Callbacks, NEW n \in Numbers, c.port = <<":", n>>
    PROVE  /\ parse_url(CallbackText(c)) = QhmEndpoint(c.address, n)
           /\ parse_path(CallbackText(c)) = c.path
           /\ parse_endpoint(Endpoint(QhmEndpoint(c.address, n))) = QhmEndpoint(c.address, n)
<1> DEFINE a == c.address
           p == c.port
           h == c.path
           ap == a \o p
           rest == Rest(c)
           text == CallbackText(c)
<1>1. /\ a \in Seq(Symbols \ {"/", ":"}) /\ a \in Seq(Symbols) /\ a # <<>> /\ Head(a) \notin Schemes
      /\ p \in Seq(Symbols) /\ h \in Seq(Symbols)
      /\ h = <<>> \/ \E b \in Seq(Symbols) : h = <<"/">> \o b
      /\ NoScheme(text) = rest
  BY CallbackParts
<1>2. /\ "/" \in Symbols /\ ":" \in Symbols /\ n \in Symbols \ {":"} /\ n \in Symbols \ {"/"}
      /\ ":" \in Symbols \ {"/"}
  BY RouteAssumption, CallbackAssumption
<1>3. a \in Seq(Symbols \ {":"}) /\ a \in Seq(Symbols \ {"/"})
  BY <1>1, SeqMonotonic
<1>4. rest = ap \o h
  BY DEF Rest
<1>5. p = <<":", n>> /\ ap = a \o <<":", n>>
  OBVIOUS
<1> HIDE DEF a, p, h, text, rest
<1>6. ap \in Seq(Symbols) /\ ap \in Seq(Symbols \ {"/"}) /\ ap # <<>> /\ Head(ap) = Head(a)
  <2>1. p \in Seq(Symbols \ {"/"})
    <3>1. <<":", n>> \in Seq(Symbols \ {"/"})
      <4> DEFINE S == Symbols \ {"/"}
      <4>1. n \in S /\ ":" \in S
        BY <1>2
      <4> HIDE DEF S
      <4>2. <<":", n>> \in Seq(S)
        BY <4>1
      <4>3. QED
        BY <4>2 DEF S
    <3>2. QED
      BY <1>5, <3>1
  <2> HIDE DEF p
  <2>2. ap \in Seq(Symbols)
    BY <1>1, ConcatProperties
  <2>3. ap \in Seq(Symbols \ {"/"})
    BY <1>3, <2>1, ConcatProperties
  <2>4. ap # <<>> /\ Head(ap) = Head(a)
    BY <1>1, ConcatHead
  <2>5. QED
    BY <2>2, <2>3, <2>4
<1> DEFINE tokens == split(rest, ":")
<1>7. Len(tokens) >= 2 /\ tokens[1] = a /\ tokens[2] # <<>> /\ Head(tokens[2]) = n
  <2>1. rest = (a \o <<":", n>>) \o h
    BY <1>4, <1>5
  <2>2. PortCut(a, n, h)
    BY <1>1, <1>2, <1>3, PortToken
  <2>3. QED
    BY <2>1, <2>2 DEF PortCut
<1>8. parse_url(text) = QhmEndpoint(a, n)
  <2> HIDE DEF tokens
  <2>1. ~(Len(tokens) < 2) /\ IsNumber(tokens[2]) /\ stoi(tokens[2]) = n
    <3>1. Len(tokens) \in Nat
      <4>1. rest \in Seq(Symbols)
        BY <1>1, <1>4, <1>6, ConcatProperties
      <4>2. tokens \in Seq(Seq(Symbols))
        BY <4>1, SplitType DEF tokens
      <4>3. QED
        BY <4>2, LenProperties
    <3>2. ~(Len(tokens) < 2)
      BY <1>7, <3>1
    <3>3. IsNumber(tokens[2]) /\ stoi(tokens[2]) = n
      BY <1>7 DEF IsNumber, stoi
    <3>4. QED
      BY <3>2, <3>3
  <2>2. parse_url(text) = IF Len(tokens) < 2 \/ ~IsNumber(tokens[2]) THEN <<>>
                          ELSE QhmEndpoint(tokens[1], stoi(tokens[2]))
    BY <1>1 DEF parse_url, tokens
  <2>3. QED
    BY <1>7, <2>1, <2>2
<1>9. parse_path(text) = h
  <2>1. ~(Len(split(rest, ":")) < 2)
    <3>1. rest \in Seq(Symbols)
      BY <1>1, <1>4, <1>6, ConcatProperties
    <3>2. Len(split(rest, ":")) \in Nat
      BY <3>1, SplitType, LenProperties
    <3>3. QED
      BY <1>7, <3>2
  <2>2. parse_path(text) = SubSeq(rest, Len(split(rest, "/")[1]) + 1, Len(rest))
    BY <1>1, <2>1 DEF parse_path
  <2>3. split(rest, "/")[1] = ap
    <3> HIDE DEF ap
    <3>1. CASE h = <<>>
      <4>1. rest = ap
        BY <1>4, <1>6, <3>1, ConcatEmptySeq
      <4>2. split(ap, "/") = <<ap>>
        <5> DEFINE S == Symbols \ {"/"}
        <5>1. "/" \notin S /\ ap \in Seq(S)
          BY <1>6
        <5> HIDE DEF S
        <5>2. QED
          BY <1>6, <5>1, SplitPlain
      <4>3. QED
        BY <4>1, <4>2
    <3>2. CASE \E b \in Seq(Symbols) : h = <<"/">> \o b
      <4>1. PICK b \in Seq(Symbols) : h = <<"/">> \o b
        BY <3>2
      <4>2. rest = (ap \o <<"/">>) \o b
        <5> DEFINE k == <<"/">>
        <5>1. k \in Seq(Symbols)
          BY <1>2, OneSymbol
        <5>2. rest = ap \o (k \o b)
          BY <1>4, <4>1
        <5> HIDE DEF k
        <5>3. Associated(ap, k, b)
          BY <1>6, <5>1, IsAssociated
        <5>4. QED
          BY <5>2, <5>3 DEF Associated, k
      <4>3. split((ap \o <<"/">>) \o b, "/") = Pieces(ap, "/") \o split(b, "/")
        BY <1>2, <1>6, SplitCut, ZenonT(30)
      <4>4. Pieces(ap, "/") = <<ap>>
        <5> DEFINE S == Symbols \ {"/"}
        <5>1. "/" \notin S /\ ap \in Seq(S)
          BY <1>6
        <5> HIDE DEF S
        <5>2. QED
          BY <5>1, PiecesPlain
      <4>5. split(b, "/") \in Seq(Seq(Symbols))
        BY SplitType
      <4> DEFINE Y == split(b, "/")
      <4>6. split(rest, "/") = <<ap>> \o Y
        BY <4>2, <4>3, <4>4
      <4> HIDE DEF Y
      <4>7. (<<ap>> \o Y)[1] = ap
        BY <1>6, <4>5, HeadFirst DEF Y
      <4>8. QED
        BY <4>6, <4>7
    <3>3. QED
      BY <1>1, <3>1, <3>2
  <2>4. SubSeq(rest, Len(ap) + 1, Len(rest)) = h
    <3> HIDE DEF ap
    <3>1. SubSeq(ap \o h, Len(ap) + 1, Len(ap \o h)) = h
      BY <1>1, <1>6, Ending
    <3>2. QED
      BY <1>4, <3>1
  <2>5. QED
    BY <2>2, <2>3, <2>4
<1>10. parse_endpoint(Endpoint(QhmEndpoint(a, n))) = QhmEndpoint(a, n)
  <2> DEFINE name == Endpoint(QhmEndpoint(a, n))
             parts == split(name, ":")
  <2>1. name = ap
    BY <1>5 DEF Endpoint, QhmEndpoint
  <2>2. NoScheme(name) = name
    <3> HIDE DEF name, ap
    <3>1. Head(name) \notin Schemes
      BY <1>1, <1>6, <2>1
    <3>2. QED
      BY <3>1 DEF NoScheme
  <2>3. Len(parts) = 2 /\ parts[1] = a /\ parts[2] # <<>> /\ Head(parts[2]) = n
    <3> DEFINE e == <<>>
               long == (a \o <<":", n>>) \o e
               all == split(long, ":")
    <3>1. e \in Seq(Symbols) /\ e = <<>>
      OBVIOUS
    <3>2. ap \o e = ap
      BY <1>6, ConcatEmptySeq
    <3> HIDE DEF e
    <3>0. PortCut(a, n, e)
      BY <1>2, <1>3, <3>1, PortToken
    <3>3. /\ Len(all) >= 2 /\ all[1] = a /\ all[2] # <<>> /\ Head(all[2]) = n
          /\ e = <<>> => Len(all) = 2
      BY <3>0 DEF PortCut
    <3>4. long = name
      BY <1>5, <2>1, <3>2
    <3> HIDE DEF long, name
    <3>5. all = parts
      BY <3>4
    <3>6. QED
      BY <3>1, <3>3, <3>5
  <2>4. parse_endpoint(name) = IF Len(parts) # 2 \/ ~IsNumber(parts[2]) THEN <<>>
                               ELSE QhmEndpoint(parts[1], stoi(parts[2]))
    <3> HIDE DEF name
    <3> QED BY <2>2 DEF parse_endpoint
  <2> HIDE DEF parts
  <2>5. IsNumber(parts[2]) /\ stoi(parts[2]) = n
    BY <2>3 DEF IsNumber, stoi
  <2>6. QED
    BY <2>3, <2>4, <2>5
<1>11. QED
  BY <1>8, <1>9, <1>10 DEF a, h, text

(* And where one goes whose url has neither a port nor a colon in its path. *)
LEMMA WithoutPort ==
    ASSUME NEW c \in Callbacks, c.port = <<>>, ~Contains(c.path, ":")
    PROVE  parse_url(CallbackText(c)) = <<>> /\ parse_path(CallbackText(c)) = <<>>
<1> DEFINE W == Symbols \ {":"}
           a == c.address
           h == c.path
           rest == Rest(c)
           text == CallbackText(c)
<1>1. /\ a \in Seq(Symbols \ {"/", ":"}) /\ a \in Seq(Symbols) /\ a # <<>> /\ h \in Seq(Symbols)
      /\ NoScheme(text) = rest
  BY CallbackParts
<1>2. a \in Seq(W) /\ h \in Seq(W) /\ ":" \notin W
  <2>1. a \in Seq(W)
    BY <1>1, SeqMonotonic
  <2>2. h \in Seq(W)
    BY <1>1, PlainIf
  <2>3. QED
    BY <2>1, <2>2
<1>3. rest = a \o h
  <2>1. a \o <<>> = a
    BY <1>1, ConcatEmptySeq
  <2>2. QED
    BY <2>1 DEF Rest
<1> HIDE DEF W, a, h, rest, text
<1>4. rest \in Seq(W) /\ rest # <<>>
  BY <1>1, <1>2, <1>3, ConcatProperties, ConcatHead
<1>5. split(rest, ":") = <<rest>>
  BY <1>2, <1>4, SplitPlain
<1>6. Len(split(rest, ":")) < 2
  <2> DEFINE one == <<rest>>
  <2>1. Len(one) = 1
    OBVIOUS
  <2> HIDE DEF one
  <2>2. Len(split(rest, ":")) = 1
    BY <1>5, <2>1 DEF one
  <2>3. ASSUME NEW l, l = 1
        PROVE  l < 2
    BY <2>3
  <2>4. QED
    BY <2>2, <2>3
<1>7. QED
  BY <1>1, <1>6 DEF parse_url, parse_path, text

(* In every state the relay's add_callback has taken the address, the port    *)
(* and the path from a callback's url that its sender put there, and a Socket *)
(* takes the endpoint that they make; a url without a port, and without a     *)
(* colon in its path, is refused by parse_url and parse_path alike.           *)
THEOREM Addressed == Spec => []CallbackAddressed
<1>1. RouterInv => CallbackAddressed
  <2> SUFFICES ASSUME RouterInv, callback # NoCallback
               PROVE  CallbackAddressed
    BY DEF CallbackAddressed
  <2>1. PICK c \in Callbacks : callback = Destined(c)
    BY DEF RouterInv
  <2>2. /\ callback.uri = c
        /\ callback.destination = parse_url(CallbackText(c))
        /\ callback.callback_path = parse_path(CallbackText(c))
    BY <2>1 DEF Destined
  <2>3. ASSUME c.port # <<>>
        PROVE  /\ callback.destination = QhmEndpoint(c.address, c.port[2])
               /\ callback.callback_path = c.path
               /\ parse_endpoint(Endpoint(callback.destination)) = callback.destination
    <3>1. PICK n \in Numbers : c.port = <<":", n>>
      BY <2>3, CallbackParts
    <3>2. /\ parse_url(CallbackText(c)) = QhmEndpoint(c.address, n)
          /\ parse_path(CallbackText(c)) = c.path
          /\ parse_endpoint(Endpoint(QhmEndpoint(c.address, n))) = QhmEndpoint(c.address, n)
      BY <3>1, WithPort
    <3>3. c.port[2] = n
      BY <3>1
    <3>4. QED
      BY <2>2, <3>2, <3>3
  <2>4. ASSUME c.port = <<>>, ~Contains(c.path, ":")
        PROVE  callback.destination = <<>> /\ callback.callback_path = <<>>
    BY <2>2, <2>4, WithoutPort
  <2>5. QED
    BY <2>2, <2>3, <2>4 DEF CallbackAddressed
<1>2. QED
  BY <1>1, Invariant, PTL
-----------------------------------------------------------------------------
(* Regexes, symbol by symbol. *)

(* How much of a text is reached, by the symbols of the regex. *)
Reaches(f, s, regex) ==
    f = [i \in 0 .. Len(regex) |-> IF i = 0 THEN {0} ELSE Further(f[i - 1], s, regex[i])]

(* A symbol of the regex leads to places of the text. *)
LEMMA FurtherType ==
    ASSUME NEW X, NEW s \in Seq(X), NEW R, NEW x
    PROVE  Further(R, s, x) \in SUBSET (0 .. Len(s))
<1>1. Len(s) \in Nat
  BY LenProperties
<1> DEFINE n == Len(s)
<1> HIDE DEF n
<1>2. n \in Nat
  BY <1>1 DEF n
<1>3. {k \in 0 .. n : \E j \in R : j <= k} \in SUBSET (0 .. n)
  OBVIOUS
<1>4. {k \in 1 .. n : k - 1 \in R /\ s[k] = x} \in SUBSET (0 .. n)
  BY <1>2
<1>5. QED
  BY <1>3, <1>4 DEF Further, n

(* The recursive function in Reached exists, and Reached is its last value. *)
LEMMA ReachedRead ==
    ASSUME NEW X, NEW s \in Seq(X), NEW Y, NEW regex \in Seq(Y)
    PROVE  \E f \in [0 .. Len(regex) -> SUBSET (0 .. Len(s))] :
              Reaches(f, s, regex) /\ Reached(s, regex) = f[Len(regex)]
<1> DEFINE n == Len(regex)
           T == SUBSET (0 .. Len(s))
           step == [a \in (1 .. n) \X T |-> Further(a[2], s, regex[a[1]])]
<1>0. \A R, x : Further(R, s, x) \in T
  BY FurtherType
<1>1. step \in [(1 .. n) \X T -> T]
  <2> HIDE DEF T
  <2> QED BY <1>0
<1>2. {0} \in T
  <2>1. Len(s) \in Nat
    BY LenProperties
  <2>2. QED
    BY <2>1
<1> HIDE DEF T
<1>3. PICK g : Steps(g, T, n, {0}, step)
  <2>1. n \in Nat
    OBVIOUS
  <2> HIDE DEF step, n
  <2>2. QED
    BY <1>1, <1>2, <2>1, Recursion
<1>4. Reaches(g, s, regex)
  <2>1. ASSUME NEW i \in 1 .. n
        PROVE g[i] = Further(g[i - 1], s, regex[i])
    <3>1. i - 1 \in 0 .. n
      OBVIOUS
    <3>2. g[i - 1] \in T /\ g[i] = step[<<i, g[i - 1]>>]
      <4> HIDE DEF n, step
      <4> QED BY <1>3, <3>1 DEF Steps
    <3>3. QED
      BY <3>2
  <2> HIDE DEF step
  <2>2. g = [i \in 0 .. Len(regex) |-> g[i]] /\ g[0] = {0}
    BY <1>3 DEF Steps
  <2>3. ASSUME NEW i \in 0 .. Len(regex)
        PROVE  g[i] = IF i = 0 THEN {0} ELSE Further(g[i - 1], s, regex[i])
    <3>1. CASE i = 0
      BY <2>2, <3>1
    <3>2. CASE i # 0
      <4>1. i \in 1 .. n
        BY <3>2
      <4>2. QED
        BY <2>1, <3>2, <4>1
    <3>3. QED
      BY <3>1, <3>2
  <2>4. g = [i \in 0 .. Len(regex) |-> IF i = 0 THEN {0} ELSE Further(g[i - 1], s, regex[i])]
    BY <2>2, <2>3, Zenon
  <2>5. QED
    BY <2>4 DEF Reaches
<1> DEFINE F == CHOOSE f : Reaches(f, s, regex)
<1>5. Reaches(F, s, regex)
  BY <1>4
<1>6. Reached(s, regex) = F[n]
  BY DEF Reached, Reaches
<1> HIDE DEF F
<1>7. ASSUME NEW i \in 0 .. n
      PROVE  F[i] \in T
  <2>1. CASE i = 0
    BY <1>2, <1>5, <2>1 DEF Reaches
  <2>2. CASE i # 0
    <3>1. F[i] = Further(F[i - 1], s, regex[i])
      BY <1>5, <2>2 DEF Reaches
    <3>2. QED
      BY <1>0, <3>1
  <2>3. QED
    BY <2>1, <2>2
<1>8. F = [i \in 0 .. n |-> F[i]]
  BY <1>5 DEF Reaches
<1>9. F \in [0 .. Len(regex) -> T]
  BY <1>7, <1>8
<1>10. QED
  BY <1>5, <1>6, <1>9 DEF T

(* No symbol reaches no further than nothing. *)
LEMMA ReachedNone ==
    ASSUME NEW X, NEW s \in Seq(X)
    PROVE  Reached(s, <<>>) = {0}
<1>1. PICK f : Reaches(f, s, <<>>) /\ Reached(s, <<>>) = f[Len(<<>>)]
  <2>1. <<>> \in Seq({})
    OBVIOUS
  <2>2. QED
    BY <2>1, ReachedRead
<1>2. QED
  BY <1>1 DEF Reaches

(* Reached by one more symbol of the regex. *)
LEMMA ReachedMore ==
    ASSUME NEW X, NEW s \in Seq(X), NEW Y, NEW regex \in Seq(Y), NEW x \in Y
    PROVE  Reached(s, Append(regex, x)) = Further(Reached(s, regex), s, x)
<1> DEFINE n == Len(regex)
           t == Append(regex, x)
           T == SUBSET (0 .. Len(s))
<1>1. t \in Seq(Y) /\ Len(t) = n + 1 /\ t[n + 1] = x /\ \A i \in 1 .. n : t[i] = regex[i]
  BY AppendProperties
<1>2. n \in Nat
  OBVIOUS
<1> HIDE DEF n, t, T
<1>3. PICK f \in [0 .. n -> T] : Reaches(f, s, regex) /\ Reached(s, regex) = f[n]
  BY ReachedRead DEF n, T
<1>4. PICK g \in [0 .. n + 1 -> T] : Reaches(g, s, t) /\ Reached(s, t) = g[n + 1]
  BY <1>1, ReachedRead DEF T
<1> DEFINE A == {i \in Nat : i <= n => g[i] = f[i]}
<1>5. 0 \in A
  BY <1>1, <1>2, <1>3, <1>4 DEF Reaches, n
<1>6. ASSUME NEW i \in Nat, i \in A
      PROVE  i + 1 \in A
  <2> SUFFICES ASSUME i + 1 <= n
               PROVE  g[i + 1] = f[i + 1]
    OBVIOUS
  <2>1. i + 1 \in 1 .. n /\ i + 1 \in 0 .. n /\ i + 1 \in 0 .. n + 1 /\ (i + 1) - 1 = i /\ i + 1 # 0
    BY <1>2
  <2>2. f[i + 1] = Further(f[i], s, regex[i + 1])
    BY <1>3, <2>1 DEF Reaches, n
  <2>3. g[i + 1] = Further(g[i], s, t[i + 1])
    BY <1>1, <1>4, <2>1 DEF Reaches
  <2>4. t[i + 1] = regex[i + 1] /\ g[i] = f[i]
    BY <1>1, <1>2, <1>6, <2>1
  <2>5. QED
    BY <2>2, <2>3, <2>4
<1>7. n \in A
  <2> HIDE DEF A
  <2> QED BY <1>2, <1>5, <1>6, Induction
<1>8. g[n + 1] = Further(g[n], s, x)
  <2>1. n + 1 \in 0 .. n + 1 /\ n + 1 # 0 /\ (n + 1) - 1 = n
    BY <1>2
  <2>2. QED
    BY <1>1, <1>4, <2>1 DEF Reaches
<1>9. QED
  BY <1>2, <1>3, <1>4, <1>7, <1>8 DEF t

(* What is reached of the beginning of a text does not depend on its end. *)
Alike(s, w, regex) ==
    \A k \in 0 .. Len(s) : k \in Reached(s \o w, regex) <=> k \in Reached(s, regex)

(* What is reached are places of the text. *)
LEMMA ReachedWithin ==
    ASSUME NEW X, NEW s \in Seq(X), NEW Y, NEW regex \in Seq(Y)
    PROVE  Reached(s, regex) \in SUBSET (0 .. Len(s))
<1> DEFINE T == SUBSET (0 .. Len(s))
           n == Len(regex)
<1>1. PICK f \in [0 .. n -> T] : Reached(s, regex) = f[n]
  <2> HIDE DEF T
  <2> QED BY ReachedRead DEF T
<1>2. n \in 0 .. n
  <2>1. n \in Nat
    BY LenProperties
  <2> HIDE DEF n
  <2>2. QED
    BY <2>1
<1> HIDE DEF T, n
<1>3. f[n] \in T
  BY <1>2
<1>4. QED
  BY <1>1, <1>3 DEF T

(* It does not, whatever the regex. *)
LEMMA ReachedAlike ==
    ASSUME NEW X, NEW s \in Seq(X), NEW w \in Seq(X), NEW Y, NEW regex \in Seq(Y)
    PROVE  Alike(s, w, regex)
<1> DEFINE A == {r \in Seq(Y) : Alike(s, w, r)}
           t == s \o w
           n == Len(s)
           m == Len(t)
<1>1. t \in Seq(X) /\ n \in Nat /\ m \in Nat /\ n <= m /\ \A i \in 1 .. n : t[i] = s[i]
  BY ConcatProperties, LenProperties
<1>2. <<>> \in A
  <2>1. Reached(s, <<>>) = {0}
    BY ReachedNone
  <2>2. Reached(t, <<>>) = {0}
    <3> HIDE DEF t
    <3> QED BY <1>1, ReachedNone
  <2>3. Alike(s, w, <<>>)
    BY <2>1, <2>2 DEF Alike
  <2>4. QED
    BY <2>3
<1>3. ASSUME NEW r \in Seq(Y), NEW x \in Y, r \in A
      PROVE  Append(r, x) \in A
  <2>1. Append(r, x) \in Seq(Y)
    BY AppendProperties
  <2> DEFINE P == Reached(s, r)
             Q == Reached(t, r)
  <2>2. \A k \in 0 .. n : k \in Q <=> k \in P
    BY <1>3 DEF Alike
  <2>3. Reached(s, Append(r, x)) = Further(P, s, x)
    BY ReachedMore
  <2>4. Reached(t, Append(r, x)) = Further(Q, t, x)
    <3> HIDE DEF t
    <3> QED BY <1>1, ReachedMore
  <2>5. P \in SUBSET (0 .. n)
    BY ReachedWithin
  <2>6. Q \in SUBSET (0 .. m)
    <3> HIDE DEF t
    <3> QED BY <1>1, ReachedWithin
  <2> HIDE DEF P, Q
  <2>7. ASSUME NEW k \in 0 .. n
        PROVE  k \in Further(Q, t, x) <=> k \in Further(P, s, x)
    <3>1. CASE x = ANY
      <4>1. Further(P, s, x) = {j \in 0 .. n : \E i \in P : i <= j}
        BY <3>1 DEF Further
      <4>2. Further(Q, t, x) = {j \in 0 .. m : \E i \in Q : i <= j}
        BY <3>1 DEF Further
      <4> HIDE DEF n, m, t
      <4>3. k \in 0 .. m /\ k \in Int
        BY <1>1
      <4>4. (\E i \in Q : i <= k) <=> (\E i \in P : i <= k)
        <5>1. ASSUME NEW i \in Q, i <= k
              PROVE  i \in P
          <6>1. i \in 0 .. n
            BY <1>1, <2>6, <5>1
          <6>2. QED
            BY <2>2, <6>1
        <5>2. ASSUME NEW i \in P
              PROVE  i \in Q
          BY <2>2, <2>5
        <5>3. QED
          BY <5>1, <5>2
      <4>5. QED
        BY <4>1, <4>2, <4>3, <4>4
    <3>2. CASE x # ANY
      <4>1. Further(P, s, x) = {j \in 1 .. n : j - 1 \in P /\ s[j] = x}
        BY <3>2 DEF Further
      <4>2. Further(Q, t, x) = {j \in 1 .. m : j - 1 \in Q /\ t[j] = x}
        BY <3>2 DEF Further
      <4> HIDE DEF n, m, t
      <4>3. CASE k = 0
        BY <4>1, <4>2, <4>3
      <4>4. CASE k # 0
        <5>1. k \in 1 .. n /\ k \in 1 .. m /\ k - 1 \in 0 .. n
          BY <1>1, <4>4
        <5>2. t[k] = s[k] /\ (k - 1 \in Q <=> k - 1 \in P)
          BY <1>1, <2>2, <5>1
        <5>3. QED
          BY <4>1, <4>2, <5>1, <5>2
      <4>5. QED
        BY <4>3, <4>4
    <3>3. QED
      BY <3>1, <3>2
  <2>8. Alike(s, w, Append(r, x))
    BY <2>3, <2>4, <2>7 DEF Alike
  <2>9. QED
    BY <2>1, <2>8
<1>4. Seq(Y) \subseteq A
  <2> HIDE DEF A
  <2> QED BY <1>2, <1>3, SeqInduction
<1>5. QED
  BY <1>4

(* A text can be cut wherever it has a place. *)
CutsAt(X, v, j) == \E a \in Seq(X), b \in Seq(X) : v = a \o b /\ Len(a) = j

(* Every text can. *)
LEMMA CutAnywhere ==
    ASSUME NEW X, NEW v \in Seq(X), NEW j \in 0 .. Len(v)
    PROVE  CutsAt(X, v, j)
<1> DEFINE A == {t \in Seq(X) : \A i \in 0 .. Len(t) : CutsAt(X, t, i)}
<1>1. <<>> \in A
  <2>1. <<>> \in Seq(X) /\ <<>> \o <<>> = <<>> /\ Len(<<>>) = 0
    OBVIOUS
  <2>2. CutsAt(X, <<>>, 0)
    BY <2>1 DEF CutsAt
  <2>3. QED
    BY <2>1, <2>2
<1>2. ASSUME NEW t \in Seq(X), NEW x \in X, t \in A
      PROVE  Append(t, x) \in A
  <2> DEFINE u == Append(t, x)
  <2>1. u \in Seq(X) /\ Len(u) = Len(t) + 1 /\ Len(t) \in Nat
    BY AppendProperties, LenProperties
  <2>2. ASSUME NEW i \in 0 .. Len(u)
        PROVE  CutsAt(X, u, i)
    <3>1. CASE i = Len(u)
      <4>1. u = u \o <<>> /\ <<>> \in Seq(X)
        BY <2>1, ConcatEmptySeq
      <4>2. QED
        BY <2>1, <3>1, <4>1 DEF CutsAt
    <3>2. CASE i # Len(u)
      <4>1. i \in 0 .. Len(t)
        BY <2>1, <3>2
      <4>2. CutsAt(X, t, i)
        BY <1>2, <4>1
      <4>3. PICK a \in Seq(X), b \in Seq(X) : t = a \o b /\ Len(a) = i
        BY <4>2 DEF CutsAt
      <4>4. a \o Append(b, x) = Append(a \o b, x)
        BY AppendAfter
      <4>5. Append(b, x) \in Seq(X)
        BY AppendProperties
      <4>6. QED
        BY <4>3, <4>4, <4>5 DEF CutsAt
    <3>3. QED
      BY <3>1, <3>2
  <2>3. QED
    BY <2>1, <2>2
<1>3. Seq(X) \subseteq A
  <2> HIDE DEF A
  <2> QED BY <1>1, <1>2, SeqInduction
<1>4. QED
  BY <1>3

(* What ".*" matches: whatever follows what the regex before it matches. *)
MatchesFront(X, v, regex) == \E a \in Seq(X), b \in Seq(X) : v = a \o b /\ regex_match(a, regex)

(* A regex that ends with ".*". *)
LEMMA MatchAny ==
    ASSUME NEW X, NEW v \in Seq(X), NEW Y, NEW regex \in Seq(Y), ANY \in Y
    PROVE  regex_match(v, Append(regex, ANY)) <=> MatchesFront(X, v, regex)
<1> DEFINE n == Len(v)
           R == Reached(v, regex)
<1>1. n \in Nat /\ R \in SUBSET (0 .. n)
  BY LenProperties, ReachedWithin
<1>2. Reached(v, Append(regex, ANY)) = {k \in 0 .. n : \E j \in R : j <= k}
  BY ReachedMore DEF Further
<1>3. regex_match(v, Append(regex, ANY)) <=> R # {}
  <2>1. regex_match(v, Append(regex, ANY)) <=> n \in Reached(v, Append(regex, ANY))
    BY DEF regex_match
  <2> HIDE DEF n, R
  <2>2. n \in 0 .. n
    BY <1>1
  <2>3. \A j \in R : j <= n
    <3>1. ASSUME NEW j \in R
          PROVE  j <= n
      <4>1. j \in 0 .. n
        BY <1>1
      <4>2. QED
        BY <1>1, <4>1
    <3>2. QED
      BY <3>1
  <2>4. n \in {k \in 0 .. n : \E j \in R : j <= k} <=> R # {}
    BY <2>2, <2>3
  <2>5. QED
    BY <1>2, <2>1, <2>4
<1>4. ASSUME NEW j \in R
      PROVE  MatchesFront(X, v, regex)
  <2>1. j \in 0 .. n
    BY <1>1
  <2>2. CutsAt(X, v, j)
    BY <2>1, CutAnywhere
  <2>3. PICK a \in Seq(X), b \in Seq(X) : v = a \o b /\ Len(a) = j
    BY <2>2 DEF CutsAt
  <2>4. Alike(a, b, regex)
    BY ReachedAlike
  <2>5. j \in 0 .. Len(a)
    BY <2>1, <2>3
  <2>6. j \in Reached(a \o b, regex)
    BY <2>3
  <2>7. Len(a) \in Reached(a, regex)
    BY <2>3, <2>4, <2>5, <2>6 DEF Alike
  <2>8. QED
    BY <2>3, <2>7 DEF MatchesFront, regex_match
<1>5. ASSUME MatchesFront(X, v, regex)
      PROVE  R # {}
  <2>1. PICK a \in Seq(X), b \in Seq(X) : v = a \o b /\ regex_match(a, regex)
    BY <1>5 DEF MatchesFront
  <2>2. Len(a) \in Reached(a, regex) /\ Len(a) \in 0 .. Len(a)
    BY <2>1, LenProperties DEF regex_match
  <2>3. Alike(a, b, regex)
    BY ReachedAlike
  <2>4. Len(a) \in Reached(a \o b, regex)
    BY <2>2, <2>3 DEF Alike
  <2>5. QED
    BY <2>1, <2>4
<1> HIDE DEF R
<1>6. QED
  BY <1>3, <1>4, <1>5

(* What a symbol matches: itself, after what the regex before it matches. *)
MatchesBefore(X, v, regex, x) == \E a \in Seq(X) : v = Append(a, x) /\ regex_match(a, regex)

(* A regex that ends with a symbol. *)
LEMMA MatchSymbol ==
    ASSUME NEW X, NEW v \in Seq(X), NEW Y, NEW regex \in Seq(Y), NEW x \in Y, x \in X, x # ANY
    PROVE  regex_match(v, Append(regex, x)) <=> MatchesBefore(X, v, regex, x)
<1> DEFINE n == Len(v)
           R == Reached(v, regex)
<1>1. n \in Nat /\ R \in SUBSET (0 .. n)
  BY LenProperties, ReachedWithin
<1>2. Reached(v, Append(regex, x)) = {k \in 1 .. n : k - 1 \in R /\ v[k] = x}
  BY ReachedMore DEF Further
<1>3. regex_match(v, Append(regex, x)) <=> (n # 0 /\ n - 1 \in R /\ v[n] = x)
  <2>1. regex_match(v, Append(regex, x)) <=> n \in Reached(v, Append(regex, x))
    BY DEF regex_match
  <2> HIDE DEF n, R
  <2>2. n \in 1 .. n <=> n # 0
    BY <1>1
  <2>3. QED
    BY <1>2, <2>1, <2>2
<1>4. ASSUME n # 0, n - 1 \in R, v[n] = x
      PROVE  MatchesBefore(X, v, regex, x)
  <2>1. v # <<>>
    BY <1>4
  <2>2. PICK a \in Seq(X), y \in X : v = Append(a, y)
    BY <2>1, SequenceEmptyOrAppend
  <2>3. Len(a) \in Nat /\ n = Len(a) + 1 /\ v[n] = y
    BY <2>2, AppendProperties, LenProperties
  <2>4. y = x /\ Len(a) = n - 1
    BY <1>1, <1>4, <2>3
  <2>5. v = a \o <<x>> /\ <<x>> \in Seq(X)
    BY <2>2, <2>4, AppendIsConcat, OneSymbol
  <2> DEFINE e == <<x>>
  <2> HIDE DEF e
  <2>6. Alike(a, e, regex)
    BY <2>5, ReachedAlike DEF e
  <2>7. Len(a) \in 0 .. Len(a)
    BY <2>3
  <2>8. Len(a) \in Reached(a \o e, regex)
    BY <1>4, <2>4, <2>5 DEF e
  <2>9. Len(a) \in Reached(a, regex)
    BY <2>6, <2>7, <2>8 DEF Alike
  <2>10. QED
    BY <2>2, <2>4, <2>9 DEF MatchesBefore, regex_match
<1>5. ASSUME MatchesBefore(X, v, regex, x)
      PROVE  n # 0 /\ n - 1 \in R /\ v[n] = x
  <2>1. PICK a \in Seq(X) : v = Append(a, x) /\ regex_match(a, regex)
    BY <1>5 DEF MatchesBefore
  <2>2. Len(a) \in Nat /\ n = Len(a) + 1 /\ v[n] = x
    BY <2>1, AppendProperties, LenProperties
  <2>3. v = a \o <<x>> /\ <<x>> \in Seq(X)
    BY <2>1, AppendIsConcat, OneSymbol
  <2> DEFINE e == <<x>>
  <2> HIDE DEF e
  <2>4. Alike(a, e, regex)
    BY <2>3, ReachedAlike DEF e
  <2>5. Len(a) \in Reached(a, regex) /\ Len(a) \in 0 .. Len(a)
    BY <2>1, <2>2 DEF regex_match
  <2>6. Len(a) \in Reached(a \o e, regex)
    BY <2>4, <2>5 DEF Alike
  <2>7. Len(a) \in R
    BY <2>3, <2>6 DEF e
  <2> HIDE DEF R, n
  <2>8. n - 1 = Len(a) /\ n # 0
    BY <2>2
  <2>9. QED
    BY <2>2, <2>7, <2>8
<1>6. QED
  BY <1>3, <1>4, <1>5

(* What plain text matches: itself, after what the regex before it matches. *)
MatchesEnd(X, v, regex, t) == \E a \in Seq(X) : v = a \o t /\ regex_match(a, regex)

(* A regex that ends with plain text. *)
LEMMA MatchText ==
    ASSUME NEW X, ANY \notin X, NEW Y, X \subseteq Y, NEW regex \in Seq(Y), NEW text \in Seq(X), NEW vv \in Seq(X)
    PROVE  regex_match(vv, regex \o text) <=> MatchesEnd(X, vv, regex, text)
<1> DEFINE A == {t \in Seq(X) : \A v \in Seq(X) :
                    regex_match(v, regex \o t) <=> MatchesEnd(X, v, regex, t)}
<1>1. <<>> \in A
  <2>1. <<>> \in Seq(X) /\ regex \o <<>> = regex
    BY ConcatEmptySeq
  <2>2. ASSUME NEW v \in Seq(X)
        PROVE  regex_match(v, regex \o <<>>) <=> MatchesEnd(X, v, regex, <<>>)
    <3>1. \A a \in Seq(X) : a \o <<>> = a
      BY ConcatEmptySeq
    <3>2. MatchesEnd(X, v, regex, <<>>) <=> regex_match(v, regex)
      BY <3>1 DEF MatchesEnd
    <3>3. QED
      BY <2>1, <3>2
  <2>3. QED
    BY <2>1, <2>2
<1>2. ASSUME NEW t \in Seq(X), NEW x \in X, t \in A
      PROVE  Append(t, x) \in A
  <2>1. Append(t, x) \in Seq(X) /\ x \in Y /\ x # ANY
    BY AppendProperties
  <2>2. regex \o t \in Seq(Y)
    BY SeqMonotonic, ConcatProperties
  <2>3. regex \o Append(t, x) = Append(regex \o t, x)
    <3>1. t \in Seq(Y)
      BY SeqMonotonic
    <3>2. QED
      BY <2>1, <3>1, AppendAfter
  <2>4. \A a \in Seq(X) : regex_match(a, regex \o t) <=> MatchesEnd(X, a, regex, t)
    BY <1>2
  <2>5. \A a \in Seq(X) : a \o Append(t, x) = Append(a \o t, x)
    BY AppendAfter
  <2> DEFINE more == Append(t, x)
             all == regex \o t
  <2>6. ASSUME NEW v \in Seq(X)
        PROVE  regex_match(v, regex \o more) <=> MatchesEnd(X, v, regex, more)
    <3> HIDE DEF all
    <3>1. regex_match(v, Append(all, x)) <=> MatchesBefore(X, v, all, x)
      BY <2>1, <2>2, MatchSymbol DEF all
    <3>2. ASSUME NEW a \in Seq(X), v = Append(a, x), regex_match(a, all)
          PROVE  MatchesEnd(X, v, regex, more)
      <4>1. MatchesEnd(X, a, regex, t)
        BY <2>4, <3>2 DEF all
      <4>2. PICK b \in Seq(X) : a = b \o t /\ regex_match(b, regex)
        BY <4>1 DEF MatchesEnd
      <4>3. v = b \o more
        BY <2>5, <3>2, <4>2
      <4>4. QED
        BY <4>2, <4>3 DEF MatchesEnd
    <3>3. ASSUME NEW b \in Seq(X), v = b \o more, regex_match(b, regex)
          PROVE  MatchesBefore(X, v, all, x)
      <4>1. b \o t \in Seq(X) /\ v = Append(b \o t, x)
        BY <2>5, <3>3, ConcatProperties
      <4> DEFINE a == b \o t
      <4>2. MatchesEnd(X, a, regex, t)
        BY <3>3 DEF MatchesEnd
      <4>3. regex_match(a, all)
        BY <2>4, <4>1, <4>2 DEF all
      <4> HIDE DEF a
      <4>4. QED
        BY <4>1, <4>3 DEF MatchesBefore, a
    <3>4. regex \o more = Append(all, x)
      BY <2>3 DEF all
    <3> HIDE DEF more
    <3>5. MatchesBefore(X, v, all, x) <=> MatchesEnd(X, v, regex, more)
      <4>1. MatchesBefore(X, v, all, x) => MatchesEnd(X, v, regex, more)
        BY <3>2 DEF MatchesBefore
      <4>2. MatchesEnd(X, v, regex, more) => MatchesBefore(X, v, all, x)
        BY <3>3 DEF MatchesEnd
      <4>3. QED
        BY <4>1, <4>2
    <3>6. QED
      BY <3>1, <3>4, <3>5
  <2>7. QED
    BY <2>1, <2>6
<1>3. Seq(X) \subseteq A
  <2> HIDE DEF A
  <2> QED BY <1>1, <1>2, SeqInduction
<1>4. QED
  BY <1>3
-----------------------------------------------------------------------------
(* Regexes, segment by segment. *)

(* Segments, what a route's segments match, and what a regex is made of. *)
Segment  == Seq(Symbols \ {"/"})
Pattern  == Segment \cup {<<ANY>>}
Literals == Symbols \cup {ANY}

(* What the sets of symbols, segments and patterns have to do with each       *)
(* other.                                                                     *)
LEMMA PatternFacts ==
    /\ "/" \in Symbols /\ "/" \in Literals /\ ANY \in Literals /\ ANY \notin Symbols
    /\ Symbols \subseteq Literals /\ Segment \subseteq Seq(Symbols) /\ Pattern \subseteq Seq(Literals)
    /\ Segment \subseteq Pattern /\ <<ANY>> \in Pattern
    /\ <<"/">> \in Seq(Symbols) /\ <<"/">> \in Seq(Literals)
<1>1. "/" \in Symbols /\ ANY \notin Symbols
  BY RouteAssumption
<1>2. "/" \in Literals /\ ANY \in Literals /\ Symbols \subseteq Literals
  BY <1>1 DEF Literals
<1>3. Segment \subseteq Seq(Symbols)
  <2> DEFINE W == Symbols \ {"/"}
  <2>1. W \subseteq Symbols
    OBVIOUS
  <2> HIDE DEF W
  <2>2. Seq(W) \subseteq Seq(Symbols)
    BY <2>1, SeqMonotonic
  <2>3. QED
    BY <2>2 DEF Segment, W
<1>4. Seq(Symbols) \subseteq Seq(Literals)
  BY <1>2, SeqMonotonic
<1>5. <<ANY>> \in Seq(Literals)
  BY <1>2, OneSymbol
<1>6. Pattern \subseteq Seq(Literals) /\ Segment \subseteq Pattern /\ <<ANY>> \in Pattern
  BY <1>3, <1>4, <1>5 DEF Pattern
<1>7. <<"/">> \in Seq(Symbols) /\ <<"/">> \in Seq(Literals)
  BY <1>1, <1>2, OneSymbol
<1>8. QED
  BY <1>1, <1>2, <1>3, <1>6, <1>7

(* A segment more: of the text and of the regex. *)
MatchesSegment(v, regex, p) ==
    \E a \in Seq(Symbols), b \in Seq(Symbols) :
        v = (a \o <<"/">>) \o b /\ regex_match(a, regex) /\ (p = <<ANY>> \/ p = b)

(* A regex that ends with a slash and a pattern matches that much. *)
LEMMA MatchSegment ==
    ASSUME NEW v \in Seq(Symbols), NEW regex \in Seq(Literals), NEW p \in Pattern
    PROVE  regex_match(v, (regex \o <<"/">>) \o p) <=> MatchesSegment(v, regex, p)
<1> DEFINE c == <<"/">>
           rc == regex \o c
<1>1. /\ ANY \notin Symbols /\ Symbols \subseteq Literals /\ ANY \in Literals
      /\ c \in Seq(Symbols) /\ c \in Seq(Literals) /\ Segment \subseteq Seq(Symbols)
  BY PatternFacts
<1> HIDE DEF c
<1>2. rc \in Seq(Literals)
  BY <1>1, ConcatProperties
<1>3. ASSUME NEW a \in Seq(Symbols)
      PROVE  regex_match(a, rc) <=> MatchesEnd(Symbols, a, regex, c)
  BY <1>1, MatchText
<1> HIDE DEF rc
<1>4. CASE p = <<ANY>>
  <2>1. rc \o p = Append(rc, ANY)
    BY <1>1, <1>2, <1>4, AppendIsConcat
  <2>2. regex_match(v, Append(rc, ANY)) <=> MatchesFront(Symbols, v, rc)
    BY <1>1, <1>2, MatchAny
  <2>3. ASSUME MatchesFront(Symbols, v, rc)
        PROVE  MatchesSegment(v, regex, p)
    <3>1. PICK e \in Seq(Symbols), b \in Seq(Symbols) : v = e \o b /\ regex_match(e, rc)
      BY <2>3 DEF MatchesFront
    <3>2. MatchesEnd(Symbols, e, regex, c)
      BY <1>3, <3>1
    <3>3. PICK a \in Seq(Symbols) : e = a \o c /\ regex_match(a, regex)
      BY <3>2 DEF MatchesEnd
    <3>4. QED
      BY <1>4, <3>1, <3>3 DEF MatchesSegment, c
  <2>4. ASSUME MatchesSegment(v, regex, p)
        PROVE  MatchesFront(Symbols, v, rc)
    <3>1. PICK a \in Seq(Symbols), b \in Seq(Symbols) : v = (a \o c) \o b /\ regex_match(a, regex)
      BY <2>4 DEF MatchesSegment, c
    <3> DEFINE e == a \o c
    <3>2. e \in Seq(Symbols) /\ MatchesEnd(Symbols, e, regex, c)
      BY <1>1, <3>1, ConcatProperties DEF MatchesEnd
    <3>3. v = e \o b
      BY <3>1
    <3> HIDE DEF e
    <3>4. regex_match(e, rc)
      BY <1>3, <3>2
    <3>5. QED
      BY <3>2, <3>3, <3>4 DEF MatchesFront
  <2>5. QED
    BY <2>1, <2>2, <2>3, <2>4 DEF rc, c
<1>5. CASE p \in Segment /\ p # <<ANY>>
  <2>1. p \in Seq(Symbols)
    BY <1>1, <1>5
  <2>2. regex_match(v, rc \o p) <=> MatchesEnd(Symbols, v, rc, p)
    BY <1>1, <1>2, <2>1, MatchText
  <2>3. ASSUME MatchesEnd(Symbols, v, rc, p)
        PROVE  MatchesSegment(v, regex, p)
    <3>1. PICK e \in Seq(Symbols) : v = e \o p /\ regex_match(e, rc)
      BY <2>3 DEF MatchesEnd
    <3>2. MatchesEnd(Symbols, e, regex, c)
      BY <1>3, <3>1
    <3>3. PICK a \in Seq(Symbols) : e = a \o c /\ regex_match(a, regex)
      BY <3>2 DEF MatchesEnd
    <3>4. QED
      BY <2>1, <3>1, <3>3 DEF MatchesSegment, c
  <2>4. ASSUME MatchesSegment(v, regex, p)
        PROVE  MatchesEnd(Symbols, v, rc, p)
    <3>1. PICK a \in Seq(Symbols) : v = (a \o c) \o p /\ regex_match(a, regex)
      BY <1>5, <2>4 DEF MatchesSegment, c
    <3> DEFINE e == a \o c
    <3>2. e \in Seq(Symbols) /\ MatchesEnd(Symbols, e, regex, c)
      BY <1>1, <3>1, ConcatProperties DEF MatchesEnd
    <3>3. v = e \o p
      BY <3>1
    <3> HIDE DEF e
    <3>4. regex_match(e, rc)
      BY <1>3, <3>2
    <3>5. QED
      BY <3>2, <3>3, <3>4 DEF MatchesEnd
  <2>5. QED
    BY <2>2, <2>3, <2>4 DEF rc, c
<1>6. QED
  BY <1>4, <1>5 DEF Pattern

(* Segments agree with patterns. *)
Agree(patterns, segments) ==
    /\ Len(segments) = Len(patterns)
    /\ \A k \in 1 .. Len(patterns) : patterns[k] = <<ANY>> \/ patterns[k] = segments[k]

(* Agreement by one more segment. *)
LEMMA AgreeMore ==
    ASSUME NEW patterns \in Seq(Pattern), NEW segments \in Seq(Segment), NEW p \in Pattern, NEW s \in Segment
    PROVE  Agree(Append(patterns, p), Append(segments, s)) <=>
             (Agree(patterns, segments) /\ (p = <<ANY>> \/ p = s))
<1> DEFINE P == Append(patterns, p)
           S == Append(segments, s)
           n == Len(patterns)
           m == Len(segments)
<1>1. n \in Nat /\ m \in Nat
  BY LenProperties
<1>2. Len(P) = n + 1 /\ P[n + 1] = p /\ \A k \in 1 .. n : P[k] = patterns[k]
  BY AppendProperties
<1>3. Len(S) = m + 1 /\ S[m + 1] = s /\ \A k \in 1 .. m : S[k] = segments[k]
  BY AppendProperties
<1> HIDE DEF P, S, n, m
<1>4. ASSUME Agree(P, S)
      PROVE  Agree(patterns, segments) /\ (p = <<ANY>> \/ p = s)
  <2>1. m = n
    BY <1>1, <1>2, <1>3, <1>4 DEF Agree
  <2>2. \A k \in 1 .. n + 1 : P[k] = <<ANY>> \/ P[k] = S[k]
    BY <1>2, <1>4 DEF Agree
  <2>3. n + 1 \in 1 .. n + 1 /\ \A k \in 1 .. n : k \in 1 .. n + 1
    BY <1>1
  <2>4. p = <<ANY>> \/ p = s
    BY <1>2, <1>3, <2>1, <2>2, <2>3
  <2>5. \A k \in 1 .. n : patterns[k] = <<ANY>> \/ patterns[k] = segments[k]
    BY <1>2, <1>3, <2>1, <2>2, <2>3
  <2>6. QED
    BY <2>1, <2>4, <2>5 DEF Agree, n, m
<1>5. ASSUME Agree(patterns, segments), p = <<ANY>> \/ p = s
      PROVE  Agree(P, S)
  <2>1. m = n /\ \A k \in 1 .. n : patterns[k] = <<ANY>> \/ patterns[k] = segments[k]
    BY <1>5 DEF Agree, n, m
  <2>2. ASSUME NEW k \in 1 .. n + 1
        PROVE  P[k] = <<ANY>> \/ P[k] = S[k]
    <3>1. CASE k \in 1 .. n
      BY <1>2, <1>3, <2>1, <3>1
    <3>2. CASE k = n + 1
      BY <1>2, <1>3, <1>5, <2>1, <3>2
    <3>3. k \in 1 .. n \/ k = n + 1
      BY <1>1
    <3>4. QED
      BY <3>1, <3>2, <3>3
  <2>3. QED
    BY <1>2, <1>3, <2>1, <2>2 DEF Agree
<1>6. QED
  BY <1>4, <1>5 DEF P, S

(* A text of one piece holds no slash; a slash makes the pieces on both sides. *)
LEMMA OnePiece ==
    ASSUME NEW v \in Seq(Symbols)
    PROVE  /\ Len(Pieces(v, "/")) \in Nat /\ Len(Pieces(v, "/")) >= 1
           /\ Len(Pieces(v, "/")) = 1 => v \in Segment
<1> DEFINE C == CutAt(Symbols, "/", v)
<1>1. Pieces(v, "/") \in Texts(Symbols)
  BY SplitType
<1>2. Len(Pieces(v, "/")) \in Nat /\ Len(Pieces(v, "/")) >= 1
  <2> DEFINE p == Pieces(v, "/")
  <2> HIDE DEF p
  <2>1. p \in Seq(Seq(Symbols)) /\ p # <<>>
    BY <1>1 DEF p, Texts
  <2>2. Len(p) \in Nat /\ Len(p) # 0
    BY <2>1, EmptySeq, LenProperties
  <2>3. QED
    BY <2>2 DEF p
<1>3. C
  BY PatternFacts, FirstCut
<1>4. ASSUME NEW a \in Seq(Symbols \ {"/"}), NEW b \in Seq(Symbols), v = (a \o <<"/">>) \o b
      PROVE  Len(Pieces(v, "/")) # 1
  <2>1. a \in Seq(Symbols)
    BY PatternFacts DEF Segment
  <2>2. Pieces((a \o <<"/">>) \o b, "/") = Pieces(a, "/") \o Pieces(b, "/")
    BY <2>1, PatternFacts, PiecesCut, ZenonT(30)
  <2> DEFINE p == Pieces(a, "/")
             q == Pieces(b, "/")
  <2>3. p \in Texts(Symbols) /\ q \in Texts(Symbols)
    BY <2>1, SplitType
  <2>4. Pieces(v, "/") = p \o q
    BY <1>4, <2>2
  <2> HIDE DEF p, q
  <2>5. Len(p) \in Nat \ {0} /\ Len(q) \in Nat \ {0} /\ Len(p \o q) = Len(p) + Len(q)
    BY <2>3, EmptySeq, LenProperties, ConcatProperties DEF Texts
  <2>6. QED
    BY <2>4, <2>5
<1>5. QED
  BY <1>2, <1>3, <1>4 DEF CutAt, Segment

(* Texts on either side of a slash have their own pieces. *)
LEMMA SlashPieces ==
    ASSUME NEW a \in Seq(Symbols), NEW b \in Seq(Symbols)
    PROVE  Len(Pieces((a \o <<"/">>) \o b, "/")) = Len(Pieces(a, "/")) + Len(Pieces(b, "/"))
<1> DEFINE p == Pieces(a, "/")
           q == Pieces(b, "/")
<1>1. Pieces((a \o <<"/">>) \o b, "/") = p \o q
  BY PatternFacts, PiecesCut, Zenon
<1>2. p \in Texts(Symbols) /\ q \in Texts(Symbols)
  BY SplitType
<1> HIDE DEF p, q
<1>3. Len(p \o q) = Len(p) + Len(q)
  BY <1>2, ConcatProperties DEF Texts
<1>4. QED
  BY <1>1, <1>3 DEF p, q

(* Texts and paths of segments and of patterns. *)
LEMMA SegmentPath ==
    ASSUME NEW segments \in Seq(Segment), NEW s \in Segment
    PROVE  /\ PathText(segments) \in Seq(Symbols)
           /\ PathText(Append(segments, s)) = (PathText(segments) \o <<"/">>) \o s
<1>1. segments \in Lines(Symbols)
  <2>1. Seq(Segment) \subseteq Seq(Seq(Symbols))
    BY PatternFacts, SeqMonotonic
  <2>2. QED
    BY <2>1 DEF Lines
<1>2. s \in Seq(Symbols)
  BY PatternFacts
<1>3. QED
  BY <1>1, <1>2, PatternFacts, PathMore

(* The path of patterns with one more pattern. *)
LEMMA PatternPath ==
    ASSUME NEW patterns \in Seq(Pattern), NEW p \in Pattern
    PROVE  /\ PathText(patterns) \in Seq(Literals)
           /\ PathText(Append(patterns, p)) = (PathText(patterns) \o <<"/">>) \o p
<1>1. patterns \in Lines(Literals)
  <2>1. Seq(Pattern) \subseteq Seq(Seq(Literals))
    BY PatternFacts, SeqMonotonic
  <2>2. QED
    BY <2>1 DEF Lines
<1>2. p \in Seq(Literals)
  BY PatternFacts
<1>3. QED
  BY <1>1, <1>2, PatternFacts, PathMore

(* The path of no segments. *)
LEMMA PathNone == PathText(<<>>) = <<>>
BY JoinedNone, PathJoins

(* The empty regex matches the empty text. *)
LEMMA MatchNone ==
    ASSUME NEW v \in Seq(Symbols)
    PROVE  regex_match(v, <<>>) <=> v = <<>>
<1>1. Reached(v, <<>>) = {0}
  BY ReachedNone
<1>2. Len(v) = 0 <=> v = <<>>
  BY EmptySeq
<1>3. QED
  BY <1>1, <1>2 DEF regex_match

(* A path that the patterns match has a piece for each of them, and if it has *)
(* no more than those, its segments agree with them.                          *)
Spread(v, patterns) ==
    regex_match(v, PathText(patterns)) =>
      /\ Len(Pieces(v, "/")) >= Len(patterns) + 1
      /\ Len(Pieces(v, "/")) = Len(patterns) + 1 =>
           \E s \in Seq(Segment) : v = PathText(s) /\ Agree(patterns, s)

(* So it is for every list of patterns.  ".*" spans slashes, and then the     *)
(* path has more pieces than the route has segments: when the depths are      *)
(* equal, no pattern has spanned any.                                         *)
LEMMA MatchSpreads ==
    ASSUME NEW patterns \in Seq(Pattern), NEW text \in Seq(Symbols)
    PROVE  Spread(text, patterns)
<1> DEFINE A == {q \in Seq(Pattern) : \A v \in Seq(Symbols) : Spread(v, q)}
<1>1. <<>> \in A
  <2>1. ASSUME NEW v \in Seq(Symbols)
        PROVE  Spread(v, <<>>)
    <3> SUFFICES ASSUME regex_match(v, PathText(<<>>))
                 PROVE  /\ Len(Pieces(v, "/")) >= 0 + 1
                        /\ \E s \in Seq(Segment) : v = PathText(s) /\ Agree(<<>>, s)
      BY DEF Spread
    <3>1. v = <<>>
      BY PathNone, MatchNone
    <3>2. Len(Pieces(v, "/")) >= 0 + 1
      BY OnePiece
    <3>3. <<>> \in Seq(Segment) /\ v = PathText(<<>>) /\ Agree(<<>>, <<>>)
      BY <3>1, PathNone DEF Agree
    <3>4. QED
      BY <3>2, <3>3
  <2>2. QED
    BY <2>1
<1>2. ASSUME NEW q \in Seq(Pattern), NEW p \in Pattern, q \in A
      PROVE  Append(q, p) \in A
  <2>1. Append(q, p) \in Seq(Pattern) /\ Len(Append(q, p)) = Len(q) + 1 /\ Len(q) \in Nat
    BY AppendProperties, LenProperties
  <2>2. PathText(q) \in Seq(Literals) /\ PathText(Append(q, p)) = (PathText(q) \o <<"/">>) \o p
    BY PatternPath
  <2> DEFINE more == Append(q, p)
             R == PathText(q)
             n == Len(q)
  <2>3. \A a \in Seq(Symbols) : Spread(a, q)
    BY <1>2
  <2> HIDE DEF more
  <2>4. ASSUME NEW v \in Seq(Symbols), regex_match(v, PathText(more))
        PROVE  /\ Len(Pieces(v, "/")) >= n + 2
               /\ Len(Pieces(v, "/")) = n + 2 =>
                    \E s \in Seq(Segment) : v = PathText(s) /\ Agree(more, s)
    <3>1. MatchesSegment(v, R, p)
      <4>1. regex_match(v, (R \o <<"/">>) \o p)
        BY <2>2, <2>4 DEF more
      <4> HIDE DEF R
      <4>2. R \in Seq(Literals)
        BY <2>2 DEF R
      <4>3. QED
        BY <4>1, <4>2, MatchSegment
    <3>2. PICK a \in Seq(Symbols), b \in Seq(Symbols) :
             v = (a \o <<"/">>) \o b /\ regex_match(a, R) /\ (p = <<ANY>> \/ p = b)
      BY <3>1 DEF MatchesSegment
    <3> DEFINE i == Len(Pieces(a, "/"))
               j == Len(Pieces(b, "/"))
    <3>3. Len(Pieces(v, "/")) = i + j
      BY <3>2, SlashPieces
    <3>4. i \in Nat /\ j \in Nat /\ j >= 1 /\ (j = 1 => b \in Segment)
      BY OnePiece
    <3>5. i >= n + 1 /\ (i = n + 1 => \E s \in Seq(Segment) : a = PathText(s) /\ Agree(q, s))
      BY <2>3, <3>2 DEF Spread
    <3> HIDE DEF i, j, n
    <3>6. n \in Nat
      BY <2>1 DEF n
    <3>7. i + j >= n + 2
      BY <3>4, <3>5, <3>6
    <3>8. ASSUME i + j = n + 2
          PROVE  \E s \in Seq(Segment) : v = PathText(s) /\ Agree(more, s)
      <4>1. i = n + 1 /\ j = 1
        BY <3>4, <3>5, <3>6, <3>8
      <4>2. b \in Segment
        BY <3>4, <4>1
      <4>3. PICK s \in Seq(Segment) : a = PathText(s) /\ Agree(q, s)
        BY <3>5, <4>1
      <4>4. PathText(Append(s, b)) = (PathText(s) \o <<"/">>) \o b
        BY <4>2, SegmentPath
      <4>5. Agree(more, Append(s, b))
        BY <3>2, <4>2, <4>3, AgreeMore DEF more
      <4>6. Append(s, b) \in Seq(Segment)
        BY <4>2, AppendProperties
      <4>7. v = PathText(Append(s, b))
        BY <3>2, <4>3, <4>4
      <4>8. QED
        BY <4>5, <4>6, <4>7
    <3>9. QED
      BY <3>3, <3>7, <3>8
  <2>5. ASSUME NEW v \in Seq(Symbols)
        PROVE  Spread(v, more)
    <3>1. Len(more) + 1 = n + 2
      BY <2>1 DEF more
    <3> HIDE DEF n
    <3>2. QED
      BY <2>4, <3>1 DEF Spread
  <2>6. QED
    BY <2>1, <2>5 DEF more
<1>3. Seq(Pattern) \subseteq A
  <2> HIDE DEF A
  <2> QED BY <1>1, <1>2, SeqInduction
<1>4. QED
  BY <1>3

(* And segments that agree with the patterns make a path that they match. *)
LEMMA AgreeMatches ==
    ASSUME NEW patterns \in Seq(Pattern), NEW segments \in Seq(Segment), Agree(patterns, segments)
    PROVE  regex_match(PathText(segments), PathText(patterns))
<1> DEFINE Good(q) == \A s \in Seq(Segment) : Agree(q, s) => regex_match(PathText(s), PathText(q))
           A == {q \in Seq(Pattern) : Good(q)}
<1>1. <<>> \in A
  <2>1. ASSUME NEW s \in Seq(Segment), Agree(<<>>, s)
        PROVE  regex_match(PathText(s), PathText(<<>>))
    <3>1. s = <<>>
      BY <2>1, EmptySeq DEF Agree
    <3>2. PathText(s) = <<>> /\ <<>> \in Seq(Symbols)
      BY <3>1, PathNone
    <3>3. QED
      BY <3>2, PathNone, MatchNone
  <2>2. QED
    BY <2>1
<1>2. ASSUME NEW q \in Seq(Pattern), NEW p \in Pattern, q \in A
      PROVE  Append(q, p) \in A
  <2>1. Append(q, p) \in Seq(Pattern) /\ Len(Append(q, p)) = Len(q) + 1 /\ Len(q) \in Nat
    BY AppendProperties, LenProperties
  <2>2. PathText(q) \in Seq(Literals) /\ PathText(Append(q, p)) = (PathText(q) \o <<"/">>) \o p
    BY PatternPath
  <2> DEFINE more == Append(q, p)
  <2>3. ASSUME NEW s \in Seq(Segment), Agree(more, s)
        PROVE  regex_match(PathText(s), PathText(more))
    <3>1. s # <<>>
      BY <2>1, <2>3 DEF Agree
    <3>2. PICK t \in Seq(Segment), b \in Segment : s = Append(t, b)
      BY <3>1, SequenceEmptyOrAppend
    <3>3. Agree(q, t) /\ (p = <<ANY>> \/ p = b)
      BY <2>3, <3>2, AgreeMore
    <3>4. regex_match(PathText(t), PathText(q))
      BY <1>2, <3>3
    <3>5. PathText(t) \in Seq(Symbols) /\ PathText(s) = (PathText(t) \o <<"/">>) \o b
      BY <3>2, SegmentPath
    <3>6. b \in Seq(Symbols)
      BY PatternFacts
    <3> DEFINE a == PathText(t)
               R == PathText(q)
               v == PathText(s)
    <3>7. MatchesSegment(v, R, p)
      BY <3>3, <3>4, <3>5, <3>6 DEF MatchesSegment
    <3>8. v \in Seq(Symbols) /\ R \in Seq(Literals)
      <4> HIDE DEF a, R
      <4>1. (a \o <<"/">>) \o b \in Seq(Symbols)
        BY <3>5, <3>6, PatternFacts, ConcatProperties DEF a
      <4>2. QED
        BY <2>2, <3>5, <4>1 DEF a, R
    <3> HIDE DEF a, R, v
    <3>9. regex_match(v, (R \o <<"/">>) \o p)
      BY <3>7, <3>8, MatchSegment
    <3>10. QED
      BY <2>2, <3>9 DEF R, v
  <2>4. QED
    BY <2>1, <2>3
<1>3. Seq(Pattern) \subseteq A
  <2> HIDE DEF A
  <2> QED BY <1>1, <1>2, SeqInduction
<1>4. QED
  BY <1>3

(* The tail of a sequence behind one element. *)
LEMMA TailRest ==
    ASSUME NEW S, NEW x \in S, NEW s \in Seq(S)
    PROVE  Tail(<<x>> \o s) = s
<1> DEFINE t == <<x>> \o s
<1>1. /\ t \in Seq(S) /\ Len(t) = 1 + Len(s) /\ Len(s) \in Nat
      /\ \A i \in 1 .. Len(s) : t[i + 1] = s[i]
  BY HeadFirst
<1> HIDE DEF t
<1>2. t # <<>>
  BY <1>1, EmptySeq
<1>3. Tail(t) \in Seq(S) /\ Len(Tail(t)) = Len(s) /\ \A i \in 1 .. Len(Tail(t)) : Tail(t)[i] = t[i + 1]
  BY <1>1, <1>2, HeadTailProperties
<1>4. \A i \in 1 .. Len(Tail(t)) : Tail(t)[i] = s[i]
  BY <1>1, <1>3
<1>5. Tail(t) = s
  BY <1>3, <1>4, SeqEqual
<1>6. QED
  BY <1>5 DEF t

(* Texts with a slash after each. *)
Closed(ss) == [i \in 1 .. Len(ss) |-> ss[i] \o <<"/">>]

(* Closed by one more text. *)
LEMMA ClosedMore ==
    ASSUME NEW ss \in Lines(Literals), NEW w \in Seq(Literals)
    PROVE  Closed(ss) \in Lines(Literals) /\ Closed(Append(ss, w)) = Append(Closed(ss), w \o <<"/">>)
<1> DEFINE c == <<"/">>
           T == Seq(Literals)
           n == Len(ss)
           tt == Append(ss, w)
           old == Closed(ss)
           new == Closed(tt)
<1>1. c \in Seq(Literals)
  BY PatternFacts
<1> HIDE DEF c
<1>2. \A t \in T : t \o c \in T
  BY <1>1, ConcatProperties
<1>3. ss \in Seq(T) /\ w \in T
  BY DEF Lines
<1> HIDE DEF T
<1>4. n \in Nat /\ tt \in Seq(T) /\ Len(tt) = n + 1 /\ tt[n + 1] = w /\ \A i \in 1 .. n : tt[i] = ss[i]
  BY <1>3, AppendProperties, LenProperties
<1>5. \A i \in 1 .. n : ss[i] \in T
  BY <1>3, ElementOfSeq
<1>6. old = [i \in 1 .. n |-> ss[i] \o c]
  BY DEF Closed, c
<1>7. new = [i \in 1 .. n + 1 |-> tt[i] \o c]
  BY <1>4 DEF Closed, c
<1> HIDE DEF n, tt, old, new
<1>8. old \in [1 .. n -> T]
  BY <1>2, <1>5, <1>6
<1>9. old \in Seq(T) /\ Len(old) = n
  BY <1>4, <1>8
<1>10. w \o c \in T
  BY <1>2, <1>3
<1> DEFINE wc == w \o c
           app == Append(old, wc)
<1> HIDE DEF wc
<1>11. /\ app \in Seq(T) /\ Len(app) = n + 1 /\ app[n + 1] = wc
       /\ \A i \in 1 .. n : app[i] = old[i]
  BY <1>9, <1>10, AppendProperties DEF wc
<1> HIDE DEF app
<1>12. app = [i \in 1 .. n + 1 |-> app[i]]
  BY <1>4, <1>11
<1>13. ASSUME NEW i \in 1 .. n + 1
       PROVE  app[i] = tt[i] \o c
  <2>1. CASE i = n + 1
    BY <1>4, <1>11, <2>1 DEF wc
  <2>2. CASE i \in 1 .. n
    BY <1>4, <1>6, <1>11, <2>2
  <2>3. i = n + 1 \/ i \in 1 .. n
    BY <1>4
  <2>4. QED
    BY <2>1, <2>2, <2>3
<1>14. app = new
  BY <1>7, <1>12, <1>13
<1>15. QED
  BY <1>9, <1>14 DEF app, wc, c, old, new, tt, T, Lines

(* A slash after each token or before each: the one has a slash more at the   *)
(* end.                                                                       *)
LEMMA ClosedPath ==
    ASSUME NEW patterns \in Seq(Pattern)
    PROVE  FlattenSeq(Closed(<< <<>> >> \o patterns)) = PathText(patterns) \o <<"/">>
<1> DEFINE c == <<"/">>
           e == << <<>> >>
           F(q) == FlattenSeq(Closed(e \o q))
           A == {q \in Seq(Pattern) : F(q) = PathText(q) \o c}
<1>0. c \in Seq(Literals) /\ Pattern \subseteq Seq(Literals)
  BY PatternFacts
<1>1. <<>> \in A
  <2>1. <<>> \in Seq(Literals) /\ <<>> \in Lines(Literals) /\ e = Append(<<>>, <<>>) /\ e \o <<>> = e
    BY DEF Lines
  <2>2. Closed(Append(<<>>, <<>>)) = Append(Closed(<<>>), <<>> \o c)
    BY <2>1, ClosedMore
  <2>3. <<>> \o c = c /\ Closed(<<>>) = <<>>
    BY <1>0, ConcatEmptySeq DEF Closed
  <2>4. FlattenSeq(Append(<<>>, c)) = FlattenSeq(<<>>) \o c
    <3>1. <<>> \in Seq(Seq(Literals))
      OBVIOUS
    <3> HIDE DEF c
    <3>2. QED
      BY <1>0, <3>1, FlattenMore
  <2>5. F(<<>>) = c
    BY <2>1, <2>2, <2>3, <2>4, FlattenNone
  <2>6. F(<<>>) = PathText(<<>>) \o c
    <3> HIDE DEF F, c
    <3> QED BY <2>3, <2>5, PathNone
  <2>7. <<>> \in Seq(Pattern)
    OBVIOUS
  <2> HIDE DEF F, c
  <2>8. QED
    BY <2>6, <2>7
<1>2. ASSUME NEW q \in Seq(Pattern), NEW p \in Pattern, q \in A
      PROVE  Append(q, p) \in A
  <2>1. Append(q, p) \in Seq(Pattern)
    BY AppendProperties
  <2>2. p \in Seq(Literals)
    BY <1>0
  <2>3. q \in Seq(Seq(Literals)) /\ e \in Seq(Seq(Literals))
    <3>1. q \in Seq(Seq(Literals))
      BY <1>0, SeqMonotonic
    <3>2. e \in Seq(Seq(Literals))
      OBVIOUS
    <3>3. QED
      BY <3>1, <3>2
  <2> DEFINE R == PathText(q)
             eq == e \o q
  <2> HIDE DEF c, e
  <2>4. e \o Append(q, p) = Append(eq, p)
    <3> DEFINE T == Seq(Literals)
    <3> HIDE DEF T
    <3>1. q \in Seq(T) /\ e \in Seq(T) /\ p \in T
      BY <2>2, <2>3 DEF T
    <3>2. QED
      BY <3>1, AppendAfter
  <2>5. eq \in Lines(Literals)
    BY <2>3, ConcatProperties DEF Lines
  <2>6. F(q) = R \o c
    BY <1>2
  <2> HIDE DEF eq
  <2>7. Closed(eq) \in Lines(Literals) /\ Closed(Append(eq, p)) = Append(Closed(eq), p \o c)
    BY <2>2, <2>5, ClosedMore DEF c
  <2> DEFINE pc == p \o c
             m == Closed(eq)
  <2>8. pc \in Seq(Literals)
    BY <1>0, <2>2, ConcatProperties
  <2>9. FlattenSeq(Append(m, pc)) = FlattenSeq(m) \o pc
    <3>1. m \in Seq(Seq(Literals))
      BY <2>7 DEF Lines
    <3> HIDE DEF m, pc
    <3>2. QED
      BY <2>8, <3>1, FlattenMore
  <2>10. F(Append(q, p)) = FlattenSeq(Append(m, pc))
    BY <2>4, <2>7
  <2>11. FlattenSeq(m) = R \o c
    BY <2>6 DEF eq
  <2>12. R \in Seq(Literals) /\ PathText(Append(q, p)) = (R \o c) \o p
    BY PatternPath DEF c
  <2> DEFINE Rc == R \o c
  <2> HIDE DEF R
  <2>13. Rc \in Seq(Literals)
    BY <1>0, <2>12, ConcatProperties
  <2> HIDE DEF Rc
  <2>14. Associated(Rc, p, c)
    BY <1>0, <2>2, <2>13, IsAssociated
  <2>15. (Rc \o p) \o c = Rc \o pc
    BY <2>14 DEF Associated
  <2> HIDE DEF pc, m, F
  <2>16. F(Append(q, p)) = Rc \o pc
    BY <2>9, <2>10, <2>11 DEF Rc
  <2>17. PathText(Append(q, p)) \o c = (Rc \o p) \o c
    BY <2>12 DEF Rc
  <2>18. QED
    BY <2>1, <2>15, <2>16, <2>17
<1>3. Seq(Pattern) \subseteq A
  <2> HIDE DEF A
  <2> QED BY <1>1, <1>2, SeqInduction
<1>4. QED
  BY <1>3
-----------------------------------------------------------------------------
(* The regex of a route, and the first route that fits. *)

(* A route's regex is the path of its patterns. *)
Patterned(tokens) == [k \in 1 .. Len(tokens) |-> IF IsParam(tokens[k]) THEN <<ANY>> ELSE tokens[k]]

(* The patterns are as many as the tokens. *)
LEMMA PatternedType ==
    ASSUME NEW tokens \in Seq(Segment)
    PROVE  /\ Patterned(tokens) \in Seq(Pattern) /\ Len(Patterned(tokens)) = Len(tokens)
           /\ \A k \in 1 .. Len(tokens) :
                 Patterned(tokens)[k] = IF IsParam(tokens[k]) THEN <<ANY>> ELSE tokens[k]
<1> DEFINE n == Len(tokens)
           P == Patterned(tokens)
<1>1. n \in Nat /\ \A k \in 1 .. n : tokens[k] \in Segment
  BY ElementOfSeq, LenProperties
<1>2. P = [k \in 1 .. n |-> IF IsParam(tokens[k]) THEN <<ANY>> ELSE tokens[k]]
  BY DEF Patterned
<1> HIDE DEF n, P
<1>3. P \in [1 .. n -> Pattern]
  BY <1>1, <1>2, PatternFacts
<1>4. P \in Seq(Pattern) /\ Len(P) = n
  BY <1>1, <1>3
<1>5. QED
  BY <1>2, <1>4 DEF n, P

(* generate_route_regex makes it, without the last slash. *)
LEMMA RegexOfRoute ==
    ASSUME NEW text, NEW tokens \in Seq(Segment), split(text, "/") = << <<>> >> \o tokens
    PROVE  generate_route_regex(text) = PathText(Patterned(tokens))
<1> DEFINE P == Patterned(tokens)
           R == PathText(P)
           c == <<"/">>
           e == << <<>> >>
           all == e \o tokens
           eP == e \o P
           piece(token) == (IF IsParam(token) THEN <<ANY>> ELSE token) \o c
           made == [i \in 1 .. Len(all) |-> piece(all[i])]
           n == Len(tokens)
<1>1. P \in Seq(Pattern) /\ Len(P) = n /\ n \in Nat
  BY PatternedType, LenProperties
<1>2. \A k \in 1 .. n : P[k] = IF IsParam(tokens[k]) THEN <<ANY>> ELSE tokens[k]
  BY PatternedType
<1>3. Len(all) = 1 + n /\ all[1] = <<>> /\ \A k \in 1 .. n : all[k + 1] = tokens[k]
  <2>1. <<>> \in Segment
    BY DEF Segment
  <2>2. QED
    BY <2>1, HeadFirst
<1>4. Len(eP) = 1 + n /\ eP[1] = <<>> /\ \A k \in 1 .. n : eP[k + 1] = P[k]
  <2>1. <<>> \in Pattern
    BY DEF Segment, Pattern
  <2> HIDE DEF P
  <2>2. QED
    BY <1>1, <2>1, HeadFirst
<1> HIDE DEF P, all, eP
<1>5. made = Closed(eP)
  <2>1. Closed(eP) = [i \in 1 .. 1 + n |-> eP[i] \o c]
    BY <1>4 DEF Closed
  <2>2. made = [i \in 1 .. 1 + n |-> piece(all[i])]
    BY <1>3
  <2>3. ASSUME NEW i \in 1 .. 1 + n
        PROVE  piece(all[i]) = eP[i] \o c
    <3>1. CASE i = 1
      <4>1. ~IsParam(<<>>)
        BY DEF IsParam
      <4>2. QED
        BY <1>3, <1>4, <3>1, <4>1
    <3>2. CASE i # 1
      <4>1. PICK k \in 1 .. n : i = k + 1
        <5>1. i - 1 \in 1 .. n /\ i = (i - 1) + 1
          BY <1>1, <3>2
        <5>2. QED
          BY <5>1
      <4>2. all[i] = tokens[k] /\ eP[i] = P[k]
        BY <1>3, <1>4, <4>1
      <4>3. QED
        BY <1>2, <4>2
    <3>3. QED
      BY <3>1, <3>2
  <2> HIDE DEF piece, c
  <2>4. QED
    BY <2>1, <2>2, <2>3
<1>6. FlattenSeq(Closed(eP)) = R \o c
  BY <1>1, ClosedPath DEF eP
<1>7. generate_route_regex(text) = LET f == FlattenSeq(made) IN SubSeq(f, 1, Len(f) - 1)
  BY DEF generate_route_regex, all
<1> HIDE DEF made
<1>8. generate_route_regex(text) = SubSeq(R \o c, 1, Len(R \o c) - 1)
  BY <1>5, <1>6, <1>7
<1>9. R \in Seq(Literals) /\ c \in Seq(Literals) /\ Len(c) = 1
  BY <1>1, PatternFacts, PatternPath
<1> HIDE DEF R, c
<1>10. Len(R \o c) = Len(R) + 1 /\ Len(R) \in Nat
  <2>1. Len(R \o c) = Len(R) + Len(c)
    BY <1>9, ConcatProperties
  <2>2. Len(R) \in Nat
    BY <1>9, LenProperties
  <2>3. QED
    BY <1>9, <2>1, <2>2
<1>11. Len(R \o c) - 1 = Len(R)
  BY <1>10
<1>12. SubSeq(R \o c, 1, Len(R)) = R
  BY <1>9, Beginning
<1>13. QED
  BY <1>8, <1>11, <1>12 DEF R, P

(* The pieces of a path that does not end with a slash. *)
LEMMA PathDepth ==
    ASSUME NEW segments \in Seq(Segment), segments # <<>>
    PROVE  /\ Pieces(PathText(segments), "/") = << <<>> >> \o segments
           /\ Last(segments) # <<>> => url_depth(PathText(segments)) = 1 + Len(segments)
<1> DEFINE e == << <<>> >>
           T == Seq(Symbols)
           u == PathText(segments)
<1>1. Pieces(u, "/") = e \o segments
  <2>1. segments \in Lines(Symbols \ {"/"})
    BY DEF Segment, Lines
  <2>2. QED
    BY <2>1, PatternFacts, PathSplit
<1>2. ASSUME Last(segments) # <<>>
      PROVE  Len(split(u, "/")) = 1 + Len(segments)
  <2>1. segments \in Seq(T) /\ e \in Seq(T)
    <3>1. segments \in Seq(T)
      BY PatternFacts, SeqMonotonic
    <3>2. <<>> \in T
      OBVIOUS
    <3> HIDE DEF T
    <3>3. QED
      BY <3>1, <3>2, OneSymbol
  <2> HIDE DEF T, u
  <2>2. PICK f \in Seq(T), l \in T : segments = Append(f, l)
    BY <2>1, SequenceEmptyOrAppend
  <2>3. l # <<>>
    BY <1>2, <2>2, FrontLast
  <2>4. e \o Append(f, l) = Append(e \o f, l) /\ e \o f \in Seq(T)
    BY <2>1, <2>2, AppendAfter, ConcatProperties
  <2> DEFINE ef == e \o f
  <2>5. split(u, "/") = Trim(Append(ef, l))
    BY <1>1, <2>2, <2>4, SplitTrims
  <2>6. ef \in Seq(Seq(Symbols)) /\ l \in Seq(Symbols)
    BY <2>4 DEF T
  <2> HIDE DEF ef
  <2>7. Trim(Append(ef, l)) = Append(ef, l)
    BY <2>3, <2>6, TrimAppend
  <2>8. split(u, "/") = e \o segments
    BY <2>2, <2>4, <2>5, <2>7 DEF ef
  <2>9. Len(e \o segments) = 1 + Len(segments)
    <3>1. <<>> \in Segment
      BY DEF Segment
    <3>2. QED
      BY <3>1, HeadFirst
  <2>10. QED
    BY <2>8, <2>9
<1>3. QED
  BY <1>1, <1>2 DEF url_depth

(* When a route takes a path: exactly when the path fits it. *)
LEMMA TakesFits ==
    ASSUME RouterInv, NEW r \in Requests, request = r, Last(r.segments) # <<>>, NEW i \in 1 .. Len(routes)
    PROVE  Takes(i, RequestText(r)) <=> Fits(i)
<1> DEFINE S == r.segments
           u == PathText(S)
<1>1. S \in Seq(Segment) /\ S # <<>> /\ UpTo(RequestText(r), "?") = u
  <2>1. r.segments \in Texts(Word) /\ UpTo(RequestText(r), "?") = u
    BY RequestParts
  <2>2. r.segments \in Lines(Word) /\ r.segments # <<>>
    BY <2>1 DEF Texts, Lines
  <2>3. r.segments \in Lines(Symbols \ {"/"})
    BY <2>2, WordFacts, LinesWiden
  <2>4. QED
    BY <2>1, <2>2, <2>3 DEF Lines, Segment
<1>2. PICK text \in RouteTexts : routes[i] = RouteOf(text)
  <2> DEFINE R == {RouteOf(t) : t \in RouteTexts}
  <2>1. routes \in Seq(R)
    BY DEF RouterInv
  <2> HIDE DEF R
  <2>2. routes[i] \in R
    BY <2>1, ElementOfSeq
  <2>3. QED
    BY <2>2 DEF R
<1>3. PICK tokens \in Texts(Word) : split(text, "/") = << <<>> >> \o tokens
  BY RouteTokens
<1>4. tokens \in Seq(Segment)
  <2>1. tokens \in Lines(Word)
    BY <1>3 DEF Texts, Lines
  <2>2. tokens \in Lines(Symbols \ {"/"})
    BY <2>1, WordFacts, LinesWiden
  <2>3. QED
    BY <2>2 DEF Lines, Segment
<1> DEFINE P == Patterned(tokens)
           n == Len(tokens)
<1>5. /\ routes[i].regex = PathText(P) /\ routes[i].depth = url_depth(text)
  BY <1>2, <1>3, <1>4, RegexOfRoute DEF RouteOf
<1>6. url_depth(text) = 1 + n /\ n \in Nat
  <2>1. <<>> \in Segment
    BY DEF Segment
  <2>2. Len(<< <<>> >> \o tokens) = 1 + Len(tokens) /\ Len(tokens) \in Nat
    BY <1>4, <2>1, HeadFirst
  <2>3. QED
    BY <1>3, <2>2 DEF url_depth
<1>7. Tokens(i) = tokens
  <2>1. <<>> \in Segment
    BY DEF Segment
  <2>2. Tail(<< <<>> >> \o tokens) = tokens
    BY <1>4, <2>1, TailRest
  <2>3. routes[i].text = text
    BY <1>2 DEF RouteOf
  <2>4. QED
    BY <1>3, <2>2, <2>3 DEF Tokens
<1>8. /\ P \in Seq(Pattern) /\ Len(P) = n
      /\ \A k \in 1 .. n : P[k] = IF IsParam(tokens[k]) THEN <<ANY>> ELSE tokens[k]
  BY <1>4, PatternedType
<1>9. \A k \in 1 .. n : tokens[k] # <<ANY>>
  <2>1. ASSUME NEW t \in Segment
        PROVE  t # <<ANY>>
    <3>1. t \in Seq(Symbols)
      BY PatternFacts
    <3>2. <<ANY>> \notin Seq(Symbols)
      <4>1. ASSUME <<ANY>> \in Seq(Symbols)
            PROVE  FALSE
        <5> DEFINE a == <<ANY>>
        <5>1. a \in Seq(Symbols) /\ Len(a) = 1 /\ a[1] = ANY
          BY <4>1
        <5> HIDE DEF a
        <5>2. 1 \in 1 .. Len(a)
          BY <5>1
        <5>3. a[1] \in Symbols
          BY <5>1, <5>2, ElementOfSeq
        <5>4. QED
          BY <5>1, <5>3, PatternFacts
      <4>2. QED
        BY <4>1
    <3>3. QED
      BY <3>1, <3>2
  <2>2. \A k \in 1 .. n : tokens[k] \in Segment
    BY <1>4, ElementOfSeq
  <2>3. QED
    BY <2>1, <2>2
<1> HIDE DEF P
<1>10. Agree(P, S) <=> Fits(i)
  <2> DEFINE m == Len(S)
  <2>1. Fits(i) <=> (n = m /\ \A k \in 1 .. n : IsParam(tokens[k]) \/ tokens[k] = S[k])
    BY <1>7 DEF Fits
  <2>2. Agree(P, S) <=> (m = n /\ \A k \in 1 .. n : P[k] = <<ANY>> \/ P[k] = S[k])
    BY <1>8 DEF Agree
  <2>3. ASSUME NEW k \in 1 .. n
        PROVE  (P[k] = <<ANY>> \/ P[k] = S[k]) <=> (IsParam(tokens[k]) \/ tokens[k] = S[k])
    <3>1. CASE IsParam(tokens[k])
      BY <1>8, <3>1
    <3>2. CASE ~IsParam(tokens[k])
      <4>1. P[k] = tokens[k] /\ tokens[k] # <<ANY>>
        BY <1>8, <1>9, <3>2
      <4>2. QED
        BY <3>2, <4>1
    <3>3. QED
      BY <3>1, <3>2
  <2> HIDE DEF m, n, S
  <2>4. QED
    BY <2>1, <2>2, <2>3
<1>11. url_depth(u) = 1 + Len(S) /\ Len(S) \in Nat /\ Len(Pieces(u, "/")) = 1 + Len(S)
       /\ Pieces(u, "/") = << <<>> >> \o S
  <2> HIDE DEF S
  <2>1. Pieces(u, "/") = << <<>> >> \o S /\ url_depth(u) = 1 + Len(S)
    BY <1>1, PathDepth DEF S
  <2>2. Len(<< <<>> >> \o S) = 1 + Len(S) /\ Len(S) \in Nat
    <3>1. <<>> \in Segment
      BY DEF Segment
    <3>2. QED
      BY <1>1, <3>1, HeadFirst
  <2>3. QED
    BY <2>1, <2>2
<1>12. u \in Seq(Symbols)
  <2>1. PathText(S) \in Seq(Symbols)
    <3> HIDE DEF S
    <3>1. <<>> \in Segment
      BY DEF Segment
    <3>2. QED
      BY <1>1, <3>1, SegmentPath
  <2>2. QED
    BY <2>1
<1>13. Takes(i, RequestText(r)) <=> (n = Len(S) /\ regex_match(u, PathText(P)))
  <2>1. Takes(i, RequestText(r)) <=> (1 + n = url_depth(u) /\ regex_match(u, PathText(P)))
    BY <1>1, <1>5, <1>6 DEF Takes
  <2> HIDE DEF S, u, n
  <2>2. 1 + n = 1 + Len(S) <=> n = Len(S)
    BY <1>6, <1>11
  <2>3. QED
    BY <1>11, <2>1, <2>2
<1>14. ASSUME n = Len(S), regex_match(u, PathText(P))
       PROVE  Agree(P, S)
  <2> HIDE DEF S, u, n
  <2>1. Spread(u, P)
    BY <1>8, <1>12, MatchSpreads
  <2>2. Len(Pieces(u, "/")) = Len(P) + 1
    BY <1>6, <1>8, <1>11, <1>14
  <2>3. PICK s \in Seq(Segment) : u = PathText(s) /\ Agree(P, s)
    BY <1>14, <2>1, <2>2 DEF Spread
  <2>4. Len(s) = n /\ Len(S) # 0
    BY <1>1, <1>8, <2>3, EmptySeq DEF Agree
  <2>5. s # <<>>
    BY <1>14, <2>4
  <2>6. Pieces(PathText(s), "/") = << <<>> >> \o s
    BY <2>5, PathDepth
  <2>7. << <<>> >> \o s = << <<>> >> \o S
    BY <1>11, <2>3, <2>6
  <2>8. Tail(<< <<>> >> \o s) = s /\ Tail(<< <<>> >> \o S) = S
    <3>1. <<>> \in Segment
      BY DEF Segment
    <3>2. QED
      BY <1>1, <3>1, TailRest
  <2>9. s = S
    BY <2>7, <2>8
  <2>10. QED
    BY <2>3, <2>9
<1>15. ASSUME Agree(P, S)
       PROVE  n = Len(S) /\ regex_match(u, PathText(P))
  <2>1. Len(S) = n
    BY <1>8, <1>15 DEF Agree
  <2>2. regex_match(PathText(S), PathText(P))
    <3> HIDE DEF S
    <3> QED BY <1>1, <1>8, <1>15, AgreeMatches
  <2>3. QED
    BY <2>1, <2>2
<1>16. QED
  BY <1>10, <1>13, <1>14, <1>15

(* In every state a request whose path does not end with a slash has gone to  *)
(* the first route that fits it segment by segment, and to none when none     *)
(* fits: although the ".*" of a route's regex spans slashes, Router::match    *)
(* compares the depths too, and both together leave the routes that agree in  *)
(* every segment.                                                             *)
THEOREM Fitted == Spec => []FirstFit
<1>1. RouterInv => FirstFit
  <2> SUFFICES ASSUME RouterInv, Served, request.segments # <<>>, Last(request.segments) # <<>>
               PROVE  answer.route = SelectInSeq([i \in 1 .. Len(routes) |-> i], Fits)
    BY DEF FirstFit
  <2>1. PICK r \in Requests : request = r /\ answer = Answered(r)
    BY DEF RouterInv, Served
  <2> DEFINE url == RequestText(r)
             n == Len(routes)
             F == {i \in 1 .. n : Fits(i)}
             T == {i \in 1 .. n : Takes(i, url)}
             indices == [i \in 1 .. n |-> i]
  <2>2. answer.route = match(url)
    BY <2>1 DEF Answered, Found, Unrouted, Answer
  <2>3. match(url) = IF T # {} THEN Min(T) ELSE 0
    BY DEF match, SelectInSeq, Takes
  <2>4. F = T
    <3>1. \A i \in 1 .. n : Takes(i, url) <=> Fits(i)
      BY <2>1, TakesFits
    <3>2. QED
      BY <3>1
  <2>5. SelectInSeq(indices, Fits) = IF F # {} THEN Min(F) ELSE 0
    <3>1. n \in Nat
      <4>1. routes \in Seq({RouteOf(t) : t \in RouteTexts})
        BY DEF RouterInv
      <4>2. QED
        BY <4>1, LenProperties
    <3>2. Len(indices) = n /\ \A i \in 1 .. n : indices[i] = i
      BY <3>1
    <3>3. {i \in 1 .. Len(indices) : Fits(indices[i])} = F
      BY <3>2
    <3> HIDE DEF indices
    <3>4. QED
      BY <3>3 DEF SelectInSeq
  <2> HIDE DEF F, T
  <2>6. QED
    BY <2>2, <2>3, <2>4, <2>5
<1>2. QED
  BY <1>1, Invariant, PTL
-----------------------------------------------------------------------------
(* The fields of a query, and what is read of them. *)

(* The symbols of keys and values, in a query that holds no slash. *)
Inner == Symbols \ {"/", "?", "&", "=", ","}

(* What these symbols are and are not. *)
InnerFacts == /\ Inner \subseteq Symbols /\ Inner = (Symbols \ {"/", "?", "&", "="}) \ {","}
              /\ Inner \subseteq Symbols \ {"/", "?", "&"} /\ "=" \notin Inner /\ "," \notin Inner
              /\ Symbols \ {"/", "?", "&", "="} \subseteq Symbols \ {"/", "?", "&"}
              /\ Symbols \ {"/", "?", "&", "="} \subseteq Symbols
              /\ "=" \notin Symbols \ {"/", "?", "&", "="}
              /\ "," \in Symbols \ {"/", "?", "&", "="}
              /\ "=" \in Symbols \ {"/", "?", "&"} /\ "=" \in Symbols

(* They are so. *)
LEMMA InnerIs == InnerFacts
<1>1. "," \in Symbols /\ "=" \in Symbols
  BY RouteAssumption
<1>2. "," \in Symbols \ {"/", "?", "&", "="}
  BY <1>1
<1>3. "=" \in Symbols \ {"/", "?", "&"}
  BY <1>1
<1>4. Inner = (Symbols \ {"/", "?", "&", "="}) \ {","}
  BY DEF Inner
<1>5. Inner \subseteq Symbols /\ Inner \subseteq Symbols \ {"/", "?", "&"} /\ "=" \notin Inner /\ "," \notin Inner
  BY DEF Inner
<1>6. /\ Symbols \ {"/", "?", "&", "="} \subseteq Symbols \ {"/", "?", "&"}
      /\ Symbols \ {"/", "?", "&", "="} \subseteq Symbols
      /\ "=" \notin Symbols \ {"/", "?", "&", "="}
  OBVIOUS
<1>7. QED
  BY <1>1, <1>2, <1>3, <1>4, <1>5, <1>6 DEF InnerFacts

(* The values of a field whose values are there and hold no slash. *)
LEMMA PlainValues ==
    ASSUME NEW f \in Field, Plain(f)
    PROVE  f.values \in Seq(Seq(Inner) \ {<<>>}) /\ f.values # <<>> /\ f.equals /\ f.key \in Seq(Inner)
<1> DEFINE vv == f.values
           n == Len(vv)
           W == Symbols \ {"?", "&", "=", ","}
           T == Seq(Inner) \ {<<>>}
<1>1. vv \in Seq(Seq(W) \ {<<>>}) /\ f.key \in Seq(Inner)
  BY DEF Field, Plaintext, Inner
<1>2. vv # <<>> /\ f.equals /\ \A v \in ToSet(vv) : ~Contains(v, "/")
  BY DEF Plain
<1>3. W \ {"/"} = Inner
  BY DEF Inner
<1> HIDE DEF vv, W
<1>4. n \in Nat /\ vv \in [1 .. n -> Seq(W) \ {<<>>}]
  BY <1>1, LenProperties
<1> HIDE DEF n
<1>5. ASSUME NEW i \in 1 .. n
      PROVE  vv[i] \in T
  <2> DEFINE v == vv[i]
  <2>1. v \in Seq(W) /\ v # <<>>
    BY <1>4
  <2>2. ~Contains(v, "/")
    <3>1. v \in ToSet(vv)
      BY <1>4 DEF ToSet
    <3>2. QED
      BY <1>2, <3>1
  <2> HIDE DEF v
  <2>3. v \in Seq(W \ {"/"})
    BY <2>1, <2>2, PlainIf
  <2>4. QED
    BY <1>3, <2>1, <2>3 DEF v
<1>6. vv \in [1 .. n -> T]
  BY <1>4, <1>5
<1>7. vv \in Seq(T)
  <2> HIDE DEF T
  <2> QED BY <1>4, <1>6
<1>8. QED
  BY <1>1, <1>2, <1>7 DEF vv

(* What Trim leaves alone. *)
LEMMA TrimFull ==
    ASSUME NEW X, NEW vv \in Seq(Seq(X) \ {<<>>}), vv # <<>>
    PROVE  Trim(vv) = vv /\ vv \in Texts(X)
<1>1. PICK f \in Seq(Seq(X) \ {<<>>}), l \in Seq(X) \ {<<>>} : vv = Append(f, l)
  <2> DEFINE T == Seq(X) \ {<<>>}
  <2> HIDE DEF T
  <2>1. vv \in Seq(T)
    BY DEF T
  <2>2. \E f \in Seq(T), l \in T : vv = Append(f, l)
    BY <2>1, SequenceEmptyOrAppend
  <2>3. QED
    BY <2>2 DEF T
<1>2. Seq(Seq(X) \ {<<>>}) \subseteq Seq(Seq(X))
  <2> DEFINE T == Seq(X) \ {<<>>}
             S == Seq(X)
  <2>1. T \subseteq S
    OBVIOUS
  <2> HIDE DEF T, S
  <2>2. Seq(T) \subseteq Seq(S)
    BY <2>1, SeqMonotonic
  <2>3. QED
    BY <2>2 DEF T, S
<1>3. f \in Seq(Seq(X)) /\ l \in Seq(X) /\ l # <<>>
  BY <1>2
<1>4. Trim(Append(f, l)) = Append(f, l)
  BY <1>3, TrimAppend
<1>5. QED
  BY <1>1, <1>2, <1>4 DEF Texts

(* Values joined by commas, and found again. *)
ValueText(values) == Joined(<<>>, <<",">>, values)

(* A comma separates values that are not empty and hold none; one value alone *)
(* is its own text.                                                           *)
LEMMA ValuesFound ==
    ASSUME NEW values \in Seq(Seq(Inner) \ {<<>>}), values # <<>>
    PROVE  /\ ValueText(values) \in Seq(Symbols \ {"/", "?", "&", "="}) /\ ValueText(values) # <<>>
           /\ split(ValueText(values), ",") = values
           /\ ~(Len(values) > 1) => values = <<ValueText(values)>>
<1> DEFINE X == Symbols \ {"/", "?", "&", "="}
           c == <<",">>
           J == Joined(<<>>, c, values)
<1>1. InnerFacts
  BY InnerIs
<1>2. Trim(values) = values /\ values \in Texts(Inner)
  BY TrimFull
<1>3. "," \in X /\ Inner = X \ {","} /\ Inner \subseteq X
  BY <1>1 DEF InnerFacts
<1> HIDE DEF X
<1>4. values \in Lines(Inner) /\ values \in Lines(X) /\ values \in Lines(X \ {","})
  <2>1. values \in Lines(Inner)
    BY <1>2 DEF Texts, Lines
  <2>2. QED
    BY <1>3, <2>1, LinesWiden
<1>5. c \in Seq(X) /\ <<>> \in Seq(X)
  <2>1. c \in Seq(X)
    BY <1>3, OneSymbol
  <2>2. <<>> \in Seq(X)
    OBVIOUS
  <2>3. QED
    BY <2>1, <2>2
<1>6. J \in Seq(X)
  <2> HIDE DEF c
  <2> QED BY <1>4, <1>5, JoinedType
<1>7. Pieces(J, ",") = values
  BY <1>3, <1>4, JoinedPieces
<1>8. split(J, ",") = values
  BY <1>2, <1>7, SplitTrims
<1>9. J # <<>>
  <2> SUFFICES ASSUME J = <<>>
               PROVE  FALSE
    OBVIOUS
  <2>1. Pieces(<<>>, ",") = << <<>> >>
    BY PiecesNone
  <2> HIDE DEF J
  <2>2. values = << <<>> >>
    BY <1>7, <2>1
  <2>3. values[1] = <<>> /\ Len(values) = 1
    BY <2>2
  <2>4. values[1] \in Seq(Inner) \ {<<>>}
    <3> DEFINE T == Seq(Inner) \ {<<>>}
    <3>1. 1 \in 1 .. Len(values)
      BY <2>3
    <3> HIDE DEF T
    <3>2. values[1] \in T
      BY <3>1, ElementOfSeq DEF T
    <3>3. QED
      BY <3>2 DEF T
  <2>5. QED
    BY <2>3, <2>4
<1>10. ASSUME ~(Len(values) > 1)
       PROVE  values = <<J>>
  <2> DEFINE T == Seq(X)
  <2>1. values \in Seq(T)
    BY <1>4 DEF Lines
  <2> HIDE DEF T
  <2>2. Len(values) = 1 /\ values = <<values[1]>> /\ values[1] \in T
    <3>1. Len(values) \in Nat /\ Len(values) # 0
      BY <2>1, EmptySeq, LenProperties
    <3> DEFINE n == Len(values)
    <3>0. n \in Nat /\ n # 0 /\ ~(n > 1)
      BY <1>10, <3>1
    <3> HIDE DEF n
    <3>00. n = 1
      BY <3>0
    <3>2. Len(values) = 1
      BY <3>00 DEF n
    <3>3. values[1] \in T
      BY <2>1, <3>2, ElementOfSeq
    <3> DEFINE v == values[1]
               one == <<v>>
    <3>4. one \in Seq(T) /\ Len(one) = 1 /\ one[1] = v
      BY <3>3
    <3>5. \A i \in 1 .. 1 : values[i] = one[i]
      BY <3>4
    <3> HIDE DEF one
    <3>6. values = one
      BY <2>1, <3>2, <3>4, <3>5, SeqEqual
    <3>7. QED
      BY <3>2, <3>3, <3>6 DEF one
  <2> DEFINE v == values[1]
  <2>3. v \in Seq(X) /\ values = <<v>>
    BY <2>2 DEF T
  <2> HIDE DEF v, c
  <2>4. Joined(<<>>, c, <<v>>) = <<>> \o v
    BY <1>5, <2>3, JoinedOne
  <2>5. <<>> \o v = v
    BY <2>3, ConcatEmptySeq
  <2>6. QED
    BY <2>3, <2>4, <2>5
<1>11. QED
  BY <1>6, <1>8, <1>9, <1>10 DEF ValueText, X

(* What a field's text is read as. *)
ValuesRead(text) == LET values == split(text, ",") IN IF Len(values) > 1 THEN values ELSE <<text>>

(* A field is read: its key and its values are those that its sender meant. *)
FieldRead(f) ==
    /\ FieldText(f) \in Seq(Symbols \ {"/", "?", "&"}) /\ FieldText(f) # <<>>
    /\ FieldDefined(FieldText(f))
    /\ split(FieldText(f), "=")[1] = f.key
    /\ ValuesRead(split(FieldText(f), "=")[2]) = f.values

(* Two texts in a list. *)
LEMMA Both ==
    ASSUME NEW S, NEW u \in S, NEW v \in S
    PROVE  <<u>> \o <<v>> = <<u, v>>
<1>1. <<u>> \in Seq(S) /\ <<v>> \in Seq(S) /\ <<u, v>> \in Seq(S)
  OBVIOUS
<1>2. Len(<<u>> \o <<v>>) = 2 /\ Len(<<u, v>>) = 2
  BY <1>1, ConcatProperties
<1>3. (<<u>> \o <<v>>)[1] = u /\ (<<u>> \o <<v>>)[2] = v
  BY <1>1, ConcatProperties
<1>4. <<u, v>>[1] = u /\ <<u, v>>[2] = v
  OBVIOUS
<1> DEFINE a == <<u>> \o <<v>>
           b == <<u, v>>
<1>5. a \in Seq(S) /\ b \in Seq(S)
  BY <1>1, ConcatProperties
<1>6. Len(a) = Len(b) /\ Len(a) = 2 /\ a[1] = b[1] /\ a[2] = b[2]
  BY <1>2, <1>3, <1>4
<1> HIDE DEF a, b
<1>7. \A i \in 1 .. Len(a) : a[i] = b[i]
  BY <1>6
<1>8. a = b
  BY <1>5, <1>6, <1>7, SeqEqual
<1>9. QED
  BY <1>8 DEF a, b

(* A field is read that has an equals sign and values without a slash. *)
LEMMA FieldIsRead ==
    ASSUME NEW f \in Field, Plain(f)
    PROVE  FieldRead(f)
<1> DEFINE k == f.key
           J == ValueText(f.values)
           e == <<"=">>
           t == FieldText(f)
           X == Symbols \ {"/", "?", "&"}
           V == Symbols \ {"/", "?", "&", "="}
<1>1. InnerFacts /\ f.values \in Seq(Seq(Inner) \ {<<>>}) /\ f.values # <<>> /\ f.equals /\ k \in Seq(Inner)
  BY InnerIs, PlainValues
<1>2. /\ J \in Seq(V) /\ J # <<>> /\ split(J, ",") = f.values
      /\ ~(Len(f.values) > 1) => f.values = <<J>>
  BY <1>1, ValuesFound
<1>3. t = (k \o e) \o J
  BY <1>1, FieldType DEF ValueText
<1>4. ValuesRead(J) = f.values
  BY <1>2 DEF ValuesRead
<1>5. /\ Inner \subseteq X /\ V \subseteq X /\ "=" \in X /\ Inner \subseteq Symbols /\ V \subseteq Symbols
      /\ "=" \in Symbols /\ "=" \notin Inner /\ "=" \notin V
  BY <1>1 DEF InnerFacts
<1> HIDE DEF X, V, J, t, k
<1>6. k \in Seq(X) /\ J \in Seq(X) /\ e \in Seq(X) /\ k \in Seq(Symbols) /\ J \in Seq(Symbols)
  BY <1>1, <1>2, <1>5, SeqMonotonic, OneSymbol
<1>7. t \in Seq(X) /\ t # <<>>
  <2> HIDE DEF e
  <2> DEFINE ke == k \o e
  <2>1. ke \in Seq(X)
    BY <1>6, ConcatProperties
  <2> HIDE DEF ke
  <2>2. ke \o J \in Seq(X) /\ Len(ke \o J) = Len(ke) + Len(J)
    BY <1>6, <2>1, ConcatProperties
  <2>4. Len(ke) \in Nat /\ Len(J) \in Nat /\ Len(J) # 0
    BY <1>2, <1>6, <2>1, LenProperties, EmptySeq
  <2>5. ke \o J # <<>>
    BY <2>2, <2>4
  <2>3. QED
    BY <1>3, <2>2, <2>5 DEF ke
<1>8. split(t, "=") = <<k, J>>
  <2>1. split((k \o e) \o J, "=") = Pieces(k, "=") \o split(J, "=")
    BY <1>5, <1>6, SplitCut, Zenon
  <2>2. Pieces(k, "=") = <<k>>
    BY <1>1, <1>5, PiecesPlain
  <2>3. split(J, "=") = <<J>>
    BY <1>2, <1>5, SplitPlain
  <2>4. <<k>> \o <<J>> = <<k, J>>
    BY <1>6, Both
  <2>5. QED
    BY <1>3, <2>1, <2>2, <2>3, <2>4
<1>9. Len(<<k, J>>) = 2 /\ <<k, J>>[1] = k /\ <<k, J>>[2] = J
  OBVIOUS
<1>10. Len(split(t, "=")) > 1 /\ split(t, "=")[1] = k /\ split(t, "=")[2] = J
  <2> DEFINE s == split(t, "=")
             two == <<k, J>>
  <2>1. s = two /\ Len(two) = 2 /\ two[1] = k /\ two[2] = J
    BY <1>8, <1>9
  <2> HIDE DEF s, two
  <2>2. Len(s) > 1 /\ s[1] = k /\ s[2] = J
    BY <2>1
  <2>3. QED
    BY <2>2 DEF s
<1>11. QED
  BY <1>4, <1>7, <1>10 DEF FieldRead, FieldDefined, t, k, X

(* The greatest of some places. *)
LEMMA MaxIn ==
    ASSUME NEW n \in Nat, NEW I \in SUBSET (1 .. n), I # {}
    PROVE  Max(I) \in I
<1> DEFINE A == {n - i : i \in I}
<1>1. A \in SUBSET Nat /\ A # {}
  <2>1. \A i \in I : n - i \in Nat
    OBVIOUS
  <2>2. PICK i \in I : TRUE
    OBVIOUS
  <2>3. n - i \in A
    OBVIOUS
  <2>4. A \in SUBSET Nat
    BY <2>1
  <2>5. QED
    BY <2>3, <2>4
<1>2. PICK m \in A : \A a \in A : m <= a
  <2> HIDE DEF A
  <2> QED BY <1>1, Least
<1>3. PICK j \in I : m = n - j
  OBVIOUS
<1>4. ASSUME NEW i \in I
      PROVE  j >= i
  <2>1. n - i \in A /\ n - j \in A
    OBVIOUS
  <2>2. n - j <= n - i
    BY <1>2, <1>3, <2>1
  <2>3. QED
    BY <2>2
<1>5. \E x \in I : \A y \in I : x >= y
  BY <1>4
<1>6. QED
  BY <1>5 DEF Max

(* The fields of a query, read. *)
LEMMA ParamsMeant ==
    ASSUME NEW query \in Seq(Field), \A i \in 1 .. Len(query) : FieldRead(query[i])
    PROVE  ParamsOf(Texted(query)) = Meant(query)
<1> DEFINE t == Texted(query)
           n == Len(query)
           key(f) == split(f, "=")[1]
           K == {query[i].key : i \in 1 .. n}
           I(k) == {i \in 1 .. n : query[i].key = k}
<1>1. n \in Nat /\ DOMAIN t = 1 .. n /\ \A i \in 1 .. n : t[i] = FieldText(query[i])
  BY LenProperties DEF Texted
<1>2. \A i \in 1 .. n : key(t[i]) = query[i].key /\ ValuesRead(split(t[i], "=")[2]) = query[i].values
  BY <1>1 DEF FieldRead
<1> HIDE DEF t, n
<1>3. {key(f) : f \in ToSet(t)} = K
  BY <1>1, <1>2 DEF ToSet
<1>4. \A k : {i \in DOMAIN t : key(t[i]) = k} = I(k)
  BY <1>1, <1>2
<1>5. ParamsOf(t) = [k \in K |-> ValuesRead(split(t[Max(I(k))], "=")[2])]
  <2>1. ParamsOf(t) = [k \in {key(f) : f \in ToSet(t)} |->
                         ValuesRead(split(t[Max({i \in DOMAIN t : key(t[i]) = k})], "=")[2])]
    BY DEF ParamsOf, ValuesRead
  <2> HIDE DEF K, I, key
  <2>2. QED
    BY <1>3, <1>4, <2>1
<1>6. ASSUME NEW k \in K
      PROVE  ValuesRead(split(t[Max(I(k))], "=")[2]) = query[Max(I(k))].values
  <2>1. I(k) # {} /\ I(k) \in SUBSET (1 .. n)
    OBVIOUS
  <2>2. Max(I(k)) \in I(k)
    <3> HIDE DEF I
    <3> QED BY <1>1, <2>1, MaxIn
  <2>3. Max(I(k)) \in 1 .. n
    BY <2>2
  <2> HIDE DEF I
  <2>4. QED
    BY <1>2, <2>3
<1>7. ParamsOf(t) = [k \in K |-> query[Max(I(k))].values]
  <2> HIDE DEF K, I
  <2> QED BY <1>5, <1>6
<1>8. QED
  BY <1>7 DEF Meant, t, n

(* What is read from a token, and that it is defined. *)
TokenReads(token, params) ==
    token # <<>> /\ TokenDefined(token) /\ parse_params_in_token(token) = params

(* A token without a query has no parameters. *)
LEMMA PlainToken ==
    ASSUME NEW w \in Seq(Word), w # <<>>
    PROVE  TokenReads(w, NoParams)
<1>1. split(w, "?") = <<w>>
  BY WordFacts, SplitPlain
<1>2. ~(Len(<<w>>) > 1)
  OBVIOUS
<1>3. QueryFields(w) = <<>>
  BY <1>1, <1>2 DEF QueryFields
<1>4. ToSet(<<>>) = {}
  BY DEF ToSet
<1>5. QED
  BY <1>3, <1>4 DEF TokenReads, TokenDefined, parse_params_in_token

(* The fields that a query's text is split into. *)
LEMMA BodyFields ==
    ASSUME NEW query \in Seq(Field), query # <<>>, \A i \in 1 .. Len(query) : FieldRead(query[i])
    PROVE  /\ QueryBody(query) \in Seq(Symbols \ {"/"}) /\ QueryBody(query) # <<>>
           /\ split(QueryBody(query), "&") = Texted(query)
<1> DEFINE t == Texted(query)
           n == Len(query)
           X == Symbols \ {"/"}
           Y == Symbols \ {"/", "?", "&"}
<1>1. t # <<>> /\ Len(t) = n /\ n \in Nat /\ \A i \in 1 .. n : t[i] = FieldText(query[i])
  BY TextedType, LenProperties
<1>2. \A i \in 1 .. n : t[i] \in Seq(Y) /\ t[i] # <<>>
  BY <1>1 DEF FieldRead
<1>3. t \in Seq(Seq(Y) \ {<<>>})
  <2> DEFINE S == Seq(Y) \ {<<>>}
  <2>1. DOMAIN t = 1 .. n /\ t = [i \in 1 .. n |-> FieldText(query[i])]
    BY DEF Texted
  <2> HIDE DEF Y, t, n
  <2>2. \A i \in 1 .. n : t[i] \in S
    BY <1>2
  <2> HIDE DEF S
  <2>3. t \in [1 .. n -> S]
    BY <2>1, <2>2
  <2>4. t \in Seq(S)
    BY <1>1, <2>3
  <2>5. QED
    BY <2>4 DEF S
<1> HIDE DEF t, n
<1>4. Trim(t) = t /\ t \in Texts(Y)
  <2> HIDE DEF Y
  <2> QED BY <1>1, <1>3, TrimFull
<1>5. "&" \in X /\ Y \subseteq X
  BY RouteAssumption
<1> HIDE DEF X, Y
<1>6. t \in Lines(X) /\ <<>> \in Seq(X) /\ <<"&">> \in Seq(X)
  <2>1. t \in Lines(Y)
    BY <1>4 DEF Texts, Lines
  <2>2. <<>> \in Seq(X)
    OBVIOUS
  <2>3. QED
    BY <1>5, <2>1, <2>2, LinesWiden, OneSymbol
<1>7. Joined(<<>>, <<"&">>, t) \in Seq(X)
  <2> DEFINE a == <<"&">>
  <2>1. a \in Seq(X)
    BY <1>6
  <2> HIDE DEF a
  <2>2. Joined(<<>>, a, t) \in Seq(X)
    BY <1>6, <2>1, JoinedType
  <2>3. QED
    BY <2>2 DEF a
<1>8. QueryBody(query) \in Seq(X)
  BY <1>7 DEF QueryBody, t
<1>9. Pieces(QueryBody(query), "&") = t
  BY QueryJoined DEF t
<1>10. split(QueryBody(query), "&") = t
  BY <1>4, <1>9, SplitTrims
<1>11. QueryBody(query) # <<>>
  <2>1. ~(split(<<>>, "&") = t)
    <3>1. "&" \notin {} /\ <<>> \in Seq({})
      OBVIOUS
    <3>2. split(<<>>, "&") = <<>>
      BY <3>1, SplitPlain
    <3>3. QED
      BY <1>1, <3>2
  <2>2. QED
    BY <1>10, <2>1
<1>12. QED
  BY <1>8, <1>10, <1>11 DEF X, t

(* The last token of a url, its query's slashes away: what it is read as. *)
LEMMA QueriedToken ==
    ASSUME NEW l \in Seq(Word), l # <<>>, NEW query \in Seq(Field),
           \A i \in 1 .. Len(query) : FieldRead(query[i])
    PROVE  /\ l \o QueryText(query) \in Seq(Symbols \ {"/"})
           /\ TokenReads(l \o QueryText(query), Meant(query))
<1>0. l \in Seq(Symbols \ {"/"}) /\ l \in Seq(Symbols)
  BY WordFacts, SeqMonotonic
<1>1. CASE query = <<>>
  <2>1. QueryText(query) = <<>>
    BY <1>1, QueryJoined
  <2>2. l \o <<>> = l
    BY ConcatEmptySeq
  <2>3. Meant(<<>>) = NoParams
    <3>1. {<<>>[i].key : i \in 1 .. Len(<<>>)} = {}
      OBVIOUS
    <3>2. QED
      BY <3>1 DEF Meant, NoParams
  <2>4. TokenReads(l, NoParams)
    BY PlainToken
  <2>5. QED
    BY <1>0, <1>1, <2>1, <2>2, <2>3, <2>4
<1>2. CASE query # <<>>
  <2> DEFINE b == QueryBody(query)
             t == Texted(query)
             u == <<"?">>
             c == l \o u
             token == c \o b
  <2>1. b \in Seq(Symbols \ {"/"}) /\ b # <<>> /\ split(b, "&") = t
    BY <1>2, BodyFields
  <2>2. b \in Seq(Symbols \ {"?"}) /\ QueryText(query) = u \o b /\ t # <<>>
    BY <1>2, QueryJoined, TextedType
  <2>3. u \in Seq(Symbols \ {"/"}) /\ u \in Seq(Symbols)
    <3>1. "?" \in Symbols \ {"/"} /\ "?" \in Symbols
      BY WordFacts
    <3>2. QED
      BY <3>1, OneSymbol
  <2> HIDE DEF b, t, u
  <2>4. b \in Seq(Symbols)
    BY <2>2, SeqMonotonic
  <2>5. l \o (u \o b) = c \o b
    <3>1. Associates(Symbols)
      BY ConcatAssociates
    <3>2. QED
      BY <1>0, <2>3, <2>4, <3>1 DEF Associates
  <2>6. c \in Seq(Symbols \ {"/"}) /\ c # <<>>
    BY <1>0, <2>3, ConcatProperties, ConcatEqualIffEmpty
  <2>7. token \in Seq(Symbols \ {"/"}) /\ token # <<>>
    <3> HIDE DEF c
    <3> QED BY <2>1, <2>6, ConcatProperties, ConcatEqualIffEmpty
  <2>8. split(b, "?") = <<b>>
    <3>1. "?" \notin Symbols \ {"?"}
      OBVIOUS
    <3>2. QED
      BY <2>1, <2>2, <3>1, SplitPlain, ZenonT(30)
  <2>9. split(token, "?") = <<l>> \o split(b, "?")
    BY <2>4, CutToken DEF u
  <2>10. <<l>> \o <<b>> = <<l, b>>
    BY <1>0, <2>4, Both
  <2> HIDE DEF token
  <2>11. QueryFields(token) = t
    <3> DEFINE s == split(token, "?")
               two == <<l, b>>
    <3>1. s = two /\ Len(two) = 2 /\ two[2] = b
      BY <2>8, <2>9, <2>10
    <3> HIDE DEF s, two
    <3>2. Len(s) > 1 /\ s[2] = b
      BY <3>1
    <3>3. QED
      BY <2>1, <3>2 DEF QueryFields, s
  <2>12. TokenDefined(token)
    <3>1. \A i \in 1 .. Len(query) : t[i] = FieldText(query[i])
      BY TextedType DEF t
    <3>2. \A i \in 1 .. Len(query) : FieldDefined(t[i])
      BY <3>1 DEF FieldRead
    <3>3. DOMAIN t = 1 .. Len(query)
      BY DEF t, Texted
    <3>4. \A f \in ToSet(t) : FieldDefined(f)
      BY <3>2, <3>3 DEF ToSet
    <3>5. QED
      BY <2>11, <3>4 DEF TokenDefined
  <2>13. ParamsOf(t) = Meant(query)
    BY ParamsMeant DEF t
  <2>14. parse_params_in_token(token) = Meant(query)
    BY <2>2, <2>11, <2>13 DEF parse_params_in_token
  <2>15. TokenReads(token, Meant(query))
    BY <2>7, <2>12, <2>14 DEF TokenReads
  <2>16. l \o QueryText(query) = token
    BY <2>2, <2>5 DEF token
  <2>17. QED
    BY <2>7, <2>15, <2>16
<1>3. QED
  BY <1>1, <1>2

(* The tokens of a wellformed request's url, and what is read from them. *)
LEMMA WellformedTokens ==
    ASSUME NEW r \in Requests, Wellformed(r), NEW n, n = url_depth(PathText(r.segments))
    PROVE  /\ n \in Nat /\ Len(split(RequestText(r), "/")) = n
           /\ \A i \in 2 .. (n - 1) : TokenReads(split(RequestText(r), "/")[i], NoParams)
           /\ TokenReads(split(RequestText(r), "/")[n], Meant(r.query))
<1>1. /\ r.segments \in Texts(Word) /\ r.query \in Seq(Field)
      /\ RequestText(r) = PathText(r.segments) \o QueryText(r.query) /\ QueryText(r.query) \in Seq(Symbols)
  BY RequestParts
<1>2. PICK front \in Seq(Seq(Word)), l \in Seq(Word) : r.segments = Append(front, l)
  <2> DEFINE s == r.segments
  <2>1. s \in Texts(Word)
    BY <1>1
  <2> HIDE DEF s
  <2>2. \E f \in Seq(Seq(Word)), e \in Seq(Word) : s = Append(f, e)
    BY <2>1, TextsAppend
  <2>3. QED
    BY <2>2 DEF s
<1> DEFINE m == Len(front)
           q == QueryText(r.query)
           k == l \o q
           H == << <<>> >> \o front
           T == H \o <<k>>
           S == Seq(Symbols)
<1>3. m \in Nat /\ Len(r.segments) = m + 1 /\ r.segments[m + 1] = l /\ \A i \in 1 .. m : r.segments[i] = front[i]
  BY <1>2, AppendProperties, LenProperties
<1>4. l # <<>> /\ \A i \in 1 .. m : front[i] # <<>>
  <2> DEFINE s == r.segments
  <2>1. DOMAIN s = 1 .. m + 1 /\ <<>> \notin ToSet(s)
    <3>1. s \in Seq(Seq(Word))
      BY <1>1 DEF Texts
    <3>2. <<>> \notin ToSet(s)
      BY DEF Wellformed
    <3> HIDE DEF s
    <3>3. DOMAIN s = 1 .. Len(s)
      BY <3>1, LenProperties
    <3>4. QED
      BY <1>3, <3>2, <3>3 DEF s
  <2> HIDE DEF m
  <2>2. \A i \in 1 .. m + 1 : s[i] # <<>>
    BY <2>1 DEF ToSet
  <2>3. m + 1 \in 1 .. m + 1 /\ 1 .. m \subseteq 1 .. m + 1
    BY <1>3
  <2>4. l # <<>>
    BY <1>3, <2>2, <2>3
  <2>5. ASSUME NEW i \in 1 .. m
        PROVE  front[i] # <<>>
    <3>1. i \in 1 .. m + 1 /\ s[i] = front[i]
      BY <1>3, <2>3
    <3>2. QED
      BY <2>2, <3>1
  <2>6. QED
    BY <2>4, <2>5
<1>5. \A i \in 1 .. Len(r.query) : FieldRead(r.query[i])
  <2> DEFINE fields == r.query
             z == Len(fields)
  <2>1. fields \in Seq(Field) /\ z \in Nat /\ DOMAIN fields = 1 .. z
    BY <1>1, LenProperties
  <2>2. \A f \in ToSet(fields) : Plain(f)
    BY DEF Wellformed
  <2> HIDE DEF fields
  <2>3. ASSUME NEW i \in 1 .. z
        PROVE  FieldRead(fields[i])
    <3>1. fields[i] \in Field
      BY <2>1, ElementOfSeq
    <3>2. Plain(fields[i])
      BY <2>1, <2>2 DEF ToSet
    <3>3. QED
      BY <3>1, <3>2, FieldIsRead
  <2>4. QED
    BY <2>3 DEF fields
<1>6. k \in Seq(Symbols \ {"/"}) /\ TokenReads(k, Meant(r.query))
  BY <1>1, <1>4, <1>5, QueriedToken
<1>7. front \in Lines(Word) /\ l \in Seq(Symbols) /\ q \in Seq(Symbols) /\ front \in Seq(S)
  <2>1. front \in Lines(Word)
    BY DEF Lines
  <2>2. QED
    BY <1>1, <2>1, WordFacts, LinesWiden, SeqMonotonic DEF Lines
<1>8. /\ H \in Seq(S) /\ Len(H) = 1 + m
      /\ \A i \in 1 .. m : H[i + 1] = front[i]
  <2>1. <<>> \in S
    OBVIOUS
  <2>2. QED
    BY <1>7, <2>1, HeadFirst
<1>9. split(k, "/") = <<k>>
  <2>1. "/" \notin Symbols \ {"/"}
    OBVIOUS
  <2>2. k # <<>>
    BY <1>6 DEF TokenReads
  <2> HIDE DEF k
  <2>3. QED
    BY <1>6, <2>1, <2>2, SplitPlain
<1>10. split(RequestText(r), "/") = T
  <2> DEFINE p == PathText(Append(front, l))
             sk == split(k, "/")
  <2>1. split(p \o q, "/") = H \o sk
    BY <1>7, UrlTokens
  <2>2. RequestText(r) = p \o q
    BY <1>1, <1>2
  <2>3. sk = <<k>>
    BY <1>9
  <2> HIDE DEF p, q, H, sk, k
  <2>4. QED
    BY <2>1, <2>2, <2>3
<1>11. n = m + 2
  <2>1. r.segments \in Seq(Segment) /\ r.segments # <<>>
    <3>1. r.segments \in Lines(Word) /\ r.segments # <<>>
      BY <1>1 DEF Texts, Lines
    <3>2. Word \subseteq Symbols \ {"/"}
      BY WordFacts
    <3>3. r.segments \in Lines(Symbols \ {"/"})
      BY <3>1, <3>2, LinesWiden
    <3>4. QED
      BY <3>1, <3>3 DEF Lines, Segment
  <2>2. Last(r.segments) = l
    BY <1>2, FrontLast
  <2>3. url_depth(PathText(r.segments)) = 1 + Len(r.segments)
    BY <1>4, <2>1, <2>2, PathDepth
  <2>4. QED
    BY <1>3, <2>3
<1>12. k \in S
  <2>1. Symbols \ {"/"} \subseteq Symbols
    OBVIOUS
  <2> HIDE DEF k
  <2>2. QED
    BY <1>6, <2>1, SeqMonotonic
<1> HIDE DEF m, q, k, H, S
<1>13. Len(T) = m + 2 /\ \A i \in 1 .. m + 2 : T[i] = IF i <= m + 1 THEN H[i] ELSE k
  <2> DEFINE j == <<k>>
  <2>1. j \in Seq(S) /\ Len(j) = 1 /\ j[1] = k
    BY <1>12
  <2> HIDE DEF j
  <2>2. Len(H \o j) = m + 2
    <3>1. Len(H \o j) = Len(H) + Len(j)
      BY <1>8, <2>1, ConcatProperties
    <3>2. QED
      BY <1>3, <1>8, <2>1, <3>1
  <2>3. \A i \in 1 .. Len(H) + Len(j) : (H \o j)[i] = IF i <= Len(H) THEN H[i] ELSE j[i - Len(H)]
    BY <1>8, <2>1, ConcatProperties
  <2>4. ASSUME NEW i \in 1 .. m + 2
        PROVE  (H \o j)[i] = IF i <= m + 1 THEN H[i] ELSE k
    <3>1. i \in 1 .. Len(H) + Len(j)
      BY <1>3, <1>8, <2>1
    <3>2. CASE i <= m + 1
      BY <1>3, <1>8, <2>3, <3>1, <3>2
    <3>3. CASE ~(i <= m + 1)
      <4>1. i - Len(H) = 1 /\ ~(i <= Len(H))
        BY <1>3, <1>8, <3>3
      <4>2. (H \o j)[i] = j[1]
        BY <2>3, <3>1, <4>1
      <4>3. QED
        BY <2>1, <3>3, <4>2
    <3>4. QED
      BY <3>2, <3>3
  <2>5. QED
    BY <2>2, <2>4 DEF j
<1> HIDE DEF T
<1>14. ASSUME NEW i \in 2 .. (n - 1)
       PROVE  TokenReads(T[i], NoParams)
  <2>1. i - 1 \in 1 .. m /\ i \in 1 .. m + 2 /\ i <= m + 1 /\ (i - 1) + 1 = i
    BY <1>3, <1>11
  <2>2. T[i] = front[i - 1]
    BY <1>8, <1>13, <2>1
  <2>3. front[i - 1] \in Seq(Word) /\ front[i - 1] # <<>>
    <3>1. i - 1 \in 1 .. Len(front)
      BY <2>1 DEF m
    <3>2. QED
      BY <1>4, <2>1, <3>1, ElementOfSeq
  <2>4. TokenReads(front[i - 1], NoParams)
    BY <2>3, PlainToken
  <2>5. QED
    BY <2>2, <2>4
<1>15. T[n] = k
  BY <1>3, <1>11, <1>13, SMTT(30)
<1>16. QED
  BY <1>3, <1>6, <1>10, <1>11, <1>13, <1>14, <1>15

(* The invariant delivers queries. *)
LEMMA DeliveredIn ==
    ASSUME RouterInv
    PROVE  QueryDelivered
<1> SUFFICES ASSUME answer.route # 0, Wellformed(request)
             PROVE  /\ answer.defined
                    /\ \A k \in DOMAIN answer.params :
                          answer.params[k].params =
                              IF k = Len(answer.params) THEN Meant(request.query) ELSE NoParams
  BY DEF QueryDelivered
<1>1. PICK r \in Requests, text \in RouteTexts, i \in 1 .. Len(routes) :
         /\ request = r /\ answer = Answer(i, RequestText(r)) /\ answer.route = i
         /\ routes[i] = RouteOf(text) /\ Takes(i, RequestText(r))
  BY ServedBy
<1> DEFINE url == RequestText(r)
           tokens == split(url, "/")
           schema == parse_param_ids_in_route(text)
           n == url_depth(text)
<1>2. routes[i].params = schema
  BY <1>1 DEF RouteOf
<1>3. n = url_depth(PathText(r.segments))
  <2>1. routes[i].depth = n
    BY <1>1 DEF RouteOf
  <2>2. UpTo(url, "?") = PathText(r.segments)
    BY RequestParts
  <2>3. QED
    BY <1>1, <2>1, <2>2 DEF Takes
<1>4. PICK others \in Seq(Before(n - 1)), last \in Before(n) :
         /\ schema = Append(others, last) /\ last.pos = n - 1
  <2>1. PICK others \in Seq(Before(n - 1)), last \in Before(n) :
           schema = Append(others, last) /\ last = [pos |-> n - 1, name |-> split(text, "/")[n]]
    BY RouteParams
  <2>2. last.pos = n - 1
    BY <2>1
  <2>3. QED
    BY <2>1, <2>2
<1>5. n \in Nat /\ n >= 2
  BY RouteParams
<1>6. /\ Len(tokens) = n
      /\ \A j \in 2 .. (n - 1) : TokenReads(tokens[j], NoParams)
      /\ TokenReads(tokens[n], Meant(r.query))
  <2>1. Wellformed(r)
    BY <1>1
  <2> HIDE DEF n
  <2>2. QED
    BY <1>3, <2>1, WellformedTokens
<1> DEFINE d == Len(schema)
<1> HIDE DEF url, tokens, schema, n
<1>7. /\ d = Len(others) + 1 /\ Len(others) \in Nat /\ schema[d] = last
      /\ \A k \in 1 .. Len(others) : schema[k] = others[k]
  BY <1>4, AppendProperties, LenProperties
<1>8. ASSUME NEW k \in 1 .. d
      PROVE  /\ schema[k].pos < Len(tokens)
             /\ TokenReads(tokens[schema[k].pos + 1], IF k = d THEN Meant(r.query) ELSE NoParams)
  <2>1. CASE k = d
    <3>1. schema[k].pos = n - 1
      BY <1>4, <1>7, <2>1
    <3>2. schema[k].pos + 1 = n /\ n - 1 < n
      BY <1>5, <3>1
    <3>3. QED
      BY <1>6, <2>1, <3>1, <3>2
  <2>2. CASE k # d
    <3>1. k \in 1 .. Len(others)
      BY <1>7, <2>2
    <3> DEFINE p == schema[k].pos
    <3>2. others[k] \in Before(n - 1)
      BY <3>1, ElementOfSeq
    <3>3. p \in Nat /\ 1 <= p /\ p < n - 1
      BY <1>7, <3>1, <3>2 DEF Before
    <3> HIDE DEF p
    <3>4. p + 1 \in 2 .. (n - 1) /\ p < n
      BY <1>5, <3>3
    <3>5. TokenReads(tokens[p + 1], NoParams) /\ p < Len(tokens)
      BY <1>6, <3>4
    <3>6. QED
      BY <2>2, <3>5 DEF p
  <2>3. QED
    BY <2>1, <2>2
<1>9. InRange(url, schema)
  BY <1>8 DEF InRange, tokens
<1>10. /\ DOMAIN TokensOf(url, schema) = 1 .. d
       /\ \A k \in 1 .. d : TokensOf(url, schema)[k] = tokens[schema[k].pos + 1]
  BY DEF TokensOf, tokens
<1>11. ParamsDefined(url, schema)
  <2> DEFINE at == TokensOf(url, schema)
  <2>1. DOMAIN at = 1 .. d /\ \A k \in 1 .. d : at[k] # <<>> /\ TokenDefined(at[k])
    BY <1>8, <1>10 DEF TokenReads
  <2>2. \A token \in ToSet(at) : token # <<>> /\ TokenDefined(token)
    <3> HIDE DEF at, d
    <3> QED BY <2>1 DEF ToSet
  <2>3. QED
    BY <2>2 DEF ParamsDefined
<1>12. answer.defined /\ answer.params = parse_all_params_in_url(url, schema)
  BY <1>1, <1>2, <1>9, <1>11 DEF Answer, url
<1>13. /\ DOMAIN answer.params = 1 .. d /\ Len(answer.params) = d
       /\ \A k \in 1 .. d : answer.params[k].params = parse_params_in_token(TokensOf(url, schema)[k])
  <2> DEFINE given == parse_all_params_in_url(url, schema)
  <2>1. given = [k \in 1 .. d |-> [name |-> schema[k].name,
                                    value |-> split(TokensOf(url, schema)[k], "?")[1],
                                    params |-> parse_params_in_token(TokensOf(url, schema)[k])]]
    BY DEF parse_all_params_in_url
  <2> HIDE DEF d
  <2>2. d \in Nat
    BY <1>7
  <2>3. DOMAIN given = 1 .. d /\ \A k \in 1 .. d : given[k].params = parse_params_in_token(TokensOf(url, schema)[k])
    BY <2>1
  <2>4. Len(given) = d
    BY <2>2, <2>1
  <2>5. QED
    BY <1>12, <2>3, <2>4
<1>14. ASSUME NEW k \in 1 .. d
       PROVE  answer.params[k].params = IF k = d THEN Meant(r.query) ELSE NoParams
  BY <1>8, <1>10, <1>13 DEF TokenReads
<1>15. QED
  BY <1>1, <1>12, <1>13, <1>14

(* In every state a well-formed request has reached its handler with every    *)
(* field of its query in the params of its last segment, the last field of a  *)
(* key counting, and with no params elsewhere; parse_all_params_in_url has    *)
(* read nothing undefined for it.                                             *)
THEOREM Delivered == Spec => []QueryDelivered
<1>1. RouterInv => QueryDelivered
  BY DeliveredIn
<1>2. QED
  BY <1>1, Invariant, PTL

(* Pieces that are the beginnings of others. *)
Begins(X, p, q) ==
    \A i \in 1 .. Len(p) : i <= Len(q) /\ \E e \in Seq(X) : q[i] = p[i] \o e

(* The pieces of a beginning of a text are the beginnings of its pieces. *)
LEMMA PiecesBegin ==
    ASSUME NEW X, NEW d, NEW a \in Seq(X), NEW c \in Seq(X)
    PROVE  Begins(X, Pieces(a, d), Pieces(a \o c, d))
<1> DEFINE p == Pieces(a, d)
           A == {t \in Seq(X) : Begins(X, p, Pieces(a \o t, d))}
<1>1. p \in Seq(Seq(X)) /\ Len(p) \in Nat
  BY SplitType, LenProperties DEF Texts
<1>2. <<>> \in A
  <2>1. a \o <<>> = a /\ <<>> \in Seq(X)
    BY ConcatEmptySeq
  <2> HIDE DEF p
  <2>2. ASSUME NEW i \in 1 .. Len(p)
        PROVE  \E e \in Seq(X) : p[i] = p[i] \o e
    <3>1. p[i] \in Seq(X)
      BY <1>1, ElementOfSeq
    <3>2. p[i] \o <<>> = p[i]
      BY <3>1, ConcatEmptySeq
    <3>3. QED
      BY <2>1, <3>2
  <2>3. \A i \in 1 .. Len(p) : i <= Len(p)
    BY <1>1
  <2>4. Begins(X, p, p)
    BY <2>2, <2>3 DEF Begins
  <2>5. QED
    BY <2>1, <2>4 DEF p
<1>3. ASSUME NEW t \in Seq(X), NEW x \in X, t \in A
      PROVE  Append(t, x) \in A
  <2> DEFINE u == a \o t
             q == Pieces(u, d)
             w == Pieces(Append(u, x), d)
  <2>1. u \in Seq(X) /\ a \o Append(t, x) = Append(u, x) /\ Append(t, x) \in Seq(X)
    BY ConcatProperties, AppendAfter, AppendProperties
  <2>2. Begins(X, p, q)
    BY <1>3
  <2> HIDE DEF u, p
  <2>3. q \in Texts(X) /\ w = Longer(q, x, d)
    BY <2>1, PiecesMore
  <2> HIDE DEF q, w
  <2>4. PICK f \in Seq(Seq(X)), l \in Seq(X) : q = Append(f, l)
    BY <2>3, TextsAppend
  <2>5. /\ x = d => w = Append(Append(f, l), <<>>)
        /\ x # d => w = Append(f, Append(l, x))
    BY <2>3, <2>4, LongerOfAppend, SMTT(30)
  <2> DEFINE lx == Append(l, x)
             m == Len(f)
  <2>6. m \in Nat /\ Len(q) = m + 1 /\ q[m + 1] = l /\ q \in Seq(Seq(X)) /\ \A i \in 1 .. m : q[i] = f[i]
    BY <2>4, AppendProperties, LenProperties
  <2>7. ASSUME NEW i \in 1 .. Len(p)
        PROVE  i <= Len(w) /\ \E e \in Seq(X) : w[i] = p[i] \o e
    <3>1. i <= Len(q) /\ i \in 1 .. Len(q) /\ i \in Nat
      BY <1>1, <2>2, <2>6 DEF Begins
    <3>2. PICK e \in Seq(X) : q[i] = p[i] \o e
      BY <2>2 DEF Begins
    <3>3. CASE x = d
      <4> DEFINE none == <<>>
      <4>1. none \in Seq(X)
        OBVIOUS
      <4> HIDE DEF none
      <4>2. Len(Append(q, none)) = Len(q) + 1 /\ Append(q, none)[i] = q[i]
        BY <2>6, <3>1, <4>1, AppendProperties
      <4>3. w = Append(q, none)
        BY <2>4, <2>5, <3>3 DEF none
      <4>4. i <= Len(w) /\ w[i] = q[i]
        BY <2>6, <3>1, <4>2, <4>3
      <4>5. QED
        BY <3>2, <4>4
    <3>4. CASE x # d
      <4>1. lx \in Seq(X) /\ w = Append(f, lx)
        BY <2>5, <3>4, AppendProperties
      <4> HIDE DEF lx
      <4>2. Len(w) = m + 1 /\ w[m + 1] = lx /\ \A j \in 1 .. m : w[j] = f[j]
        BY <4>1, AppendProperties
      <4> HIDE DEF m
      <4>3. CASE i = m + 1
        <5>1. p[i] \in Seq(X)
          BY <1>1, ElementOfSeq
        <5>2. l = p[i] \o e
          BY <2>6, <3>2, <4>3
        <5> DEFINE pi == p[i]
                   ex == Append(e, x)
        <5>3. ex \in Seq(X)
          BY AppendProperties
        <5>4. pi \in Seq(X)
          BY <5>1
        <5>5. pi \o ex = Append(pi \o e, x)
          <6> HIDE DEF pi
          <6> QED BY <5>4, AppendAfter, SMTT(30)
        <5>6. w[i] = pi \o ex
          BY <4>2, <4>3, <5>2, <5>5 DEF lx
        <5> HIDE DEF ex
        <5>7. \E g \in Seq(X) : w[i] = pi \o g
          BY <5>3, <5>6
        <5>8. i <= Len(w)
          BY <2>6, <4>2, <4>3
        <5>9. QED
          BY <5>7, <5>8
      <4>4. CASE i # m + 1
        <5>1. i \in 1 .. m
          BY <2>6, <3>1, <4>4
        <5>2. i <= Len(w) /\ w[i] = q[i]
          BY <2>6, <4>2, <5>1
        <5>3. QED
          BY <3>2, <5>2
      <4>5. QED
        BY <4>3, <4>4
    <3>5. QED
      BY <3>3, <3>4
  <2>8. Begins(X, p, w)
    BY <2>7 DEF Begins
  <2>9. QED
    BY <2>1, <2>8 DEF w, u, p
<1>4. Seq(X) \subseteq A
  <2> HIDE DEF A
  <2> QED BY <1>2, <1>3, SeqInduction
<1>5. QED
  BY <1>4
-----------------------------------------------------------------------------
(* What is read can be formed, and read again. *)

(* A field's text has one equals sign at most, and so has its beginning. *)
FewEquals(f) == Len(Pieces(f, "=")) <= 2

(* A field's key and values hold no equals sign. *)
LEMMA FieldEquals ==
    ASSUME NEW f \in Field
    PROVE  FewEquals(FieldText(f))
<1> DEFINE k == f.key
           J == Joined(<<>>, <<",">>, f.values)
           V == Symbols \ {"?", "&", "="}
           W == Symbols \ {"?", "&", "=", ","}
           K == Symbols \ {"/", "?", "&", "=", ","}
           e == IF f.equals THEN <<"=">> ELSE <<>>
<1>1. /\ FieldText(f) = (k \o e) \o J /\ f.values \in Lines(W)
  BY FieldType
<1>2. "," \in Symbols /\ "=" \in Symbols
  BY RouteAssumption
<1>3. "," \in V /\ W \subseteq V /\ K \subseteq V /\ V \subseteq Symbols /\ "=" \notin V
  BY <1>2
<1>4. k \in Seq(K)
  BY DEF Field, Plaintext
<1> HIDE DEF V, W, K, k
<1>5. k \in Seq(V) /\ k \in Seq(Symbols)
  BY <1>3, <1>4, SeqMonotonic
<1>6. J \in Seq(V)
  <2> DEFINE c == <<",">>
  <2>1. f.values \in Lines(V) /\ c \in Seq(V) /\ <<>> \in Seq(V)
    <3>1. f.values \in Lines(V)
      BY <1>1, <1>3, LinesWiden
    <3>2. <<>> \in Seq(V)
      OBVIOUS
    <3>3. QED
      BY <1>3, <3>1, <3>2, OneSymbol
  <2> HIDE DEF c
  <2>2. Joined(<<>>, c, f.values) \in Seq(V)
    BY <2>1, JoinedType
  <2>3. QED
    BY <2>2 DEF c
<1> HIDE DEF J
<1>7. J \in Seq(Symbols)
  BY <1>3, <1>6, SeqMonotonic
<1>8. CASE f.equals
  <2>1. Pieces((k \o <<"=">>) \o J, "=") = Pieces(k, "=") \o Pieces(J, "=")
    BY <1>2, <1>5, <1>7, PiecesCut
  <2>2. Pieces(k, "=") = <<k>> /\ Pieces(J, "=") = <<J>>
    BY <1>3, <1>5, <1>6, PiecesPlain
  <2>3. <<k>> \o <<J>> = <<k, J>> /\ Len(<<k, J>>) = 2
    BY <1>5, <1>6, Both
  <2>4. Pieces((k \o <<"=">>) \o J, "=") = <<k, J>>
    BY <2>1, <2>2, <2>3
  <2>5. FieldText(f) = (k \o <<"=">>) \o J
    BY <1>1, <1>8
  <2> DEFINE p == Pieces(FieldText(f), "=")
             two == <<k, J>>
  <2>6. p = two /\ Len(two) = 2
    BY <2>3, <2>4, <2>5
  <2> HIDE DEF p, two
  <2>7. Len(p) <= 2
    BY <2>6
  <2>8. QED
    BY <2>7 DEF FewEquals, p
<1>9. CASE ~f.equals
  <2>1. k \o <<>> = k
    BY <1>5, ConcatEmptySeq
  <2>2. FieldText(f) = k \o J
    BY <1>1, <1>9, <2>1
  <2>3. k \o J \in Seq(V)
    BY <1>5, <1>6, ConcatProperties
  <2>4. Pieces(k \o J, "=") = <<k \o J>>
    BY <1>3, <2>3, PiecesPlain
  <2>5. Len(<<k \o J>>) = 1
    OBVIOUS
  <2> DEFINE p == Pieces(FieldText(f), "=")
             one == <<k \o J>>
  <2>6. p = one /\ Len(one) = 1
    BY <2>2, <2>4, <2>5
  <2> HIDE DEF p, one
  <2>7. Len(p) <= 2
    BY <2>6
  <2>8. QED
    BY <2>7 DEF FewEquals, p
<1>10. QED
  BY <1>8, <1>9

(* So has the beginning of such a text. *)
LEMMA FewBefore ==
    ASSUME NEW X, NEW f \in Seq(X), NEW e \in Seq(X), FewEquals(f \o e)
    PROVE  FewEquals(f)
<1> DEFINE p == Pieces(f, "=")
           q == Pieces(f \o e, "=")
<1>1. p \in Texts(X) /\ q \in Texts(X)
  <2>1. f \o e \in Seq(X)
    BY ConcatProperties
  <2>2. QED
    BY <2>1, SplitType
<1>2. Begins(X, p, q)
  BY PiecesBegin
<1>3. Len(q) <= 2
  BY DEF FewEquals
<1> HIDE DEF p, q
<1>4. p \in Seq(Seq(X)) /\ p # <<>> /\ Len(q) \in Nat
  BY <1>1, LenProperties DEF Texts
<1>5. Len(p) \in Nat \ {0}
  BY <1>4, EmptySeq
<1>6. Len(p) \in 1 .. Len(p)
  BY <1>5
<1>7. Len(p) <= Len(q)
  BY <1>2, <1>6 DEF Begins
<1>8. Len(p) <= 2
  BY <1>3, <1>4, <1>5, <1>7
<1>9. QED
  BY <1>8 DEF FewEquals, p

(* The fields of a query's beginning. *)
LEMMA BodyBefore ==
    ASSUME NEW query \in Seq(Field), query # <<>>,
           NEW b \in Seq(Symbols \ {"?"}), NEW c \in Seq(Symbols \ {"?"}), QueryBody(query) = b \o c
    PROVE  \A i \in 1 .. Len(Pieces(b, "&")) : FewEquals(Pieces(b, "&")[i])
<1> DEFINE X == Symbols \ {"?"}
           p == Pieces(b, "&")
           q == Pieces(b \o c, "&")
           n == Len(query)
<1>1. q = Texted(query)
  BY QueryJoined
<1>2. Len(q) = n /\ \A i \in 1 .. n : q[i] = FieldText(query[i])
  BY <1>1, TextedType
<1>3. Begins(X, p, q) /\ p \in Seq(Seq(X))
  <2> HIDE DEF X
  <2> QED BY PiecesBegin, SplitType DEF X, Texts
<1>4. Len(p) \in Nat /\ n \in Nat
  <2> HIDE DEF p, X
  <2> QED BY <1>3, LenProperties
<1> HIDE DEF p, q, n, X
<1>5. ASSUME NEW i \in 1 .. Len(p)
      PROVE  FewEquals(p[i])
  <2>1. PICK e \in Seq(X) : q[i] = p[i] \o e
    BY <1>3 DEF Begins
  <2>2. i \in 1 .. n
    BY <1>2, <1>3, <1>4 DEF Begins
  <2>3. query[i] \in Field
    BY <2>2, ElementOfSeq DEF n
  <2>4. FewEquals(q[i])
    BY <1>2, <2>2, <2>3, FieldEquals
  <2>5. p[i] \in Seq(X)
    BY <1>3, ElementOfSeq
  <2>6. FewEquals(p[i] \o e)
    BY <2>1, <2>4
  <2>7. QED
    BY <2>5, <2>6, FewBefore
<1>6. QED
  BY <1>5 DEF p

(* The two parts of a field that may be read. *)
Bare == Symbols \ {"?", "&", "="}

(* The key and the text of a field that is defined. *)
LEMMA FieldParts ==
    ASSUME NEW f \in Seq(Symbols \ {"?", "&"}), FewEquals(f), FieldDefined(f)
    PROVE  split(f, "=")[1] \in Seq(Bare) /\ split(f, "=")[2] \in Seq(Bare) \ {<<>>}
<1> DEFINE X == Symbols \ {"?", "&"}
           p == Pieces(f, "=")
           s == split(f, "=")
<1>1. X \ {"="} = Bare
  BY DEF Bare
<1>2. p \in Texts(Bare) /\ s \in Seq(Seq(Bare)) /\ s = Trim(p)
  <2> HIDE DEF X
  <2>1. Pieces(f, "=") \in Texts(X \ {"="}) /\ split(f, "=") \in Seq(Seq(X \ {"="}))
    BY PiecesWithin DEF X
  <2>2. QED
    BY <1>1, <2>1, SplitTrims
<1>3. Len(p) <= 2 /\ Len(s) > 1
  BY DEF FewEquals, FieldDefined
<1> HIDE DEF p, s
<1>4. PICK g \in Seq(Seq(Bare)), l \in Seq(Bare) : p = Append(g, l)
  BY <1>2, TextsAppend
<1>5. Len(g) \in Nat /\ Len(p) = Len(g) + 1 /\ p[Len(g) + 1] = l /\ Len(s) \in Nat
  BY <1>2, <1>4, AppendProperties, LenProperties
<1>6. s = p /\ l # <<>>
  <2>1. CASE l = <<>>
    <3>1. s = g
      BY <1>2, <1>4, <2>1, TrimAppend
    <3>2. QED
      BY <1>3, <1>5, <3>1
  <2>2. CASE l # <<>>
    BY <1>2, <1>4, <2>2, TrimAppend
  <2>3. QED
    BY <2>1, <2>2
<1>7. Len(g) = 1 /\ s[2] = l
  <2>1. Len(s) = Len(g) + 1 /\ Len(s) <= 2 /\ Len(s) > 1 /\ s[Len(g) + 1] = l
    BY <1>3, <1>5, <1>6
  <2> DEFINE m == Len(g)
             z == Len(s)
  <2>2. m \in Nat /\ z = m + 1 /\ z <= 2 /\ z > 1
    BY <1>5, <2>1
  <2> HIDE DEF m, z
  <2>3. m = 1
    BY <2>2
  <2>4. QED
    BY <2>1, <2>3 DEF m
<1>8. s[1] \in Seq(Bare)
  <2>1. 1 \in 1 .. Len(s)
    BY <1>3, <1>5
  <2>2. QED
    BY <1>2, <2>1, ElementOfSeq
<1>9. QED
  BY <1>6, <1>7, <1>8 DEF s

(* Params that form_get_request forms: of each key one value, not empty, that *)
(* is read as it is.                                                          *)
Formable(P) ==
    /\ IsFiniteSet(DOMAIN P) /\ DOMAIN P # {} /\ DOMAIN P \subseteq Seq(Bare)
    /\ P = [k \in DOMAIN P |-> P[k]]
    /\ \A k \in DOMAIN P : \E v \in Seq(Bare) \ {<<>>} : P[k] = <<v>> /\ ValuesRead(v) = <<v>>

(* What ParamsOf finds is such, unless a value is a list. *)
LEMMA ParamsFormable ==
    ASSUME NEW fields \in Seq(Seq(Symbols \ {"?", "&"})), fields # <<>>,
           \A i \in 1 .. Len(fields) : FewEquals(fields[i]) /\ FieldDefined(fields[i]),
           FormDefined(ParamsOf(fields))
    PROVE  Formable(ParamsOf(fields))
<1> DEFINE n == Len(fields)
           P == ParamsOf(fields)
           key(f) == split(f, "=")[1]
           K == {key(f) : f \in ToSet(fields)}
           I(k) == {i \in DOMAIN fields : key(fields[i]) = k}
           text(k) == split(fields[Max(I(k))], "=")[2]
<1>1. n \in Nat \ {0} /\ DOMAIN fields = 1 .. n
  BY EmptySeq, LenProperties
<1>2. P = [k \in K |-> ValuesRead(text(k))]
  BY DEF ParamsOf, ValuesRead
<1>3. ToSet(fields) = {fields[i] : i \in 1 .. n}
  BY <1>1 DEF ToSet
<1> HIDE DEF n, P
<1>4. ASSUME NEW i \in 1 .. n
      PROVE  key(fields[i]) \in Seq(Bare) /\ split(fields[i], "=")[2] \in Seq(Bare) \ {<<>>}
  <2>1. fields[i] \in Seq(Symbols \ {"?", "&"})
    BY ElementOfSeq DEF n
  <2>2. FewEquals(fields[i]) /\ FieldDefined(fields[i])
    BY DEF n
  <2>3. QED
    BY <2>1, <2>2, FieldParts
<1>5. IsFiniteSet(K)
  <2>1. IsFiniteSet(1 .. n)
    BY <1>1, FS_Interval
  <2>2. K = {key(fields[i]) : i \in 1 .. n}
    BY <1>3
  <2> DEFINE T == {key(fields[i]) : i \in 1 .. n}
             g == [i \in 1 .. n |-> key(fields[i])]
  <2>3. g \in Surjection(1 .. n, T)
    BY DEF Surjection
  <2>4. IsFiniteSet(T)
    BY <2>1, <2>3, FS_Surjection
  <2>5. QED
    BY <2>2, <2>4
<1>6. K # {}
  <2>1. 1 \in 1 .. n
    BY <1>1
  <2>2. key(fields[1]) \in K
    BY <1>3, <2>1
  <2>3. QED
    BY <2>2
<1>7. K \subseteq Seq(Bare)
  BY <1>3, <1>4
<1>8. ASSUME NEW k \in K
      PROVE  \E v \in Seq(Bare) \ {<<>>} : P[k] = <<v>> /\ ValuesRead(v) = <<v>>
  <2>1. I(k) # {} /\ I(k) \in SUBSET (1 .. n)
    BY <1>1, <1>3
  <2> HIDE DEF I
  <2>2. Max(I(k)) \in 1 .. n
    <3>1. Max(I(k)) \in I(k)
      BY <1>1, <2>1, MaxIn
    <3>2. QED
      BY <2>1, <3>1
  <2>3. text(k) \in Seq(Bare) \ {<<>>}
    BY <1>4, <2>2
  <2>4. P[k] = ValuesRead(text(k)) /\ Len(P[k]) = 1
    <3>1. P[k] = ValuesRead(text(k)) /\ DOMAIN P = K
      <4> HIDE DEF K, text
      <4> QED BY <1>2
    <3>2. \A x \in DOMAIN P : Len(P[x]) = 1
      BY DEF FormDefined, P
    <3>3. QED
      BY <3>1, <3>2
  <2> HIDE DEF text
  <2>5. ValuesRead(text(k)) = <<text(k)>>
    <3> DEFINE w == split(text(k), ",")
    <3>1. ValuesRead(text(k)) = IF Len(w) > 1 THEN w ELSE <<text(k)>>
      BY DEF ValuesRead
    <3>2. CASE Len(w) > 1
      <4>1. Len(w) = 1
        BY <2>4, <3>1, <3>2
      <4> DEFINE z == Len(w)
      <4>2. z > 1 /\ z = 1
        BY <3>2, <4>1
      <4> HIDE DEF z
      <4>3. QED
        BY <4>2
    <3>3. QED
      BY <3>1, <3>2
  <2>6. QED
    BY <2>3, <2>4, <2>5
<1>9. DOMAIN P = K /\ P = [k \in K |-> P[k]]
  <2> HIDE DEF K, text
  <2> QED BY <1>2
<1>10. QED
  <2> HIDE DEF K
  <2> QED BY <1>5, <1>6, <1>7, <1>8, <1>9 DEF Formable, P

(* The elements of a set in a sequence, each once. *)
LEMMA Listed ==
    ASSUME NEW K, IsFiniteSet(K), K # {}
    PROVE  \E n \in Nat \ {0} :
              /\ SetToSeq(K) \in [1 .. n -> K] /\ Len(SetToSeq(K)) = n
              /\ \A i, j \in 1 .. n : SetToSeq(K)[i] = SetToSeq(K)[j] => i = j
              /\ \A k \in K : \E i \in 1 .. n : SetToSeq(K)[i] = k
<1> DEFINE n == Cardinality(K)
           f == SetToSeq(K)
<1>1. n \in Nat /\ n # 0 /\ ExistsBijection(1 .. n, K)
  BY FS_CardinalityType, FS_EmptySet
<1>2. IsFiniteSet(1 .. n) /\ Cardinality(1 .. n) = n
  <2> HIDE DEF n
  <2>1. IsFiniteSet(1 .. n) /\ Cardinality(1 .. n) = IF 1 > n THEN 0 ELSE n - 1 + 1
    BY <1>1, FS_Interval
  <2>2. QED
    BY <1>1, <2>1
<1>3. \E g \in [1 .. n -> K] : IsInjective(g)
  <2>1. PICK g \in Bijection(1 .. n, K) : TRUE
    BY <1>1 DEF ExistsBijection
  <2>2. g \in [1 .. n -> K] /\ IsInjective(g)
    BY <2>1 DEF Bijection, Injection
  <2>3. QED
    BY <2>2
<1>4. f \in [1 .. n -> K] /\ IsInjective(f)
  BY <1>3 DEF SetToSeq
<1> HIDE DEF f
<1>5. f \in Injection(1 .. n, K)
  BY <1>4 DEF Injection
<1>6. f \in Surjection(1 .. n, K)
  BY <1>2, <1>5, FS_Injection
<1> HIDE DEF n
<1>7. Len(f) = n
  BY <1>1, <1>4
<1>8. \A i, j \in 1 .. n : f[i] = f[j] => i = j
  BY <1>4 DEF IsInjective
<1>9. \A k \in K : \E i \in 1 .. n : f[i] = k
  BY <1>6 DEF Surjection
<1>10. QED
  BY <1>1, <1>4, <1>7, <1>8, <1>9 DEF f

(* Texts with something after each, and none after the last. *)
Ended(sep, ss) == [i \in 1 .. Len(ss) |-> ss[i] \o sep]

(* The one is the other with a separator more at the end. *)
LEMMA EndedJoined ==
    ASSUME NEW X, NEW sep \in Seq(X), NEW ss \in Lines(X), ss # <<>>
    PROVE  FlattenSeq(Ended(sep, ss)) = Joined(<<>>, sep, ss) \o sep
<1> DEFINE J(tt) == Joined(<<>>, sep, tt)
           F(tt) == FlattenSeq(Ended(sep, tt))
           A == {tt \in Lines(X) : tt # <<>> => F(tt) = J(tt) \o sep}
<1>0. <<>> \in Seq(X)
  OBVIOUS
<1>1. <<>> \in A
  BY LinesNone
<1>2. ASSUME NEW tt \in Lines(X), NEW w \in Seq(X), tt \in A
      PROVE  Append(tt, w) \in A
  <2> DEFINE e == w \o sep
             E == Ended(sep, tt)
  <2>1. e \in Seq(X) /\ Append(tt, w) \in Lines(X)
    BY ConcatProperties, LinesMore
  <2>2. E \in Seq(Seq(X))
    <3> DEFINE n == Len(tt)
               S == Seq(X)
    <3>1. tt \in Seq(S) /\ n \in Nat
      BY LenProperties DEF Lines
    <3>2. ASSUME NEW i \in 1 .. n
          PROVE  tt[i] \o sep \in S
      <4>1. tt[i] \in S
        BY <3>1, ElementOfSeq
      <4>2. QED
        BY <4>1, ConcatProperties
    <3>3. E = [i \in 1 .. n |-> tt[i] \o sep]
      BY DEF Ended
    <3> HIDE DEF n, S
    <3>4. E \in [1 .. n -> S]
      BY <3>2, <3>3
    <3>5. E \in Seq(S)
      <4> HIDE DEF E
      <4> QED BY <3>1, <3>4
    <3>6. QED
      BY <3>5 DEF S
  <2>3. Ended(sep, Append(tt, w)) = Append(E, e)
    <3> DEFINE a == Ended(sep, Append(tt, w))
               b == Append(E, e)
               n == Len(tt)
               t == Append(tt, w)
               S == Seq(X)
    <3>1. tt \in Seq(S) /\ n \in Nat
      BY LenProperties DEF Lines
    <3>2. Len(t) = n + 1 /\ t[n + 1] = w /\ \A i \in 1 .. n : t[i] = tt[i]
      BY <3>1, AppendProperties
    <3>3. Len(E) = n /\ \A i \in 1 .. n : E[i] = tt[i] \o sep
      BY <3>1 DEF Ended
    <3>4. /\ b \in Seq(S) /\ Len(b) = Len(E) + 1 /\ b[Len(E) + 1] = e
          /\ \A i \in 1 .. Len(E) : b[i] = E[i]
      <4> HIDE DEF E, e
      <4> QED BY <2>1, <2>2, AppendProperties
    <3>5. a = [i \in 1 .. Len(t) |-> t[i] \o sep]
      BY DEF Ended
    <3> HIDE DEF t, n, E, a, b
    <3>6. DOMAIN b = 1 .. n + 1 /\ b = [i \in 1 .. n + 1 |-> b[i]]
      BY <3>3, <3>4, LenProperties
    <3>7. ASSUME NEW i \in 1 .. n + 1
          PROVE  b[i] = t[i] \o sep
      <4>1. CASE i = n + 1
        <5>1. b[i] = e
          BY <3>3, <3>4, <4>1
        <5>2. t[i] = w
          BY <3>2, <4>1
        <5>3. QED
          BY <5>1, <5>2
      <4>2. CASE i # n + 1
        <5>1. i \in 1 .. n
          BY <3>1, <4>2
        <5>2. b[i] = E[i] /\ E[i] = tt[i] \o sep /\ t[i] = tt[i]
          BY <3>2, <3>3, <3>4, <5>1
        <5>3. QED
          BY <5>2
      <4>3. QED
        BY <4>1, <4>2
    <3>8. a = b
      BY <3>2, <3>5, <3>6, <3>7
    <3>9. QED
      BY <3>8 DEF a, b, t
  <2>4. F(Append(tt, w)) = F(tt) \o e
    <3> HIDE DEF E, e
    <3>1. FlattenSeq(Append(E, e)) = FlattenSeq(E) \o e
      BY <2>1, <2>2, FlattenMore
    <3>2. QED
      BY <2>3, <3>1 DEF E
  <2>5. F(Append(tt, w)) = J(Append(tt, w)) \o sep
    <3>1. CASE tt = <<>>
      <4>1. Append(tt, w) = <<w>>
        BY <3>1
      <4>2. J(<<w>>) = <<>> \o w
        BY <1>0, JoinedOne
      <4>3. <<>> \o w = w /\ <<>> \o e = e
        BY <2>1, ConcatEmptySeq
      <4>4. F(tt) = <<>>
        <5>1. Ended(sep, <<>>) = <<>>
          BY DEF Ended
        <5>2. QED
          BY <3>1, <5>1, FlattenNone
      <4>5. QED
        BY <2>4, <4>1, <4>2, <4>3, <4>4
    <3>2. CASE tt # <<>>
      <4> DEFINE j == J(tt)
                 js == j \o sep
      <4>1. j \in Seq(X)
        BY <1>0, JoinedType
      <4>2. tt \in Texts(X)
        BY <3>2, LinesTexts
      <4>3. J(Append(tt, w)) = js \o w
        <5>1. JoinsMore(X, <<>>, sep)
          BY <1>0, JoinedMore
        <5>2. QED
          BY <4>2, <5>1 DEF JoinsMore
      <4>4. F(tt) = js
        BY <1>2, <3>2
      <4>5. js \in Seq(X)
        <5> HIDE DEF j
        <5> QED BY <4>1, ConcatProperties
      <4> HIDE DEF J, F, js
      <4>6. js \o (w \o sep) = (js \o w) \o sep
        <5>1. Associates(X)
          BY ConcatAssociates
        <5>2. QED
          BY <4>5, <5>1 DEF Associates
      <4>7. QED
        BY <2>4, <4>3, <4>4, <4>6
    <3>3. QED
      BY <3>1, <3>2
  <2>6. QED
    BY <2>1, <2>5
<1>3. Lines(X) \subseteq A
  <2> HIDE DEF A
  <2> QED BY <1>1, <1>2, LinesInduction
<1>4. QED
  BY <1>3

(* A key and a value, taken apart. *)
LEMMA TwoParts ==
    ASSUME NEW k \in Seq(Bare), NEW v \in Seq(Bare) \ {<<>>}
    PROVE  /\ (k \o <<"=">>) \o v \in Seq(Symbols \ {"?", "&"}) \ {<<>>}
           /\ split((k \o <<"=">>) \o v, "=")[1] = k /\ split((k \o <<"=">>) \o v, "=")[2] = v
<1> DEFINE X == Symbols \ {"?", "&"}
           e == <<"=">>
           ke == k \o e
           t == ke \o v
<1>1. "=" \in X /\ Bare \subseteq X /\ "=" \notin Bare
  BY RouteAssumption DEF Bare
<1> HIDE DEF X
<1>2. k \in Seq(X) /\ v \in Seq(X) /\ e \in Seq(X) /\ v # <<>>
  BY <1>1, SeqMonotonic, OneSymbol
<1>3. split(t, "=") = Pieces(k, "=") \o split(v, "=")
  BY <1>1, <1>2, SplitCut, ZenonT(30)
<1>4. Pieces(k, "=") = <<k>> /\ split(v, "=") = <<v>>
  BY <1>1, <1>2, PiecesPlain, SplitPlain
<1>5. <<k>> \o <<v>> = <<k, v>>
  BY Both
<1>6. split(t, "=")[1] = k /\ split(t, "=")[2] = v
  <2> DEFINE s == split(t, "=")
             two == <<k, v>>
  <2>1. s = two /\ two[1] = k /\ two[2] = v
    BY <1>3, <1>4, <1>5
  <2> HIDE DEF s, two
  <2>2. s[1] = k /\ s[2] = v
    BY <2>1
  <2>3. QED
    BY <2>2 DEF s
<1>7. ke \in Seq(X)
  <2> HIDE DEF e
  <2> QED BY <1>2, ConcatProperties
<1>8. t \in Seq(X) /\ t # <<>>
  <2> HIDE DEF ke
  <2>1. ke \o v \in Seq(X) /\ Len(ke \o v) = Len(ke) + Len(v)
    BY <1>2, <1>7, ConcatProperties
  <2>2. Len(ke) \in Nat /\ Len(v) \in Nat /\ Len(v) # 0
    BY <1>2, <1>7, LenProperties, EmptySeq
  <2>3. ke \o v # <<>>
    BY <2>1, <2>2
  <2>4. QED
    BY <2>1, <2>3
<1>9. QED
  BY <1>6, <1>8 DEF X

(* The fields of params, keys and values, read again. *)
Formed(P, n, keys, tt) ==
    /\ keys \in [1 .. n -> DOMAIN P]
    /\ \A i, j \in 1 .. n : keys[i] = keys[j] => i = j
    /\ \A k \in DOMAIN P : \E i \in 1 .. n : keys[i] = k
    /\ tt = [i \in 1 .. n |-> (keys[i] \o <<"=">>) \o P[keys[i]][1]]

(* ParamsOf finds in the fields of params the params that they were made of:  *)
(* their keys differ, and every key has its field.                            *)
LEMMA FormedRead ==
    ASSUME NEW P, Formable(P), NEW n \in Nat \ {0}, NEW keys, NEW tt, Formed(P, n, keys, tt)
    PROVE  tt \in Seq(Seq(Symbols \ {"?", "&"}) \ {<<>>}) /\ tt # <<>> /\ ParamsOf(tt) = P
<1> DEFINE K == DOMAIN P
           X == Symbols \ {"?", "&"}
           key(f) == split(f, "=")[1]
           val(f) == split(f, "=")[2]
           I(k) == {i \in DOMAIN tt : key(tt[i]) = k}
<1>1. ASSUME NEW i \in 1 .. n
      PROVE  /\ tt[i] \in Seq(X) \ {<<>>}
             /\ key(tt[i]) = keys[i] /\ ValuesRead(val(tt[i])) = P[keys[i]]
  <2>1. keys[i] \in K /\ keys[i] \in Seq(Bare)
    BY DEF Formable, Formed
  <2>2. PICK v \in Seq(Bare) \ {<<>>} : P[keys[i]] = <<v>> /\ ValuesRead(v) = <<v>>
    BY <2>1 DEF Formable
  <2>3. <<v>>[1] = v
    OBVIOUS
  <2>4. tt[i] = (keys[i] \o <<"=">>) \o v
    BY <2>2, <2>3 DEF Formed
  <2> DEFINE k == keys[i]
  <2>5. k \in Seq(Bare)
    BY <2>1
  <2> HIDE DEF k
  <2>6. /\ (k \o <<"=">>) \o v \in Seq(Symbols \ {"?", "&"}) \ {<<>>}
        /\ split((k \o <<"=">>) \o v, "=")[1] = k /\ split((k \o <<"=">>) \o v, "=")[2] = v
    BY <2>2, <2>5, TwoParts
  <2>7. tt[i] = (k \o <<"=">>) \o v
    BY <2>4 DEF k
  <2>8. tt[i] \in Seq(X) \ {<<>>} /\ key(tt[i]) = k /\ val(tt[i]) = v
    BY <2>6, <2>7
  <2>9. QED
    BY <2>2, <2>8 DEF k
<1>2. /\ DOMAIN tt = 1 .. n /\ tt = [i \in 1 .. n |-> tt[i]]
      /\ \A i \in 1 .. n : keys[i] \in K
      /\ \A i, j \in 1 .. n : keys[i] = keys[j] => i = j
      /\ \A k \in K : \E i \in 1 .. n : keys[i] = k
  BY DEF Formed
<1>3. tt \in Seq(Seq(X) \ {<<>>}) /\ tt # <<>>
  <2> DEFINE S == Seq(X) \ {<<>>}
  <2>1. \A i \in 1 .. n : tt[i] \in S
    BY <1>1
  <2> HIDE DEF S
  <2>2. tt \in [1 .. n -> S]
    BY <1>2, <2>1
  <2>3. tt \in Seq(S)
    BY <2>2
  <2>4. tt # <<>>
    <3>1. 1 \in DOMAIN tt
      BY <1>2
    <3>2. DOMAIN <<>> = {}
      OBVIOUS
    <3>3. QED
      BY <3>1, <3>2
  <2>5. QED
    BY <2>3, <2>4 DEF S
<1> HIDE DEF X
<1>4. \A i \in 1 .. n : key(tt[i]) = keys[i] /\ ValuesRead(val(tt[i])) = P[keys[i]]
  BY <1>1
<1>5. ParamsOf(tt) = [k \in {key(f) : f \in ToSet(tt)} |-> ValuesRead(val(tt[Max(I(k))]))]
  BY DEF ParamsOf, ValuesRead
<1> HIDE DEF K
<1>6. {key(f) : f \in ToSet(tt)} = K
  <2>1. ToSet(tt) = {tt[i] : i \in 1 .. n}
    BY <1>2 DEF ToSet
  <2>2. {key(f) : f \in ToSet(tt)} = {key(tt[i]) : i \in 1 .. n}
    BY <2>1
  <2> HIDE DEF key
  <2>3. {key(tt[i]) : i \in 1 .. n} = K
    BY <1>2, <1>4
  <2>4. QED
    BY <2>2, <2>3 DEF key
<1>7. ASSUME NEW k \in K
      PROVE  ValuesRead(val(tt[Max(I(k))])) = P[k]
  <2>1. PICK j \in 1 .. n : keys[j] = k
    BY <1>2
  <2> HIDE DEF key, val
  <2>2. I(k) = {j}
    BY <1>2, <1>4, <2>1, SMTT(30)
  <2>3. Max({j}) = j
    <3>1. {j} \in SUBSET (1 .. n) /\ {j} # {}
      OBVIOUS
    <3>2. Max({j}) \in {j}
      BY <3>1, MaxIn
    <3>3. QED
      BY <3>2
  <2> HIDE DEF I
  <2>4. QED
    BY <1>4, <2>1, <2>2, <2>3
<1>8. \A k \in K : ValuesRead(val(tt[Max(I(k))])) = P[k]
  BY <1>7
<1> HIDE DEF I, key, val
<1>9. ParamsOf(tt) = [k \in K |-> P[k]]
  BY <1>5, <1>6, <1>8
<1>10. QED
  BY <1>3, <1>9 DEF Formable, X, K

(* The text that form_get_request forms. *)
LEMMA FormedText ==
    ASSUME NEW P, Formable(P)
    PROVE  \E tt \in Seq(Seq(Symbols \ {"?", "&"}) \ {<<>>}) :
              /\ tt # <<>> /\ ParamsOf(tt) = P
              /\ form_get_request(<<"get_time">>, P) = (<<"get_time">> \o <<"?">>) \o Joined(<<>>, <<"&">>, tt)
<1> DEFINE K == DOMAIN P
           keys == SetToSeq(K)
           X == Symbols \ {"?"}
           Y == Symbols \cup {"get_time"}
           Z == Symbols \ {"?", "&"}
           a == <<"&">>
           c == <<"get_time">> \o <<"?">>
<1>1. IsFiniteSet(K) /\ K # {}
  BY DEF Formable
<1>2. PICK n \in Nat \ {0} :
         /\ keys \in [1 .. n -> K] /\ Len(keys) = n
         /\ \A i, j \in 1 .. n : keys[i] = keys[j] => i = j
         /\ \A k \in K : \E i \in 1 .. n : keys[i] = k
  <2> HIDE DEF K
  <2> QED BY <1>1, Listed, Zenon
<1> DEFINE tt == [i \in 1 .. n |-> (keys[i] \o <<"=">>) \o P[keys[i]][1]]
           J == Joined(<<>>, a, tt)
           E == [i \in 1 .. n |-> tt[i] \o a]
<1>3. tt \in Seq(Seq(Z) \ {<<>>}) /\ tt # <<>> /\ ParamsOf(tt) = P
  <2> DEFINE uu == tt
  <2>1. uu = [i \in 1 .. n |-> (keys[i] \o <<"=">>) \o P[keys[i]][1]]
    OBVIOUS
  <2> HIDE DEF keys, uu
  <2>0. Formed(P, n, keys, uu)
    BY <1>2, <2>1 DEF Formed
  <2>2. uu \in Seq(Seq(Symbols \ {"?", "&"}) \ {<<>>}) /\ uu # <<>> /\ ParamsOf(uu) = P
    BY <2>0, FormedRead
  <2>3. QED
    BY <2>2 DEF uu
<1>4. E = [i \in 1 .. Len(keys) |-> LET key == keys[i] IN key \o <<"=">> \o P[key][1] \o <<"&">>]
  BY <1>2
<1>5. form_get_request(<<"get_time">>, P) = Front(c \o FlattenSeq(E))
  <2> DEFINE ee == [i \in 1 .. Len(keys) |-> LET key == keys[i] IN key \o <<"=">> \o P[key][1] \o <<"&">>]
  <2>1. form_get_request(<<"get_time">>, P) = Front(c \o FlattenSeq(ee))
    BY DEF form_get_request
  <2>2. ee = E
    BY <1>4
  <2> HIDE DEF ee, E, c
  <2>3. QED
    BY <2>1, <2>2
<1>6. Len(tt) = n /\ E = Ended(a, tt)
  BY DEF Ended
<1> HIDE DEF tt, keys, E
<1>7. "&" \in Symbols /\ "?" \in Symbols
  BY RouteAssumption
<1>8. "&" \in X /\ Z \subseteq X /\ X \subseteq Y /\ "?" \in Y /\ "get_time" \in Y /\ "&" \in Y
  BY <1>7
<1> HIDE DEF X, Y, Z
<1>9. tt \in Lines(X)
  <2>1. tt \in Texts(Z)
    BY <1>3, TrimFull
  <2>2. tt \in Lines(Z)
    BY <2>1 DEF Texts, Lines
  <2>3. QED
    BY <1>8, <2>2, LinesWiden
<1>10. a \in Seq(X) /\ <<>> \in Seq(X) /\ c \in Seq(Y)
  <2>1. a \in Seq(X)
    BY <1>8, OneSymbol
  <2>2. <<"get_time">> \in Seq(Y) /\ <<"?">> \in Seq(Y)
    BY <1>8, OneSymbol
  <2>3. c \in Seq(Y)
    BY <2>2, ConcatProperties
  <2>4. <<>> \in Seq(X)
    OBVIOUS
  <2>5. QED
    BY <2>1, <2>3, <2>4
<1> HIDE DEF c
<1>11. FlattenSeq(E) = J \o a /\ J \in Seq(X)
  <2> HIDE DEF a
  <2>1. FlattenSeq(Ended(a, tt)) = Joined(<<>>, a, tt) \o a
    BY <1>3, <1>9, <1>10, EndedJoined
  <2>2. Joined(<<>>, a, tt) \in Seq(X)
    BY <1>9, <1>10, JoinedType
  <2>3. QED
    BY <1>6, <2>1, <2>2
<1> HIDE DEF J
<1>12. J \in Seq(Y) /\ a = <<"&">>
  BY <1>8, <1>11, SeqMonotonic
<1> DEFINE cJ == c \o J
<1>13. cJ \in Seq(Y) /\ c \o (J \o a) = Append(cJ, "&")
  <2>1. cJ \in Seq(Y)
    BY <1>10, <1>12, ConcatProperties
  <2>2. J \o a = Append(J, "&")
    BY <1>8, <1>12, AppendIsConcat
  <2>3. c \o Append(J, "&") = Append(c \o J, "&")
    BY <1>8, <1>10, <1>12, AppendAfter
  <2>4. QED
    BY <2>1, <2>2, <2>3
<1> HIDE DEF cJ, a
<1>14. Front(Append(cJ, "&")) = cJ
  BY <1>8, <1>13, FrontLast
<1>15. form_get_request(<<"get_time">>, P) = cJ
  BY <1>5, <1>11, <1>13, <1>14
<1>16. QED
  BY <1>3, <1>15 DEF cJ, J, c, a, Z

(* It is read as what it was formed from. *)
LEMMA FormRead ==
    ASSUME NEW P, Formable(P)
    PROVE  parse_params_in_token(form_get_request(<<"get_time">>, P)) = P
<1> DEFINE X == Symbols \ {"?"}
           Y == Symbols \cup {"get_time"}
           Z == Symbols \ {"?", "&"}
           g == <<"get_time">>
           u == <<"?">>
<1>1. PICK tt \in Seq(Seq(Z) \ {<<>>}) :
         /\ tt # <<>> /\ ParamsOf(tt) = P
         /\ form_get_request(g, P) = (g \o u) \o Joined(<<>>, <<"&">>, tt)
  BY FormedText
<1> DEFINE J == Joined(<<>>, <<"&">>, tt)
           token == (g \o u) \o J
<1>2. "&" \in Symbols /\ "?" \in Symbols
  BY RouteAssumption
<1>3. /\ "&" \in X /\ Z = X \ {"&"} /\ Z \subseteq X /\ X \subseteq Y /\ "?" \in Y /\ "?" \notin X
      /\ "get_time" \in Y /\ "?" \notin {"get_time"} /\ "get_time" \in {"get_time"}
  BY <1>2
<1> HIDE DEF X, Y, Z
<1>4. Trim(tt) = tt /\ tt \in Texts(Z)
  BY <1>1, TrimFull
<1>5. tt \in Lines(Z) /\ tt \in Lines(X)
  <2>1. tt \in Lines(Z)
    BY <1>4 DEF Texts, Lines
  <2>2. QED
    BY <1>3, <2>1, LinesWiden
<1>6. split(J, "&") = tt
  <2>1. tt \in Lines(X \ {"&"})
    BY <1>3, <1>5
  <2>2. Pieces(J, "&") = tt
    BY <1>1, <1>3, <2>1, JoinedPieces
  <2>3. QED
    BY <1>4, <2>2, SplitTrims
<1>7. J \in Seq(X)
  <2> DEFINE a == <<"&">>
  <2>1. a \in Seq(X)
    BY <1>3, OneSymbol
  <2>2. <<>> \in Seq(X)
    OBVIOUS
  <2> HIDE DEF a
  <2>3. Joined(<<>>, a, tt) \in Seq(X)
    BY <1>5, <2>1, <2>2, JoinedType
  <2>4. QED
    BY <2>3 DEF a
<1>8. J # <<>>
  <2>1. split(<<>>, "&") = <<>>
    <3>1. "&" \notin {} /\ <<>> \in Seq({})
      OBVIOUS
    <3>2. QED
      BY <3>1, SplitPlain
  <2>2. QED
    BY <1>1, <1>6, <2>1
<1> HIDE DEF J
<1>9. J \in Seq(Y) /\ g \in Seq(Y) /\ g \in Seq({"get_time"})
  BY <1>3, <1>7, SeqMonotonic, OneSymbol
<1>10. split(token, "?") = Pieces(g, "?") \o split(J, "?")
  <2>1. split((g \o <<"?">>) \o J, "?") = Pieces(g, "?") \o split(J, "?")
    <3>1. "?" \in Y /\ g \in Seq(Y) /\ J \in Seq(Y)
      BY <1>3, <1>9
    <3> HIDE DEF g
    <3>2. QED
      BY <3>1, SplitCut
  <2>2. QED
    BY <2>1
<1>11. Pieces(g, "?") = <<g>> /\ split(J, "?") = <<J>>
  <2>1. Pieces(g, "?") = <<g>>
    <3> HIDE DEF g
    <3> QED BY <1>3, <1>9, PiecesPlain
  <2>2. split(J, "?") = <<J>>
    BY <1>3, <1>7, <1>8, SplitPlain
  <2>3. QED
    BY <2>1, <2>2
<1> HIDE DEF g, u
<1>12. <<g>> \o <<J>> = <<g, J>>
  BY <1>9, Both
<1>13. QueryFields(token) = tt
  <2> DEFINE s == split(token, "?")
             two == <<g, J>>
  <2>1. s = two /\ Len(two) = 2 /\ two[2] = J
    BY <1>10, <1>11, <1>12
  <2> HIDE DEF s, two
  <2>2. Len(s) > 1 /\ s[2] = J
    BY <2>1
  <2>3. QED
    BY <1>6, <2>2 DEF QueryFields, s
<1> HIDE DEF token
<1>14. parse_params_in_token(token) = P
  BY <1>1, <1>13 DEF parse_params_in_token
<1>15. QED
  BY <1>1, <1>14 DEF token, g, J

(* The tokens of a url: without a question mark, or a segment with the query's *)
(* beginning.                                                                  *)
NoMark == Symbols \ {"?"}

(* A token with a segment, a question mark and a beginning of the query. *)
Queried(token, body) ==
    \E l \in Seq(Word), a \in Seq(NoMark), c \in Seq(NoMark) :
        token = (l \o <<"?">>) \o a /\ body = a \o c

(* Only the token with the question mark holds something of the query that    *)
(* parse_params_in_token reads.                                               *)
LEMMA QueryTokens ==
    ASSUME NEW l \in Seq(Word), NEW b \in Seq(NoMark)
    PROVE  \A token \in ToSet(split((l \o <<"?">>) \o b, "/")) :
              token \in Seq(NoMark) \/ Queried(token, b)
<1> DEFINE W == NoMark \ {"/"}
           X == Symbols \ {"/"}
           u == <<"?">>
           h == l \o u
           s == split(h \o b, "/")
<1>1. /\ "/" \in NoMark /\ "/" \in Symbols /\ "?" \in X /\ Word \subseteq X /\ W \subseteq X
      /\ W \subseteq NoMark /\ NoMark \subseteq Symbols /\ X \subseteq Symbols /\ "/" \notin X
  BY WordFacts DEF NoMark
<1> HIDE DEF W, X
<1>2. h \in Seq(X) /\ l \in Seq(X) /\ u \in Seq(X)
  <2>1. l \in Seq(X) /\ u \in Seq(X)
    BY <1>1, SeqMonotonic, OneSymbol
  <2> HIDE DEF u
  <2>2. QED
    BY <2>1, ConcatProperties
<1> HIDE DEF h, u
<1>3. h \in Seq(Symbols)
  BY <1>1, <1>2, SeqMonotonic
<1>4. ASSUME NEW a \in Seq(W)
      PROVE  Pieces(h \o a, "/") = <<h \o a>> /\ a \in Seq(NoMark) /\ a \in Seq(Symbols) /\ h \o a \in Seq(X)
  <2>1. a \in Seq(X) /\ a \in Seq(NoMark)
    BY <1>1, SeqMonotonic
  <2>2. a \in Seq(Symbols)
    BY <1>1, <2>1, SeqMonotonic
  <2>3. h \o a \in Seq(X)
    BY <1>2, <2>1, ConcatProperties
  <2>4. Pieces(h \o a, "/") = <<h \o a>>
    BY <1>1, <2>3, PiecesPlain
  <2>5. QED
    BY <2>1, <2>2, <2>3, <2>4
<1>5. CutAt(NoMark, "/", b)
  BY <1>1, FirstCut
<1>6. CASE b \in Seq(W)
  <2> DEFINE t == h \o b
  <2>1. t \in Seq(X)
    BY <1>4, <1>6
  <2> HIDE DEF t
  <2>2. split(t, "/") = <<>> \/ split(t, "/") = <<t>>
    BY <1>1, <2>1, SplitPlain
  <2>3. ToSet(<<>>) = {} /\ ToSet(<<t>>) = {t}
    BY DEF ToSet
  <2>4. Queried(t, b)
    <3>1. b \o <<>> = b /\ <<>> \in Seq(NoMark)
      BY ConcatEmptySeq
    <3>2. b = b \o <<>>
      BY <3>1
    <3>3. t = (l \o <<"?">>) \o b
      BY DEF t, h, u
    <3>4. QED
      BY <3>1, <3>2, <3>3 DEF Queried
  <2>5. \A token \in ToSet(split(t, "/")) : token = t
    BY <2>2, <2>3
  <2>6. QED
    BY <2>4, <2>5 DEF t, h, u
<1>7. CASE \E a \in Seq(W), d \in Seq(NoMark) : b = (a \o <<"/">>) \o d
  <2>1. PICK a \in Seq(W), d \in Seq(NoMark) : b = (a \o <<"/">>) \o d
    BY <1>7
  <2> DEFINE v == <<"/">>
             t == h \o a
             c == v \o d
  <2>2. a \in Seq(NoMark) /\ a \in Seq(Symbols) /\ t \in Seq(X) /\ Pieces(t, "/") = <<t>>
    BY <1>4
  <2>3. v \in Seq(NoMark) /\ v \in Seq(Symbols) /\ d \in Seq(Symbols)
    BY <1>1, SeqMonotonic, OneSymbol
  <2> HIDE DEF v
  <2>4. c \in Seq(NoMark) /\ b = a \o c
    <3>1. c \in Seq(NoMark)
      BY <2>3, ConcatProperties
    <3>2. (a \o v) \o d = a \o (v \o d)
      <4>1. Associates(NoMark)
        BY ConcatAssociates
      <4>2. QED
        BY <2>2, <2>3, <4>1, ZenonT(30) DEF Associates
    <3>3. QED
      BY <2>1, <3>1, <3>2 DEF v
  <2> HIDE DEF c
  <2>5. h \o b = (t \o v) \o d
    <3>1. Associates(Symbols)
      BY ConcatAssociates
    <3> DEFINE av == a \o v
               tv == t \o v
    <3>2. av \in Seq(Symbols)
      BY <2>2, <2>3, ConcatProperties
    <3>3. h \o av = tv
      BY <1>3, <2>2, <2>3, <3>1 DEF Associates
    <3> HIDE DEF av, tv
    <3>4. h \o (av \o d) = (h \o av) \o d
      BY <1>3, <2>3, <3>1, <3>2, Zenon DEF Associates
    <3>5. b = av \o d
      BY <2>1 DEF av, v
    <3>6. QED
      BY <3>3, <3>4, <3>5 DEF tv
  <2> HIDE DEF t
  <2>6. t \in Seq(Symbols)
    BY <1>1, <2>2, SeqMonotonic
  <2>7. split((t \o <<"/">>) \o d, "/") = Pieces(t, "/") \o split(d, "/")
    <3>1. "/" \in Symbols
      BY <1>1
    <3>2. t \in Seq(Symbols)
      BY <2>6
    <3>3. d \in Seq(Symbols)
      BY <2>3
    <3>4. QED
      BY <3>1, <3>2, <3>3, SplitCut
  <2> DEFINE rest == split(d, "/")
             one == <<t>>
  <2>8. rest \in Seq(Seq(NoMark)) /\ rest \in Seq(Seq(Symbols)) /\ one \in Seq(Seq(Symbols)) /\ Len(one) = 1 /\ one[1] = t
    <3>1. rest \in Seq(Seq(NoMark)) /\ rest \in Seq(Seq(Symbols))
      BY <2>3, SplitType
    <3> DEFINE S == Seq(Symbols)
    <3>2. t \in S
      BY <2>6
    <3> HIDE DEF S, rest
    <3>3. one \in Seq(S) /\ Len(one) = 1 /\ one[1] = t
      BY <3>2
    <3>4. QED
      BY <3>1, <3>3 DEF S
  <2>9. split(h \o b, "/") = one \o rest
    BY <2>2, <2>5, <2>7 DEF v
  <2> HIDE DEF rest, one
  <2>10. /\ one \o rest \in Seq(Seq(Symbols)) /\ Len(one \o rest) = 1 + Len(rest) /\ Len(rest) \in Nat
         /\ \A i \in 1 .. 1 + Len(rest) : (one \o rest)[i] = IF i <= 1 THEN one[i] ELSE rest[i - 1]
    <3> DEFINE S == Seq(Symbols)
    <3>1. one \in Seq(S) /\ rest \in Seq(S) /\ Len(one) = 1
      BY <2>8
    <3> HIDE DEF S
    <3>2. /\ one \o rest \in Seq(S) /\ Len(one \o rest) = Len(one) + Len(rest) /\ Len(rest) \in Nat
          /\ \A i \in 1 .. Len(one) + Len(rest) :
                (one \o rest)[i] = IF i <= Len(one) THEN one[i] ELSE rest[i - Len(one)]
      BY <3>1, ConcatProperties, LenProperties
    <3>3. QED
      BY <3>1, <3>2 DEF S
  <2> DEFINE all == one \o rest
  <2>11. DOMAIN all = 1 .. 1 + Len(rest)
    <3> HIDE DEF all
    <3>1. all \in Seq(Seq(Symbols)) /\ Len(all) = 1 + Len(rest)
      BY <2>10 DEF all
    <3>2. QED
      BY <3>1, LenProperties
  <2>12. ASSUME NEW i \in 1 .. 1 + Len(rest)
         PROVE  all[i] \in Seq(NoMark) \/ Queried(all[i], b)
    <3>1. CASE i = 1
      <4>1. all[i] = t
        BY <2>8, <2>10, <3>1
      <4>2. t = (l \o <<"?">>) \o a
        BY DEF t, h, u
      <4>3. Queried(t, b)
        BY <2>2, <2>4, <4>2 DEF Queried
      <4>4. QED
        BY <4>1, <4>3
    <3>2. CASE i # 1
      <4>1. i - 1 \in 1 .. Len(rest) /\ ~(i <= 1)
        BY <2>10, <3>2
      <4>2. all[i] = rest[i - 1]
        BY <2>10, <4>1
      <4>3. rest[i - 1] \in Seq(NoMark)
        BY <2>8, <4>1, ElementOfSeq
      <4>4. QED
        BY <4>2, <4>3
    <3>3. QED
      BY <3>1, <3>2
  <2> HIDE DEF all
  <2>13. \A token \in ToSet(all) : token \in Seq(NoMark) \/ Queried(token, b)
    BY <2>11, <2>12 DEF ToSet
  <2>14. s = all
    BY <2>9 DEF all
  <2>15. \A token \in ToSet(s) : token \in Seq(NoMark) \/ Queried(token, b)
    BY <2>13, <2>14
  <2>16. QED
    BY <2>15 DEF s, h, u
<1>8. QED
  BY <1>5, <1>6, <1>7 DEF CutAt, W

(* The tokens of a request's url. *)
LEMMA RequestTokens ==
    ASSUME NEW r \in Requests, NEW token \in ToSet(split(RequestText(r), "/"))
    PROVE  token \in Seq(NoMark) \/ (r.query # <<>> /\ Queried(token, QueryBody(r.query)))
<1>1. /\ r.segments \in Texts(Word) /\ r.query \in Seq(Field)
      /\ RequestText(r) = PathText(r.segments) \o QueryText(r.query) /\ QueryText(r.query) \in Seq(Symbols)
  BY RequestParts
<1>2. PICK front \in Seq(Seq(Word)), l \in Seq(Word) : r.segments = Append(front, l)
  <2> DEFINE s == r.segments
  <2>1. s \in Texts(Word)
    BY <1>1
  <2> HIDE DEF s
  <2>2. \E f \in Seq(Seq(Word)), e \in Seq(Word) : s = Append(f, e)
    BY <2>1, TextsAppend
  <2>3. QED
    BY <2>2 DEF s
<1> DEFINE q == QueryText(r.query)
           H == << <<>> >> \o front
           U == split(l \o q, "/")
           T == H \o U
           m == Len(front)
           S == Seq(Symbols)
<1>3. Word \subseteq Symbols /\ Word \subseteq NoMark
  BY WordFacts DEF NoMark
<1>4. front \in Lines(Word) /\ l \in S /\ front \in Seq(S) /\ front \in Seq(Seq(NoMark))
  <2>1. front \in Lines(Word)
    BY DEF Lines
  <2>2. front \in Lines(Symbols) /\ front \in Lines(NoMark)
    BY <1>3, <2>1, LinesWiden
  <2>3. l \in S
    BY <1>3, SeqMonotonic
  <2>4. QED
    BY <2>1, <2>2, <2>3 DEF Lines
<1>5. split(RequestText(r), "/") = T
  BY <1>1, <1>2, <1>4, UrlTokens
<1>6. /\ H \in Seq(S) /\ Len(H) = 1 + m /\ m \in Nat /\ H[1] = <<>>
      /\ \A i \in 1 .. m : H[i + 1] = front[i]
  <2>1. <<>> \in S
    OBVIOUS
  <2>2. QED
    BY <1>4, <2>1, HeadFirst
<1>7. U \in Seq(S)
  <2>1. l \o q \in S
    BY <1>1, <1>4, ConcatProperties
  <2>2. QED
    BY <2>1, SplitType
<1>8. \A w \in ToSet(U) : w \in Seq(NoMark) \/ (r.query # <<>> /\ Queried(w, QueryBody(r.query)))
  <2>1. CASE r.query = <<>>
    <3>1. q = <<>>
      BY <1>1, <2>1, QueryJoined
    <3>2. l \o <<>> = l
      BY ConcatEmptySeq
    <3>3. U = <<>> \/ U = <<l>>
      <4>1. split(l, "/") = <<>> \/ split(l, "/") = <<l>>
        BY WordFacts, SplitPlain, Zenon
      <4>2. QED
        BY <3>1, <3>2, <4>1
    <3>4. ToSet(<<>>) = {} /\ ToSet(<<l>>) = {l}
      BY DEF ToSet
    <3>5. l \in Seq(NoMark)
      BY <1>3, SeqMonotonic
    <3> HIDE DEF U
    <3>6. QED
      BY <3>3, <3>4, <3>5
  <2>2. CASE r.query # <<>>
    <3> DEFINE b == QueryBody(r.query)
               u == <<"?">>
    <3>1. b \in Seq(NoMark) /\ q = u \o b
      BY <1>1, <2>2, QueryJoined DEF NoMark
    <3> HIDE DEF b
    <3>2. u \in S /\ b \in S
      <4>1. "?" \in Symbols /\ NoMark \subseteq Symbols
        BY WordFacts DEF NoMark
      <4>2. QED
        BY <3>1, <4>1, OneSymbol, SeqMonotonic
    <3> HIDE DEF u
    <3>3. l \o (u \o b) = (l \o u) \o b
      <4>1. Associates(Symbols)
        BY ConcatAssociates
      <4>2. QED
        BY <1>4, <3>2, <4>1 DEF Associates
    <3>4. U = split((l \o <<"?">>) \o b, "/")
      BY <3>1, <3>3 DEF u
    <3>5. \A w \in ToSet(split((l \o <<"?">>) \o b, "/")) : w \in Seq(NoMark) \/ Queried(w, b)
      BY <3>1, QueryTokens
    <3> HIDE DEF U
    <3>6. QED
      BY <2>2, <3>4, <3>5 DEF b
  <2>3. QED
    BY <2>1, <2>2
<1> HIDE DEF H, U, q, m
<1>9. /\ T \in Seq(S) /\ Len(T) = Len(H) + Len(U) /\ Len(U) \in Nat
      /\ \A i \in 1 .. Len(H) + Len(U) : T[i] = IF i <= Len(H) THEN H[i] ELSE U[i - Len(H)]
  BY <1>6, <1>7, ConcatProperties, LenProperties, Zenon
<1> HIDE DEF T
<1>10. PICK i \in 1 .. Len(H) + Len(U) : token = T[i]
  <2>1. DOMAIN T = 1 .. Len(H) + Len(U)
    BY <1>9, LenProperties
  <2>2. token \in ToSet(T)
    BY <1>5
  <2>3. QED
    BY <2>1, <2>2 DEF ToSet
<1>11. CASE i <= Len(H)
  <2>1. token = H[i]
    BY <1>9, <1>10, <1>11
  <2>2. CASE i = 1
    <3>1. token = <<>> /\ <<>> \in Seq(NoMark)
      BY <1>6, <2>1, <2>2
    <3>2. QED
      BY <3>1
  <2>3. CASE i # 1
    <3>1. i - 1 \in 1 .. m /\ (i - 1) + 1 = i
      BY <1>6, <1>9, <1>11, <2>3
    <3>2. token = front[i - 1]
      BY <1>6, <2>1, <3>1
    <3>3. front[i - 1] \in Seq(NoMark)
      <4>1. i - 1 \in 1 .. Len(front)
        BY <3>1 DEF m
      <4>2. QED
        BY <1>4, <4>1, ElementOfSeq
    <3>4. QED
      BY <3>2, <3>3
  <2>4. QED
    BY <2>2, <2>3
<1>12. CASE ~(i <= Len(H))
  <2>1. i - Len(H) \in 1 .. Len(U)
    BY <1>6, <1>9, <1>12
  <2>2. token = U[i - Len(H)]
    BY <1>9, <1>10, <1>12
  <2>3. DOMAIN U = 1 .. Len(U)
    BY <1>7, LenProperties
  <2>4. token \in ToSet(U)
    BY <2>1, <2>2, <2>3 DEF ToSet
  <2>5. QED
    BY <1>8, <2>4
<1>13. QED
  BY <1>11, <1>12

(* What is read from such a token is what can be formed. *)
LEMMA TokenFormable ==
    ASSUME NEW query \in Seq(Field), NEW token, TokenDefined(token),
           token \in Seq(NoMark) \/ (query # <<>> /\ Queried(token, QueryBody(query))),
           parse_params_in_token(token) # NoParams, FormDefined(parse_params_in_token(token))
    PROVE  Formable(parse_params_in_token(token))
<1>1. QueryFields(token) # <<>> /\ parse_params_in_token(token) = ParamsOf(QueryFields(token))
  BY DEF parse_params_in_token
<1>2. Len(split(token, "?")) > 1
  BY <1>1 DEF QueryFields
<1>3. "?" \notin NoMark /\ "&" \in NoMark /\ NoMark \subseteq Symbols /\ NoMark \ {"&"} = Symbols \ {"?", "&"}
  BY RouteAssumption DEF NoMark
<1>4. token \notin Seq(NoMark)
  <2> SUFFICES ASSUME token \in Seq(NoMark)
               PROVE  FALSE
    OBVIOUS
  <2> DEFINE s == split(token, "?")
  <2>1. s = <<>> \/ s = <<token>>
    BY <1>3, SplitPlain
  <2>2. Len(<<>>) = 0 /\ Len(<<token>>) = 1
    OBVIOUS
  <2> DEFINE z == Len(s)
  <2>3. z > 1 /\ (z = 0 \/ z = 1)
    BY <1>2, <2>1, <2>2
  <2> HIDE DEF z
  <2>4. QED
    BY <2>3
<1>5. PICK l \in Seq(Word), a \in Seq(NoMark), c \in Seq(NoMark) :
         token = (l \o <<"?">>) \o a /\ QueryBody(query) = a \o c
  BY <1>4 DEF Queried
<1>6. query # <<>>
  BY <1>4
<1>7. split(token, "?") = <<l>> \o split(a, "?")
  <2>1. a \in Seq(Symbols)
    BY <1>3, SeqMonotonic
  <2>2. split((l \o <<"?">>) \o a, "?") = <<l>> \o split(a, "?")
    BY <2>1, CutToken
  <2>3. QED
    BY <1>5, <2>2
<1>8. a # <<>> /\ split(a, "?") = <<a>>
  <2>1. split(a, "?") = IF a = <<>> THEN <<>> ELSE <<a>>
    BY <1>3, SplitPlain
  <2>2. CASE a = <<>>
    <3>1. <<l>> \o <<>> = <<l>> /\ Len(<<l>>) = 1
      OBVIOUS
    <3> DEFINE z == Len(split(token, "?"))
    <3>2. z = 1 /\ z > 1
      BY <1>2, <1>7, <2>1, <2>2, <3>1
    <3> HIDE DEF z
    <3>3. QED
      BY <3>2
  <2>3. QED
    BY <2>1, <2>2
<1>9. split(token, "?") = <<l, a>>
  <2>1. l \in Seq(Symbols) /\ a \in Seq(Symbols)
    BY <1>3, WordFacts, SeqMonotonic
  <2>2. <<l>> \o <<a>> = <<l, a>>
    BY <2>1, Both
  <2>3. QED
    BY <1>7, <1>8, <2>2
<1> DEFINE fields == split(a, "&")
           p == Pieces(a, "&")
<1>10. QueryFields(token) = fields
  <2> DEFINE s == split(token, "?")
             two == <<l, a>>
  <2>1. s = two /\ two[2] = a /\ Len(s) > 1
    BY <1>2, <1>9
  <2> HIDE DEF s, two
  <2>2. Len(s) > 1 /\ s[2] = a
    BY <2>1
  <2>3. QED
    BY <2>2 DEF QueryFields, s
<1>11. /\ fields = Trim(p) /\ p \in Texts(Symbols \ {"?", "&"})
       /\ fields \in Seq(Seq(Symbols \ {"?", "&"}))
  <2>1. Pieces(a, "&") \in Texts(NoMark \ {"&"}) /\ split(a, "&") \in Seq(Seq(NoMark \ {"&"}))
    BY PiecesWithin
  <2>2. QED
    BY <1>3, <2>1, SplitTrims
<1>12. \A i \in 1 .. Len(p) : FewEquals(p[i])
  BY <1>5, <1>6, BodyBefore DEF NoMark
<1>13. fields # <<>>
  BY <1>1, <1>10
<1>14. \A f \in ToSet(fields) : FieldDefined(f)
  BY <1>10 DEF TokenDefined
<1>15. FormDefined(ParamsOf(fields))
  BY <1>1, <1>10
<1> HIDE DEF fields, p
<1>16. ASSUME NEW i \in 1 .. Len(fields)
       PROVE  FewEquals(fields[i]) /\ FieldDefined(fields[i])
  <2> DEFINE X == Symbols \ {"?", "&"}
  <2>1. PICK f \in Seq(Seq(X)), e \in Seq(X) : p = Append(f, e)
    BY <1>11, TextsAppend
  <2>2. Len(f) \in Nat /\ Len(p) = Len(f) + 1 /\ \A j \in 1 .. Len(f) : p[j] = f[j]
    BY <2>1, AppendProperties, LenProperties
  <2>3. fields = f \/ fields = p
    <3>1. (e = <<>> => Trim(Append(f, e)) = f) /\ (e # <<>> => Trim(Append(f, e)) = Append(f, e))
      BY TrimAppend
    <3>2. QED
      BY <1>11, <2>1, <3>1
  <2>4. i \in 1 .. Len(p) /\ fields[i] = p[i]
    <3>1. CASE fields = f
      BY <2>2, <3>1
    <3>2. CASE fields = p
      BY <3>2
    <3>3. QED
      BY <2>3, <3>1, <3>2
  <2>5. FewEquals(fields[i])
    BY <1>12, <2>4
  <2>6. fields[i] \in ToSet(fields)
    <3>1. DOMAIN fields = 1 .. Len(fields)
      BY <1>11, LenProperties
    <3>2. QED
      BY <3>1 DEF ToSet
  <2>7. QED
    BY <1>14, <2>5, <2>6
<1>17. Formable(ParamsOf(fields))
  BY <1>11, <1>13, <1>15, <1>16, ParamsFormable
<1>18. QED
  BY <1>1, <1>10, <1>17

(* Under the invariant, what is forwarded is read back as it was. *)
LEMMA ForwardedIn ==
    ASSUME RouterInv
    PROVE  QueryForwarded
<1> SUFFICES ASSUME NEW k \in DOMAIN answer.params,
                    answer.params[k].params # NoParams, FormDefined(answer.params[k].params)
             PROVE  parse_params_in_token(form_get_request(<<"get_time">>, answer.params[k].params))
                       = answer.params[k].params
  BY DEF QueryForwarded
<1>1. answer.route # 0
  <2> SUFFICES ASSUME answer.route = 0
               PROVE  FALSE
    OBVIOUS
  <2>1. answer = Unrouted
    <3>1. CASE request = NoRequest
      BY <3>1 DEF RouterInv
    <3>2. CASE request # NoRequest
      <4>1. PICK r \in Requests : answer = Answered(r)
        BY <3>2 DEF RouterInv
      <4>2. Found(r) # 0 => answer.route = Found(r)
        BY <4>1 DEF Answered, Answer
      <4>3. QED
        BY <4>1, <4>2 DEF Answered
    <3>3. QED
      BY <3>1, <3>2
  <2>2. DOMAIN answer.params = {}
    BY <2>1 DEF Unrouted
  <2>3. QED
    BY <2>2
<1>2. PICK r \in Requests, text \in RouteTexts, i \in 1 .. Len(routes) :
         /\ request = r /\ answer = Answer(i, RequestText(r)) /\ answer.route = i
         /\ routes[i] = RouteOf(text) /\ Takes(i, RequestText(r))
  BY <1>1, ServedBy
<1> DEFINE url == RequestText(r)
           schema == parse_param_ids_in_route(text)
           tokens == split(url, "/")
           pos == schema[k].pos
           token == tokens[pos + 1]
<1>3. routes[i].params = schema
  BY <1>2 DEF RouteOf
<1>4. InRange(url, schema) /\ ParamsDefined(url, schema) /\ answer.params = parse_all_params_in_url(url, schema)
  <2>1. CASE ~(InRange(url, schema) /\ ParamsDefined(url, schema))
    <3>1. answer.params = <<>>
      BY <1>2, <1>3, <2>1 DEF Answer
    <3>2. DOMAIN answer.params = {}
      BY <3>1
    <3>3. QED
      BY <3>2
  <2>2. CASE InRange(url, schema) /\ ParamsDefined(url, schema)
    BY <1>2, <1>3, <2>2 DEF Answer
  <2>3. QED
    BY <2>1, <2>2
<1>5. schema \in Seq(Before(url_depth(text)))
  BY ParamsBefore
<1> HIDE DEF url, schema
<1>6. k \in 1 .. Len(schema) /\ answer.params[k].params = parse_params_in_token(token)
  BY <1>4 DEF parse_all_params_in_url, TokensOf
<1>7. pos \in Nat /\ pos < Len(tokens)
  <2>1. schema[k] \in Before(url_depth(text))
    BY <1>5, <1>6, ElementOfSeq
  <2>2. pos \in Nat
    BY <2>1 DEF Before
  <2>3. QED
    BY <1>4, <1>6, <2>2 DEF InRange
<1>8. TokenDefined(token)
  <2>1. TokensOf(url, schema) = [j \in 1 .. Len(schema) |-> tokens[schema[j].pos + 1]]
    BY DEF TokensOf
  <2>2. token \in ToSet(TokensOf(url, schema))
    BY <1>6, <2>1 DEF ToSet
  <2>3. QED
    BY <1>4, <2>2 DEF ParamsDefined
<1>9. token \in ToSet(tokens)
  <2>1. url \in Seq(Symbols)
    <3>1. /\ PathText(r.segments) \in Seq(NoMark) /\ QueryText(r.query) \in Seq(Symbols)
          /\ url = PathText(r.segments) \o QueryText(r.query)
      BY RequestParts DEF url, NoMark
    <3>2. NoMark \subseteq Symbols
      BY DEF NoMark
    <3>3. PathText(r.segments) \in Seq(Symbols)
      BY <3>1, <3>2, SeqMonotonic
    <3>4. QED
      BY <3>1, <3>3, ConcatProperties
  <2>2. tokens \in Seq(Seq(Symbols))
    BY <2>1, SplitType
  <2> HIDE DEF tokens, pos
  <2>3. DOMAIN tokens = 1 .. Len(tokens) /\ Len(tokens) \in Nat
    BY <2>2, LenProperties
  <2>4. pos + 1 \in 1 .. Len(tokens)
    BY <1>7, <2>3
  <2>5. QED
    BY <2>3, <2>4 DEF ToSet
<1>10. token \in Seq(NoMark) \/ (r.query # <<>> /\ Queried(token, QueryBody(r.query)))
  <2> HIDE DEF token
  <2> QED BY <1>9, RequestTokens DEF tokens, url
<1>11. r.query \in Seq(Field)
  BY RequestParts
<1> DEFINE P == parse_params_in_token(token)
<1> HIDE DEF token
<1>12. Formable(P)
  <2>1. P # NoParams /\ FormDefined(P)
    BY <1>6
  <2>2. QED
    BY <1>8, <1>10, <1>11, <2>1, TokenFormable
<1>13. parse_params_in_token(form_get_request(<<"get_time">>, P)) = P
  <2> HIDE DEF P
  <2> QED BY <1>12, FormRead
<1>14. QED
  BY <1>6, <1>13

(* In every state the params that a handler is given, when form_get_request   *)
(* can form a request of them, are read from that request as they were: what  *)
(* the relay service forwards is what the time service reads.  A token of the *)
(* url holds a beginning of the query, so its fields have one equals sign at  *)
(* most; a field that was read is a key and a value without delimiters, and   *)
(* form_get_request takes the last separator away.                            *)
THEOREM Forwarded == Spec => []QueryForwarded
<1>1. RouterInv => QueryForwarded
  BY ForwardedIn
<1>2. QED
  BY <1>1, Invariant, PTL
=============================================================================
