---------------------------- MODULE ParserProofs ----------------------------
(***************************************************************************)
(* That parse_line reads every line as the documented grammar does, however *)
(* long it is: its three loops and the words, commands and lines they leave. *)
(***************************************************************************)
EXTENDS ShellCommand, SessionProofs

-----------------------------------------------------------------------------
(* Modes.                                                                  *)

Mode == {"outside", "single", "double", "escaped", "double_escaped"}

LEMMA NextModeType ==
  ASSUME NEW m \in Mode, NEW c
  PROVE  NextMode(m, c) \in Mode
BY DEF NextMode, Mode

LEMMA ModesFacts ==
  ASSUME NEW s \in Seq(Text)
  PROVE  /\ ModesOf(s) \in [1 .. Len(s) + 1 -> Mode]
         /\ ModesOf(s)[1] = "outside"
         /\ \A k \in 1 .. Len(s) : ModesOf(s)[k + 1] = NextMode(ModesOf(s)[k], s[k])
<1> DEFINE n == Len(s)
           mode[k \in 1 .. Len(s) + 1] ==
             IF k = 1 THEN "outside" ELSE NextMode(mode[k - 1], s[k - 1])
           IsMode(g) == g = [k \in 1 .. Len(s) + 1 |->
             IF k = 1 THEN "outside" ELSE NextMode(g[k - 1], s[k - 1])]
           F == [k \in 1 .. n |-> [m \in Mode |-> NextMode(m, s[k])]]
<1>1. ModesOf(s) = mode
  BY DEF ModesOf
<1>2. n \in Nat
  OBVIOUS
<1>3. \A k \in 1 .. n, m \in Mode : F[k][m] \in Mode /\ F[k][m] = NextMode(m, s[k])
  BY NextModeType
<1> HIDE DEF F
<1>4. PICK g \in [0 .. n -> Mode] :
        g[0] = "outside" /\ \A k \in 1 .. n : g[k] = F[k][g[k - 1]]
  <2>1. KeepsTo(n, Mode, F)
    BY <1>3 DEF KeepsTo
  <2> DEFINE first == "outside"
  <2>2. first \in Mode
    BY DEF Mode
  <2> HIDE DEF n, first
  <2>3. HasRun(n, Mode, first, F)
    BY <1>2, <2>1, <2>2, Passes
  <2> QED BY <2>3 DEF first, HasRun
<1> DEFINE h == [k \in 1 .. n + 1 |-> g[k - 1]]
<1>5. h \in [1 .. n + 1 -> Mode]
  BY <1>2
<1>6. \A k \in 1 .. n + 1 : h[k] = IF k = 1 THEN "outside" ELSE NextMode(h[k - 1], s[k - 1])
  <2> TAKE k \in 1 .. n + 1
  <2>1. CASE k = 1
    BY <1>2, <1>4, <2>1
  <2>2. CASE k # 1
    <3>1. k - 1 \in 1 .. n /\ k - 2 \in 0 .. n
      BY <1>2, <2>2
    <3>2. h[k] = g[k - 1] /\ h[k - 1] = g[k - 2]
      BY <3>1
    <3>3. g[k - 1] = F[k - 1][g[k - 2]]
      BY <1>4, <3>1
    <3> QED BY <1>3, <2>2, <3>1, <3>2, <3>3
  <2> QED BY <2>1, <2>2
<1> HIDE DEF h
<1>7. IsMode(h)
  BY <1>5, <1>6
<1>8. IsMode(mode)
  <2>1. mode = CHOOSE g_1 : IsMode(g_1)
    BY DEF mode
  <2> HIDE DEF mode
  <2> QED BY <1>7, <2>1
<1> HIDE DEF mode
<1>9. \A k \in 1 .. n + 1 : mode[k] = IF k = 1 THEN "outside" ELSE NextMode(mode[k - 1], s[k - 1])
  BY <1>8
<1>10. mode \in [1 .. n + 1 -> Mode]
  <2> DEFINE T == { k \in 0 .. n : mode[k + 1] \in Mode }
  <2>1. 0 \in T
    <3>1. mode[0 + 1] = "outside"
      BY <1>2, <1>9
    <3>2. mode[0 + 1] \in Mode
      BY <3>1 DEF Mode
    <3> QED BY <1>2, <3>2
  <2>2. \A k \in 0 .. n - 1 : k \in T => k + 1 \in T
    <3> TAKE k \in 0 .. n - 1
    <3> HAVE k \in T
    <3>1. k + 1 \in 0 .. n /\ k + 2 \in 1 .. n + 1 /\ k + 2 # 1
      BY <1>2
    <3>2. mode[k + 2] = NextMode(mode[k + 1], s[k + 1])
      BY <1>9, <3>1
    <3> QED BY <3>1, <3>2, NextModeType
  <2>3. \A k \in 0 .. n : mode[k + 1] \in Mode
    <3> HIDE DEF T
    <3>1. \A k \in 0 .. n : k \in T
      BY <1>2, <2>1, <2>2, UpTo
    <3> QED BY <3>1 DEF T
  <2>4. \A k \in 1 .. n + 1 : mode[k] \in Mode
    <3> TAKE k \in 1 .. n + 1
    <3>1. k - 1 \in 0 .. n /\ (k - 1) + 1 = k
      BY <1>2
    <3> QED BY <2>3, <3>1
  <2> QED BY <1>8, <2>4
<1>11. \A k \in 1 .. n : mode[k + 1] = NextMode(mode[k], s[k])
  <2> TAKE k \in 1 .. n
  <2>1. k + 1 \in 1 .. n + 1 /\ k + 1 # 1 /\ (k + 1) - 1 = k
    BY <1>2
  <2> QED BY <1>9, <2>1
<1>12. mode[1] = "outside"
  BY <1>2, <1>9
<1> QED BY <1>1, <1>10, <1>11, <1>12

-----------------------------------------------------------------------------
(* Numbers in their order.                                                 *)

(* A number above all of S comes last.                                     *)
LEMMA AscendingAppend ==
  ASSUME NEW S, S \subseteq Nat, IsFiniteSet(S), NEW m \in Nat, \A x \in S : x < m
  PROVE  /\ Ascending(S \cup {m}) = Append(Ascending(S), m)
         /\ IsFiniteSet(S \cup {m})
<1> DEFINE n == Cardinality(S)
           T == S \cup {m}
<1>1. m \notin S /\ T \subseteq Nat
  OBVIOUS
<1>2. IsFiniteSet(T) /\ Cardinality(T) = n + 1 /\ n \in Nat
  BY <1>1, FS_AddElement, FS_CardinalityType
<1>3. \A x \in S : Rank(T, x) = Rank(S, x)
  <2> TAKE x \in S
  <2>1. { k \in T : k <= x } = { k \in S : k <= x }
    OBVIOUS
  <2> QED BY <2>1 DEF Rank
<1>4. Rank(T, m) = n + 1
  <2>1. \A k \in T : k <= m
    OBVIOUS
  <2>2. { k \in T : k <= m } = T
    BY <2>1
  <2> QED BY <1>2, <2>2 DEF Rank
<1> HIDE DEF T, n
<1>5. Ascending(T) \in [1 .. n + 1 -> T] /\ \A x \in T : Ascending(T)[Rank(T, x)] = x
  BY <1>1, <1>2, AscendingFacts
<1>6. /\ Ascending(S) \in [1 .. n -> S] /\ Len(Ascending(S)) = n
      /\ \A k \in 1 .. n : Rank(S, Ascending(S)[k]) = k
  BY AscendingFacts DEF n
<1>7. Ascending(T)[n + 1] = m
  <2>1. m \in T
    BY DEF T
  <2> QED BY <1>4, <1>5, <2>1
<1>8. \A k \in 1 .. n : Ascending(T)[k] = Ascending(S)[k]
  <2> TAKE k \in 1 .. n
  <2>1. Ascending(S)[k] \in S /\ Ascending(S)[k] \in T
    BY <1>6 DEF T
  <2>2. Rank(T, Ascending(S)[k]) = k
    BY <1>3, <1>6, <2>1
  <2> QED BY <1>5, <2>1, <2>2
<1>9. Ascending(T) = Append(Ascending(S), m)
  <2>1. /\ Ascending(S) \in Seq(Nat) /\ Ascending(T) \in Seq(Nat) /\ Len(Ascending(T)) = n + 1
    <3>1. Ascending(S) \in [1 .. n -> Nat] /\ Ascending(T) \in [1 .. n + 1 -> Nat]
      BY <1>1, <1>5, <1>6
    <3> HIDE DEF Ascending
    <3> QED BY <1>2, <3>1
  <2>2. /\ Append(Ascending(S), m) \in Seq(Nat) /\ Len(Append(Ascending(S), m)) = n + 1
        /\ \A k \in 1 .. n : Append(Ascending(S), m)[k] = Ascending(S)[k]
        /\ Append(Ascending(S), m)[n + 1] = m
    BY <1>6, <2>1, AppendProperties
  <2>3. \A k \in 1 .. n + 1 : Ascending(T)[k] = Append(Ascending(S), m)[k]
    <3> TAKE k \in 1 .. n + 1
    <3>1. CASE k \in 1 .. n
      BY <1>8, <2>2, <3>1
    <3>2. CASE k = n + 1
      BY <1>7, <2>2, <3>2
    <3>3. k \in 1 .. n \/ k = n + 1
      BY <1>2
    <3> QED BY <3>1, <3>2, <3>3
  <2> QED BY <2>1, <2>2, <2>3, SeqEqual
<1> QED BY <1>2, <1>9 DEF T

-----------------------------------------------------------------------------
(* Flattening.                                                             *)

(* g[k] is what the first k sequences of q amount to.                      *)
Flattens(q, S, g) ==
  /\ g \in [0 .. Len(q) -> Seq(S)] /\ g[0] = <<>>
  /\ \A k \in 1 .. Len(q) : g[k] = g[k - 1] \o q[k]

LEMMA HasFlat ==
  ASSUME NEW S, NEW q \in Seq(Seq(S))
  PROVE  \E g : Flattens(q, S, g) /\ FlattenSeq(q) = g[Len(q)]
<1> DEFINE n == Len(q)
           flatten[i \in 1 .. Len(q)] == IF i = 1 THEN q[i] ELSE flatten[i - 1] \o q[i]
           IsFlat(g) == g = [i \in 1 .. Len(q) |-> IF i = 1 THEN q[i] ELSE g[i - 1] \o q[i]]
           F == [k \in 1 .. n |-> [r \in Seq(S) |-> r \o q[k]]]
<1>1. n \in Nat /\ \A k \in 1 .. n : q[k] \in Seq(S)
  OBVIOUS
<1>2. <<>> \in Seq(S)
  OBVIOUS
<1>3. \A k \in 1 .. n, r \in Seq(S) : F[k][r] \in Seq(S) /\ F[k][r] = r \o q[k]
  BY <1>1, ConcatProperties
<1> HIDE DEF F
<1>4. PICK g \in [0 .. n -> Seq(S)] : g[0] = <<>> /\ \A k \in 1 .. n : g[k] = F[k][g[k - 1]]
  <2>1. KeepsTo(n, Seq(S), F)
    BY <1>3 DEF KeepsTo
  <2> DEFINE empty == <<>>
  <2>2. empty \in Seq(S)
    BY <1>2
  <2> HIDE DEF n, empty
  <2>3. HasRun(n, Seq(S), empty, F)
    BY <1>1, <2>1, <2>2, Passes
  <2> QED BY <2>3 DEF empty, HasRun
<1>5. \A k \in 1 .. n : g[k] = g[k - 1] \o q[k]
  <2> TAKE k \in 1 .. n
  <2>1. k - 1 \in 0 .. n
    BY <1>1
  <2> QED BY <1>3, <1>4, <2>1
<1>6. Flattens(q, S, g)
  BY <1>4, <1>5 DEF Flattens
<1>7. CASE n = 0
  <2>1. q = <<>>
    BY <1>1, <1>7
  <2>2. FlattenSeq(q) = q
    BY <1>7 DEF FlattenSeq
  <2> QED BY <1>4, <1>6, <1>7, <2>1, <2>2
<1>8. CASE n # 0
  <2>1. FlattenSeq(q) = flatten[n]
    BY <1>8 DEF FlattenSeq
  <2> DEFINE h == [k \in 1 .. n |-> g[k]]
  <2>0. g[1] = q[1]
    <3>1. 1 \in 1 .. n /\ q[1] \in Seq(S)
      BY <1>1, <1>8
    <3>2. g[1] = g[0] \o q[1]
      <4>1. 1 - 1 = 0
        OBVIOUS
      <4> QED BY <1>5, <3>1, <4>1
    <3> QED BY <1>4, <3>1, <3>2, ConcatEmptySeq
  <2>2. \A k \in 1 .. n : h[k] = IF k = 1 THEN q[k] ELSE h[k - 1] \o q[k]
    <3> TAKE k \in 1 .. n
    <3>1. CASE k = 1
      BY <2>0, <3>1
    <3>2. CASE k # 1
      <4>1. k - 1 \in 1 .. n
        BY <3>2
      <4>2. h[k] = g[k] /\ h[k - 1] = g[k - 1]
        BY <4>1
      <4> QED BY <1>5, <3>2, <4>2
    <3> QED BY <3>1, <3>2
  <2> HIDE DEF h
  <2>3. IsFlat(h)
    BY <2>2 DEF h
  <2>4. IsFlat(flatten)
    <3>1. flatten = CHOOSE g_1 : IsFlat(g_1)
      BY DEF flatten
    <3> HIDE DEF flatten
    <3> QED BY <2>3, <3>1
  <2> HIDE DEF flatten
  <2>5. \A k \in 1 .. n : flatten[k] = IF k = 1 THEN q[k] ELSE flatten[k - 1] \o q[k]
    BY <2>4
  <2>6. flatten[n] = g[n]
    <3> DEFINE T == { k \in 0 .. n : k > 0 => flatten[k] = g[k] }
    <3>1. 0 \in T
      BY <1>1
    <3>2. \A k \in 0 .. n - 1 : k \in T => k + 1 \in T
      <4> TAKE k \in 0 .. n - 1
      <4> HAVE k \in T
      <4>1. k + 1 \in 1 .. n /\ (k + 1) - 1 = k /\ k + 1 \in 0 .. n
        BY <1>1
      <4>2. CASE k = 0
        <5>1. flatten[1] = q[1]
          BY <2>5, <4>1, <4>2
        <5> QED BY <2>0, <4>1, <4>2, <5>1
      <4>3. CASE k # 0
        <5>1. flatten[k] = g[k] /\ k + 1 # 1
          BY <4>3
        <5>2. flatten[k + 1] = flatten[k] \o q[k + 1]
          BY <2>5, <4>1, <5>1
        <5> QED BY <1>5, <4>1, <5>1, <5>2
      <4> QED BY <4>2, <4>3
    <3> HIDE DEF T
    <3>3. n \in T
      <4>1. \A k \in 0 .. n : k \in T
        BY <1>1, <3>1, <3>2, UpTo
      <4> QED BY <1>1, <4>1
    <3> QED BY <1>1, <1>8, <3>3 DEF T
  <2> QED BY <1>6, <2>1, <2>6
<1> QED BY <1>7, <1>8

LEMMA FlattenFacts ==
  ASSUME NEW S, NEW q \in Seq(Seq(S))
  PROVE  /\ FlattenSeq(q) \in Seq(S)
         /\ q = <<>> => FlattenSeq(q) = <<>>
         /\ \A e \in Seq(S) : FlattenSeq(Append(q, e)) = FlattenSeq(q) \o e
<1> DEFINE n == Len(q)
<1>1. n \in Nat
  OBVIOUS
<1>2. PICK g : Flattens(q, S, g) /\ FlattenSeq(q) = g[n]
  BY HasFlat
<1>3. FlattenSeq(q) \in Seq(S)
  BY <1>1, <1>2 DEF Flattens
<1>4. ASSUME q = <<>>
      PROVE  FlattenSeq(q) = <<>>
  BY <1>2, <1>4 DEF Flattens
<1>5. ASSUME NEW e \in Seq(S)
      PROVE  FlattenSeq(Append(q, e)) = FlattenSeq(q) \o e
  <2> DEFINE r == Append(q, e)
  <2>1. /\ r \in Seq(Seq(S)) /\ Len(r) = n + 1 /\ r[n + 1] = e
        /\ \A k \in 1 .. n : r[k] = q[k]
    BY <1>1, AppendProperties
  <2> HIDE DEF r, n
  <2>2. PICK h : Flattens(r, S, h) /\ FlattenSeq(r) = h[n + 1]
    BY <2>1, HasFlat
  <2> DEFINE T == { k \in 0 .. n : h[k] = g[k] }
  <2>3. 0 \in T
    BY <1>1, <1>2, <2>2 DEF Flattens
  <2>4. \A k \in 0 .. n - 1 : k \in T => k + 1 \in T
    <3> TAKE k \in 0 .. n - 1
    <3> HAVE k \in T
    <3>1. k + 1 \in 1 .. n /\ (k + 1) - 1 = k /\ k + 1 \in 0 .. n /\ k + 1 \in 1 .. n + 1
      BY <1>1
    <3>2. g[k + 1] = g[k] \o q[k + 1]
      BY <1>2, <3>1 DEF Flattens, n
    <3>3. h[k + 1] = h[k] \o r[k + 1]
      BY <2>1, <2>2, <3>1 DEF Flattens
    <3> QED BY <2>1, <3>1, <3>2, <3>3
  <2> HIDE DEF T
  <2>5. n \in T
    <3>1. \A k \in 0 .. n : k \in T
      BY <1>1, <2>3, <2>4, UpTo
    <3> QED BY <1>1, <3>1
  <2>6. h[n + 1] = h[n] \o r[n + 1]
    <3>1. n + 1 \in 1 .. n + 1 /\ (n + 1) - 1 = n
      BY <1>1
    <3> QED BY <2>1, <2>2, <3>1 DEF Flattens
  <2> QED BY <1>2, <2>1, <2>2, <2>5, <2>6 DEF T, r
<1> QED BY <1>3, <1>4, <1>5

-----------------------------------------------------------------------------
(* What symbols amount to.                                                 *)

Chars == Text \cup {Newline, Back}

LEMMA LiteralType ==
  ASSUME NEW c \in Text, NEW m, NEW n
  PROVE  Literal(c, m, n) \in Seq(Chars)
<1>1. c \in Chars /\ Newline \in Chars /\ Back \in Chars
  BY DEF Chars
<1>2. <<>> \in Seq(Chars) /\ <<c>> \in Seq(Chars) /\ <<Newline>> \in Seq(Chars) /\ <<Back, c>> \in Seq(Chars)
  BY <1>1
<1> QED BY <1>2 DEF Literal

LitAt(s, k) == Literal(s[k], ModesOf(s)[k], ModesOf(s)[k + 1])

LEMMA WordFacts ==
  ASSUME NEW s \in Seq(Text), NEW i \in 1 .. Len(s), NEW j \in i - 1 .. Len(s)
  PROVE  /\ Word(s, i, j) \in Seq(Chars)
         /\ j = i - 1 => Word(s, i, j) = <<>>
         /\ j < Len(s) => Word(s, i, j + 1) = Word(s, i, j) \o LitAt(s, j + 1)
<1> DEFINE q(m) == [k \in 1 .. m - i + 1 |->
                      Literal(s[i + k - 1], ModesOf(s)[i + k - 1], ModesOf(s)[i + k])]
<1>1. Len(s) \in Nat /\ i \in Nat /\ j \in Nat
  OBVIOUS
<1>2. \A k \in 1 .. Len(s) : LitAt(s, k) \in Seq(Chars)
  BY LiteralType DEF LitAt
<1>3. \A m \in i - 1 .. Len(s) : q(m) = [k \in 1 .. m - i + 1 |-> LitAt(s, i + k - 1)]
  BY DEF LitAt
<1>4. \A m \in i - 1 .. Len(s) : Word(s, i, m) = FlattenSeq(q(m))
  BY DEF Word
<1> HIDE DEF q
<1>5. \A m \in i - 1 .. Len(s) : q(m) \in Seq(Seq(Chars)) /\ Len(q(m)) = m - i + 1
  <2> TAKE m \in i - 1 .. Len(s)
  <2>1. m - i + 1 \in Nat /\ \A k \in 1 .. m - i + 1 : i + k - 1 \in 1 .. Len(s)
    BY <1>1
  <2>2. \A k \in 1 .. m - i + 1 : LitAt(s, i + k - 1) \in Seq(Chars)
    BY <1>2, <2>1
  <2>3. q(m) \in [1 .. m - i + 1 -> Seq(Chars)]
    BY <1>3, <2>2
  <2> DEFINE l == m - i + 1
             C == Seq(Chars)
  <2>4. l \in Nat /\ q(m) \in [1 .. l -> C]
    BY <2>1, <2>3
  <2> HIDE DEF l, C
  <2>5. q(m) \in Seq(C) /\ Len(q(m)) = l
    BY <2>4
  <2> QED BY <2>5 DEF l, C
<1>6. Word(s, i, j) \in Seq(Chars)
  BY <1>4, <1>5, FlattenFacts
<1>7. ASSUME j = i - 1
      PROVE  Word(s, i, j) = <<>>
  <2>1. q(j) = <<>>
    BY <1>5, <1>7
  <2> QED BY <1>4, <1>5, <2>1, FlattenFacts
<1>8. ASSUME j < Len(s)
      PROVE  Word(s, i, j + 1) = Word(s, i, j) \o LitAt(s, j + 1)
  <2> DEFINE e == LitAt(s, j + 1)
             l == j - i + 1
  <2>1. j + 1 \in i - 1 .. Len(s) /\ j + 1 \in 1 .. Len(s) /\ l \in Nat /\ (j + 1) - i + 1 = l + 1
    BY <1>1, <1>8
  <2>2. e \in Seq(Chars)
    BY <1>2, <2>1
  <2>3. q(j + 1) = Append(q(j), e)
    <3>1. /\ q(j + 1) \in Seq(Seq(Chars)) /\ Len(q(j + 1)) = l + 1
          /\ q(j) \in Seq(Seq(Chars)) /\ Len(q(j)) = l
      BY <1>5, <2>1
    <3>2. /\ Append(q(j), e) \in Seq(Seq(Chars)) /\ Len(Append(q(j), e)) = l + 1
          /\ \A k \in 1 .. l : Append(q(j), e)[k] = q(j)[k]
          /\ Append(q(j), e)[l + 1] = e
      BY <2>2, <3>1, AppendProperties
    <3>3. \A k \in 1 .. l + 1 : q(j + 1)[k] = LitAt(s, i + k - 1)
      BY <1>3, <2>1
    <3>4. \A k \in 1 .. l : q(j)[k] = LitAt(s, i + k - 1)
      BY <1>3
    <3>5. i + (l + 1) - 1 = j + 1
      BY <1>1
    <3> HIDE DEF l, e
    <3>6. q(j + 1)[l + 1] = e
      BY <2>1, <3>3, <3>5 DEF e
    <3>7. \A k \in 1 .. l + 1 : q(j + 1)[k] = Append(q(j), e)[k]
      <4> TAKE k \in 1 .. l + 1
      <4>1. k \in 1 .. l \/ k = l + 1
        BY <2>1
      <4> QED BY <3>2, <3>3, <3>4, <3>6, <4>1
    <3> QED BY <3>1, <3>2, <3>7, SeqEqual
  <2> HIDE DEF e, l
  <2> QED BY <1>4, <1>5, <2>1, <2>2, <2>3, FlattenFacts DEF e
<1> QED BY <1>6, <1>7, <1>8

-----------------------------------------------------------------------------
(* The scan of a word.                                                     *)

Quoting == {"outside", "single", "double"}

ScanState(s) == [at: 1 .. Len(s) + 1, state: Quoting, buffer: Seq(Chars)]

LEMMA CharsFacts ==
  /\ Text \subseteq Chars /\ Newline \in Chars /\ Back \in Chars /\ Nul \notin Text
BY DEF Chars, Text

LEMMA ScanStepType ==
  ASSUME NEW s \in Seq(Text), NEW r \in ScanState(s)
  PROVE  ScanStep(s, r) \in ScanState(s)
<1> DEFINE c    == s[r.at]
           next == IF r.at < Len(s) THEN s[r.at + 1] ELSE Nul
           To(other)     == [r EXCEPT !.at = @ + 1, !.state = other]
           Keep(n, kept) == [r EXCEPT !.at = @ + n, !.buffer = @ \o kept]
<1>1. /\ r = [at |-> r.at, state |-> r.state, buffer |-> r.buffer]
      /\ r.at \in 1 .. Len(s) + 1 /\ r.state \in Quoting /\ r.buffer \in Seq(Chars)
  BY DEF ScanState
<1>2. CASE r.at > Len(s) \/ (r.state = "outside" /\ c = Blank)
  BY <1>2 DEF ScanStep
<1>3. CASE ~(r.at > Len(s) \/ (r.state = "outside" /\ c = Blank))
  <2>1. r.at \in 1 .. Len(s) /\ c \in Text
    BY <1>1, <1>3
  <2>2. next = Nul \/ (r.at < Len(s) /\ next \in Text)
    BY <1>1
  <2>3. ASSUME NEW q \in Quoting
        PROVE  To(q) \in ScanState(s)
    <3>1. r.at + 1 \in 1 .. Len(s) + 1
      BY <2>1
    <3>2. To(q) = [[r EXCEPT !.at = r.at + 1] EXCEPT !.state = q]
      BY DEF ScanState
    <3>3. [r EXCEPT !.at = r.at + 1] \in ScanState(s)
      BY <3>1 DEF ScanState
    <3> QED BY <3>2, <3>3 DEF ScanState
  <2>4. ASSUME NEW kept \in Seq(Chars)
        PROVE  Keep(1, kept) \in ScanState(s) /\ (r.at < Len(s) => Keep(2, kept) \in ScanState(s))
    <3>1. r.buffer \o kept \in Seq(Chars)
      BY <1>1, ConcatProperties
    <3>2. ASSUME NEW n, r.at + n \in 1 .. Len(s) + 1
          PROVE  Keep(n, kept) \in ScanState(s)
      BY <3>1, <3>2 DEF ScanState
    <3>3. r.at + 1 \in 1 .. Len(s) + 1 /\ (r.at < Len(s) => r.at + 2 \in 1 .. Len(s) + 1)
      BY <2>1
    <3> HIDE DEF Keep
    <3> QED BY <3>2, <3>3
  <2>5. <<>> \in Seq(Chars) /\ <<Newline>> \in Seq(Chars) /\ <<Back>> \in Seq(Chars)
    BY CharsFacts
  <2>6. \A a \in Text : <<a>> \in Seq(Chars)
    BY CharsFacts
  <2>7. "outside" \in Quoting /\ "single" \in Quoting /\ "double" \in Quoting
    BY DEF Quoting
  <2>8. /\ To("outside") \in ScanState(s) /\ To("single") \in ScanState(s)
        /\ To("double") \in ScanState(s) /\ Keep(1, <<>>) \in ScanState(s)
        /\ Keep(1, <<c>>) \in ScanState(s) /\ Keep(1, <<Back>>) \in ScanState(s)
        /\ next # Nul => Keep(2, <<next>>) \in ScanState(s) /\ Keep(2, <<Newline>>) \in ScanState(s)
    BY <2>1, <2>2, <2>3, <2>4, <2>5, <2>6, <2>7
  <2>9. "n" # Nul /\ Double # Nul /\ Back # Nul
    BY DEF Nul, Double, Back
  <2>10. ScanStep(s, r) =
      IF r.state = "outside"
      THEN CASE c = Single -> To("single")
             [] c = Double -> To("double")
             [] c = Back   -> IF next = Nul THEN Keep(1, <<>>) ELSE Keep(2, <<next>>)
             [] OTHER      -> Keep(1, <<c>>)
      ELSE IF c = (IF r.state = "single" THEN Single ELSE Double) THEN To("outside")
      ELSE IF r.state = "double" /\ c = Back
      THEN CASE next = "n"              -> Keep(2, <<Newline>>)
             [] next \in {Double, Back} -> Keep(2, <<next>>)
             [] OTHER                   -> Keep(1, <<Back>>)
      ELSE Keep(1, <<c>>)
    BY <1>3 DEF ScanStep
  <2> HIDE DEF c, next, To, Keep
  <2>11. CASE r.state = "outside"
    BY <2>8, <2>10, <2>11
  <2>12. CASE r.state # "outside"
    BY <2>8, <2>9, <2>10, <2>12
  <2> QED BY <2>11, <2>12
<1> QED BY <1>2, <1>3

LEMMA ScanFacts ==
  ASSUME NEW s \in Seq(Text), NEW p \in 1 .. Len(s)
  PROVE  \E g \in [0 .. Len(s) -> ScanState(s)] :
           /\ g[0] = [at |-> p, state |-> "outside", buffer |-> <<>>]
           /\ \A k \in 1 .. Len(s) : g[k] = ScanStep(s, g[k - 1])
           /\ Scan(s, p) = g[Len(s)]
<1> DEFINE n == Len(s)
           S == ScanState(s)
           first == [at |-> p, state |-> "outside", buffer |-> <<>>]
           run[k \in 0 .. Len(s)] ==
             IF k = 0 THEN [at |-> p, state |-> "outside", buffer |-> <<>>]
             ELSE ScanStep(s, run[k - 1])
           IsRun(g) == g = [k \in 0 .. Len(s) |->
             IF k = 0 THEN [at |-> p, state |-> "outside", buffer |-> <<>>]
             ELSE ScanStep(s, g[k - 1])]
           F == [k \in 1 .. n |-> [r \in S |-> ScanStep(s, r)]]
<1>1. n \in Nat
  OBVIOUS
<1>2. first \in S
  BY DEF ScanState, Quoting
<1>3. Scan(s, p) = run[n]
  BY DEF Scan
<1>4. \A k \in 1 .. n, r \in S : F[k][r] \in S /\ F[k][r] = ScanStep(s, r)
  BY ScanStepType
<1> HIDE DEF F
<1>5. PICK g \in [0 .. n -> S] : g[0] = first /\ \A k \in 1 .. n : g[k] = F[k][g[k - 1]]
  <2>1. KeepsTo(n, S, F)
    BY <1>4 DEF KeepsTo
  <2> HIDE DEF n, S, first
  <2>2. HasRun(n, S, first, F)
    BY <1>1, <1>2, <2>1, Passes
  <2> QED BY <2>2 DEF HasRun
<1>6. \A k \in 1 .. n : g[k] = ScanStep(s, g[k - 1])
  <2> TAKE k \in 1 .. n
  <2>1. k - 1 \in 0 .. n
    BY <1>1
  <2> QED BY <1>4, <1>5, <2>1
<1>7. IsRun(g)
  <2>1. \A k \in 0 .. n : g[k] = IF k = 0 THEN first ELSE ScanStep(s, g[k - 1])
    BY <1>1, <1>5, <1>6
  <2> HIDE DEF S
  <2> QED BY <1>5, <2>1
<1>8. IsRun(run)
  <2>1. run = CHOOSE g_1 : IsRun(g_1)
    BY DEF run
  <2> HIDE DEF run
  <2> QED BY <1>7, <2>1
<1> HIDE DEF run
<1>9. \A k \in 0 .. n : run[k] = IF k = 0 THEN first ELSE ScanStep(s, run[k - 1])
  BY <1>8
<1>10. run[n] = g[n]
  <2> DEFINE T == { k \in 0 .. n : run[k] = g[k] }
  <2> HIDE DEF first
  <2>1. 0 \in T
    BY <1>1, <1>5, <1>9
  <2>2. \A k \in 0 .. n - 1 : k \in T => k + 1 \in T
    <3> TAKE k \in 0 .. n - 1
    <3> HAVE k \in T
    <3>1. k + 1 \in 1 .. n /\ k + 1 \in 0 .. n /\ (k + 1) - 1 = k /\ k + 1 # 0
      BY <1>1
    <3>2. run[k + 1] = ScanStep(s, run[k])
      BY <1>9, <3>1
    <3> QED BY <1>6, <3>1, <3>2
  <2> HIDE DEF T
  <2>3. n \in T
    <3>1. \A k \in 0 .. n : k \in T
      BY <1>1, <2>1, <2>2, UpTo
    <3> QED BY <1>1, <3>1
  <2> QED BY <2>3 DEF T
<1> QED BY <1>3, <1>5, <1>6, <1>10

LEMMA Pair ==
  ASSUME NEW S, NEW x \in S, NEW y \in S
  PROVE  <<x>> \in Seq(S) /\ <<y>> \in Seq(S) /\ <<x>> \o <<y>> = <<x, y>>
<1>1. <<x>> \in Seq(S) /\ <<y>> \in Seq(S) /\ Len(<<x>>) = 1 /\ Len(<<y>>) = 1
  OBVIOUS
<1>2. /\ <<x>> \o <<y>> \in Seq(S) /\ Len(<<x>> \o <<y>>) = 2
      /\ (<<x>> \o <<y>>)[1] = x /\ (<<x>> \o <<y>>)[2] = y
  BY <1>1, ConcatProperties
<1>3. <<x, y>> \in Seq(S) /\ Len(<<x, y>>) = 2
  OBVIOUS
<1> DEFINE t == <<x>> \o <<y>>
<1>4. \A i \in 1 .. Len(t) : t[i] = <<x, y>>[i]
  BY <1>2
<1> HIDE DEF t
<1>5. t = <<x, y>>
  BY <1>2, <1>3, <1>4, SeqEqual DEF t
<1> QED BY <1>1, <1>5 DEF t

LEMMA GapMode ==
  ASSUME NEW s \in Seq(Text), NEW k \in 1 .. Len(s), Gap(s, k - 1)
  PROVE  ModesOf(s)[k] = "outside"
<1>1. CASE k = 1
  BY <1>1, ModesFacts
<1>2. CASE k # 1
  <2>1. k - 1 \in 1 .. Len(s) /\ (k - 1) + 1 = k
    BY <1>2
  <2>2. s[k - 1] = Blank /\ ModesOf(s)[k - 1] = "outside"
    BY <1>2, <2>1 DEF Gap
  <2>3. ModesOf(s)[k] = NextMode("outside", Blank)
    BY <2>1, <2>2, ModesFacts
  <2> QED BY <2>3 DEF NextMode, Blank, Back, Single, Double
<1> QED BY <1>1, <1>2

LEMMA EndFacts ==
  ASSUME NEW s \in Seq(Text), NEW p \in Starts(s)
  PROVE  /\ p \in 1 .. Len(s) /\ EndOf(s, p) \in p .. Len(s)
         /\ Gap(s, p - 1) /\ Gap(s, EndOf(s, p) + 1) /\ \A i \in p .. EndOf(s, p) : ~Gap(s, i)
<1>1. p \in 1 .. Len(s) /\ ~Gap(s, p) /\ Gap(s, p - 1) /\ Len(s) \in Nat
  BY DEF Starts
<1> DEFINE G == { k \in p .. Len(s) + 1 : Gap(s, k) }
<1>2. Len(s) + 1 \in G
  BY <1>1 DEF Gap
<1>3. PICK k \in G : \A j \in G : k <= j
  <2>1. G \subseteq Nat /\ G # {}
    BY <1>1, <1>2
  <2> HIDE DEF G
  <2> QED BY <2>1, LeastNat
<1>4. k # p
  BY <1>1, <1>3
<1>5. k - 1 \in p .. Len(s) /\ (k - 1) + 1 = k
  BY <1>1, <1>3, <1>4
<1>6. \A i \in p .. k - 1 : ~Gap(s, i)
  <2> SUFFICES ASSUME NEW i \in p .. k - 1, Gap(s, i) PROVE FALSE
    OBVIOUS
  <2>1. i \in G
    BY <1>1, <1>5
  <2> QED BY <1>1, <1>3, <1>5, <2>1
<1>7. \E j \in p .. Len(s) : Gap(s, j + 1) /\ \A i \in p .. j : ~Gap(s, i)
  BY <1>3, <1>5, <1>6
<1> QED BY <1>1, <1>7 DEF EndOf

(* How the scan of the word from p to e stands after k passes: in the mode *)
(* of the line; or a backslash ahead of it in double quotes; or at the end *)
(* of the line, past a last backslash.                                     *)
Plain(s, p, r) == ModesOf(s)[r.at] = r.state /\ r.buffer = Word(s, p, r.at - 1)

Ahead(s, p, e, r) ==
  /\ r.at <= e /\ r.state = "double" /\ ModesOf(s)[r.at] = "double_escaped"
  /\ s[r.at] \notin {"n", Double, Back} /\ r.buffer = Word(s, p, r.at - 1) \o <<Back>>

Cut(s, p, e, r) ==
  /\ e = Len(s) /\ r.at = Len(s) + 1 /\ r.state = "outside"
  /\ ModesOf(s)[r.at] = "escaped" /\ r.buffer = Word(s, p, r.at - 1)

Scanning(s, p, e, k, r) ==
  /\ r.at \in p .. e + 1 /\ (r.at = e + 1 \/ r.at >= p + k)
  /\ Plain(s, p, r) \/ Ahead(s, p, e, r) \/ Cut(s, p, e, r)

LEMMA ScanAdvances ==
  ASSUME NEW s \in Seq(Text), QuotesMatch(s), NEW p \in Starts(s), NEW e, e = EndOf(s, p),
         NEW r \in ScanState(s), NEW k \in 0 .. Len(s), Scanning(s, p, e, k, r), r.at # e + 1
  PROVE  Scanning(s, p, e, k + 1, ScanStep(s, r))
<1> DEFINE a == r.at
           c == s[a]
           M == ModesOf(s)
           next == IF a < Len(s) THEN s[a + 1] ELSE Nul
           To(other)     == [r EXCEPT !.at = @ + 1, !.state = other]
           Keep(n, kept) == [r EXCEPT !.at = @ + n, !.buffer = @ \o kept]
<1>1. /\ p \in 1 .. Len(s) /\ e \in p .. Len(s) /\ Gap(s, p - 1) /\ Gap(s, e + 1)
      /\ \A i \in p .. e : ~Gap(s, i)
  BY EndFacts
<1>2. /\ Len(s) \in Nat /\ a \in 1 .. Len(s) /\ a \in p .. e /\ a >= p + k /\ c \in Text /\ ~Gap(s, a)
      /\ k \in Nat /\ p \in Nat /\ e \in Nat
  BY <1>1 DEF Scanning
<1>3. M[a + 1] = NextMode(M[a], c) /\ M[a] \in Mode
  BY <1>2, ModesFacts
<1>4. a < Len(s) => M[a + 2] = NextMode(M[a + 1], s[a + 1])
  <2>1. a < Len(s) => a + 1 \in 1 .. Len(s) /\ (a + 1) + 1 = a + 2
    BY <1>2
  <2> QED BY <2>1, ModesFacts
<1>5. /\ Word(s, p, a - 1) \in Seq(Chars)
      /\ Word(s, p, a) = Word(s, p, a - 1) \o LitAt(s, a)
  <2>1. a - 1 \in p - 1 .. Len(s) /\ a - 1 < Len(s) /\ (a - 1) + 1 = a
    BY <1>1, <1>2
  <2> QED BY <1>1, <2>1, WordFacts
<1>6. /\ Word(s, p, a) \in Seq(Chars)
      /\ a < Len(s) => Word(s, p, a + 1) = Word(s, p, a) \o LitAt(s, a + 1)
  <2>1. a \in p - 1 .. Len(s)
    BY <1>1, <1>2
  <2> QED BY <1>1, <2>1, WordFacts
<1>7. /\ LitAt(s, a) = Literal(c, M[a], M[a + 1])
      /\ LitAt(s, a + 1) = Literal(s[a + 1], M[a + 1], M[a + 2])
  <2>1. (a + 1) + 1 = a + 2
    BY <1>2
  <2> QED BY <2>1 DEF LitAt
<1>8. r.state \in Quoting /\ r.buffer \in Seq(Chars) /\ ~(a > Len(s))
  BY <1>2 DEF ScanState
<1>9. M[a + 1] \in {"escaped", "double_escaped"} /\ a < Len(s) => a + 1 <= e
  <2> SUFFICES ASSUME M[a + 1] \in {"escaped", "double_escaped"}, a < Len(s), ~(a + 1 <= e)
               PROVE  FALSE
    OBVIOUS
  <2>1. a + 1 = e + 1 /\ a + 1 # 0 /\ a + 1 # Len(s) + 1
    <3> HIDE DEF a, c, M, next, To, Keep
    <3> QED BY <1>2
  <2> QED BY <1>1, <2>1 DEF Gap
<1>16. ASSUME ~(r.state = "outside" /\ c = Blank)
       PROVE  ScanStep(s, r) =
         IF r.state = "outside"
         THEN CASE c = Single -> To("single")
                [] c = Double -> To("double")
                [] c = Back   -> IF next = Nul THEN Keep(1, <<>>) ELSE Keep(2, <<next>>)
                [] OTHER      -> Keep(1, <<c>>)
         ELSE IF c = (IF r.state = "single" THEN Single ELSE Double) THEN To("outside")
         ELSE IF r.state = "double" /\ c = Back
         THEN CASE next = "n"              -> Keep(2, <<Newline>>)
                [] next \in {Double, Back} -> Keep(2, <<next>>)
                [] OTHER                   -> Keep(1, <<Back>>)
         ELSE Keep(1, <<c>>)
  BY <1>8, <1>16 DEF ScanStep
(* What is to be shown after each way to step.                             *)
<1>10. ASSUME NEW q \in Quoting, M[a + 1] = q, r.buffer = Word(s, p, a)
       PROVE  Scanning(s, p, e, k + 1, To(q))
  <2>1. To(q).at = a + 1 /\ To(q).state = q /\ To(q).buffer = r.buffer
    BY DEF ScanState
  <2> HIDE DEF To
  <2>2. (a + 1) - 1 = a /\ a + 1 \in p .. e + 1 /\ a + 1 >= p + (k + 1)
    BY <1>2
  <2> QED BY <1>10, <2>1, <2>2 DEF Scanning, Plain
<1>11. ASSUME NEW kept, M[a + 1] = r.state, Word(s, p, a) = r.buffer \o kept
       PROVE  Scanning(s, p, e, k + 1, Keep(1, kept))
  <2>1. Keep(1, kept).at = a + 1 /\ Keep(1, kept).state = r.state /\ Keep(1, kept).buffer = r.buffer \o kept
    BY DEF ScanState
  <2> HIDE DEF Keep
  <2>2. (a + 1) - 1 = a /\ a + 1 \in p .. e + 1 /\ a + 1 >= p + (k + 1)
    BY <1>2
  <2> QED BY <1>11, <2>1, <2>2 DEF Scanning, Plain
<1>12. ASSUME NEW kept, a < Len(s), M[a + 1] \in {"escaped", "double_escaped"},
              M[a + 2] = r.state, Word(s, p, a + 1) = r.buffer \o kept
       PROVE  Scanning(s, p, e, k + 1, Keep(2, kept))
  <2>1. Keep(2, kept).at = a + 2 /\ Keep(2, kept).state = r.state /\ Keep(2, kept).buffer = r.buffer \o kept
    BY DEF ScanState
  <2> HIDE DEF Keep
  <2>2. (a + 2) - 1 = a + 1 /\ a + 2 \in p .. e + 1 /\ a + 2 >= p + (k + 1)
    <3> HIDE DEF a, c, M, next, To
    <3> QED BY <1>2, <1>9, <1>12
  <2> QED BY <1>12, <2>1, <2>2 DEF Scanning, Plain
<1>13. CASE Plain(s, p, r)
  <2>1. M[a] = r.state /\ r.buffer = Word(s, p, a - 1)
    BY <1>13 DEF Plain
  <2>2. ~(r.state = "outside" /\ c = Blank)
    BY <1>2, <2>1 DEF Gap
  <2>3. CASE r.state = "outside" /\ c = Single
    <3>1. M[a + 1] = "single" /\ LitAt(s, a) = <<>>
      BY <1>3, <1>7, <2>1, <2>3 DEF NextMode, Literal, Back, Single, Double
    <3>2. Word(s, p, a) = r.buffer
      BY <1>5, <2>1, <3>1, ConcatEmptySeq
    <3>3. ScanStep(s, r) = To("single")
      <4> HIDE DEF To, Keep
      <4> QED BY <1>16, <2>3 DEF Blank, Single, Double, Back
    <3> HIDE DEF To
    <3> QED BY <1>10, <3>1, <3>2, <3>3 DEF Quoting
  <2>4. CASE r.state = "outside" /\ c = Double
    <3>1. M[a + 1] = "double" /\ LitAt(s, a) = <<>>
      BY <1>3, <1>7, <2>1, <2>4 DEF NextMode, Literal, Back, Single, Double
    <3>2. Word(s, p, a) = r.buffer
      BY <1>5, <2>1, <3>1, ConcatEmptySeq
    <3>3. ScanStep(s, r) = To("double")
      <4> HIDE DEF To, Keep
      <4> QED BY <1>16, <2>4 DEF Blank, Single, Double, Back
    <3> HIDE DEF To
    <3> QED BY <1>10, <3>1, <3>2, <3>3 DEF Quoting
  <2>5. CASE r.state = "outside" /\ c = Back
    <3>1. M[a + 1] = "escaped" /\ LitAt(s, a) = <<>>
      BY <1>3, <1>7, <2>1, <2>5 DEF NextMode, Literal, Back, Single, Double
    <3>2. Word(s, p, a) = r.buffer
      BY <1>5, <2>1, <3>1, ConcatEmptySeq
    <3>3. ScanStep(s, r) = IF next = Nul THEN Keep(1, <<>>) ELSE Keep(2, <<next>>)
      BY <1>8, <2>2, <2>5 DEF ScanStep, Back, Single, Double
    <3>4. CASE a = Len(s)
      <4>1. ScanStep(s, r) = Keep(1, <<>>)
        BY <3>3, <3>4
      <4>2. /\ Keep(1, <<>>).at = a + 1 /\ Keep(1, <<>>).state = "outside"
            /\ Keep(1, <<>>).buffer = r.buffer \o <<>>
        BY <2>5 DEF ScanState
      <4> HIDE DEF Keep
      <4>3. r.buffer \o <<>> = r.buffer
        BY <1>8, ConcatEmptySeq
      <4>4. (a + 1) - 1 = a /\ a + 1 \in p .. e + 1 /\ a + 1 >= p + (k + 1) /\ e = Len(s)
        BY <1>1, <1>2, <3>4
      <4>5. Cut(s, p, e, Keep(1, <<>>))
        BY <3>1, <3>2, <3>4, <4>2, <4>3, <4>4 DEF Cut
      <4> QED BY <4>1, <4>2, <4>4, <4>5 DEF Scanning
    <3>5. CASE a < Len(s)
      <4>1. next = s[a + 1] /\ s[a + 1] \in Text
        BY <1>2, <3>5
      <4>2. ScanStep(s, r) = Keep(2, <<s[a + 1]>>)
        BY <3>3, <4>1, CharsFacts
      <4>3. M[a + 2] = "outside" /\ LitAt(s, a + 1) = <<s[a + 1]>>
        BY <1>4, <1>7, <3>1, <3>5 DEF NextMode, Literal
      <4> HIDE DEF Keep
      <4> QED BY <1>6, <1>12, <2>5, <3>1, <3>2, <3>5, <4>2, <4>3
    <3> QED BY <1>2, <3>4, <3>5
  <2>6. CASE r.state = "outside" /\ c \notin {Single, Double, Back}
    <3>1. M[a + 1] = "outside" /\ LitAt(s, a) = <<c>>
      BY <1>3, <1>7, <2>1, <2>6 DEF NextMode, Literal
    <3>2. ScanStep(s, r) = Keep(1, <<c>>)
      BY <1>8, <2>2, <2>6 DEF ScanStep
    <3> HIDE DEF Keep
    <3> QED BY <1>5, <1>11, <2>1, <2>6, <3>1, <3>2
  <2>7. CASE r.state = "single" /\ c = Single
    <3>1. M[a + 1] = "outside" /\ LitAt(s, a) = <<>>
      BY <1>3, <1>7, <2>1, <2>7 DEF NextMode, Literal
    <3>2. Word(s, p, a) = r.buffer
      BY <1>5, <2>1, <3>1, ConcatEmptySeq
    <3>3. ScanStep(s, r) = To("outside")
      BY <1>8, <2>7 DEF ScanStep
    <3> HIDE DEF To
    <3> QED BY <1>10, <3>1, <3>2, <3>3 DEF Quoting
  <2>8. CASE r.state = "single" /\ c # Single
    <3>1. M[a + 1] = "single" /\ LitAt(s, a) = <<c>>
      BY <1>3, <1>7, <2>1, <2>8 DEF NextMode, Literal
    <3>2. ScanStep(s, r) = Keep(1, <<c>>)
      BY <1>8, <2>8 DEF ScanStep
    <3> HIDE DEF Keep
    <3> QED BY <1>5, <1>11, <2>1, <2>8, <3>1, <3>2
  <2>9. CASE r.state = "double" /\ c = Double
    <3>1. M[a + 1] = "outside" /\ LitAt(s, a) = <<>>
      BY <1>3, <1>7, <2>1, <2>9 DEF NextMode, Literal, Double, Back
    <3>2. Word(s, p, a) = r.buffer
      BY <1>5, <2>1, <3>1, ConcatEmptySeq
    <3>3. ScanStep(s, r) = To("outside")
      BY <1>8, <2>9 DEF ScanStep
    <3> HIDE DEF To
    <3> QED BY <1>10, <3>1, <3>2, <3>3 DEF Quoting
  <2>10. CASE r.state = "double" /\ c = Back
    <3>1. M[a + 1] = "double_escaped" /\ LitAt(s, a) = <<>>
      BY <1>3, <1>7, <2>1, <2>10 DEF NextMode, Literal, Double, Back
    <3>2. Word(s, p, a) = r.buffer
      BY <1>5, <2>1, <3>1, ConcatEmptySeq
    <3>3. a < Len(s)
      <4>1. M[Len(s) + 1] # "double_escaped"
        BY DEF QuotesMatch
      <4> HIDE DEF a, c, M
      <4> QED BY <1>2, <3>1, <4>1 DEF M
    <3>4. next = s[a + 1] /\ s[a + 1] \in Text
      BY <1>2, <3>3
    <3>5. M[a + 2] = "double"
      BY <1>4, <3>1, <3>3 DEF NextMode
    <3>6. ScanStep(s, r) = CASE next = "n"              -> Keep(2, <<Newline>>)
                             [] next \in {Double, Back} -> Keep(2, <<next>>)
                             [] OTHER                   -> Keep(1, <<Back>>)
      BY <1>8, <2>10 DEF ScanStep, Double, Back
    <3>7. CASE next = "n"
      <4>1. ScanStep(s, r) = Keep(2, <<Newline>>) /\ LitAt(s, a + 1) = <<Newline>>
        BY <1>7, <3>1, <3>4, <3>6, <3>7 DEF Literal, Double, Back
      <4> HIDE DEF Keep
      <4> QED BY <1>6, <1>12, <2>10, <3>1, <3>2, <3>3, <3>5, <4>1
    <3>8. CASE next \in {Double, Back}
      <4>1. ScanStep(s, r) = Keep(2, <<next>>) /\ LitAt(s, a + 1) = <<next>>
        BY <1>7, <3>1, <3>4, <3>6, <3>8 DEF Literal, Double, Back
      <4> HIDE DEF Keep
      <4> QED BY <1>6, <1>12, <2>10, <3>1, <3>2, <3>3, <3>5, <4>1
    <3>9. CASE next \notin {"n", Double, Back}
      <4>1. ScanStep(s, r) = Keep(1, <<Back>>)
        BY <3>6, <3>9
      <4>2. /\ Keep(1, <<Back>>).at = a + 1 /\ Keep(1, <<Back>>).state = "double"
            /\ Keep(1, <<Back>>).buffer = r.buffer \o <<Back>>
        BY <2>10 DEF ScanState
      <4> HIDE DEF Keep
      <4>3. (a + 1) - 1 = a /\ a + 1 \in p .. e + 1 /\ a + 1 >= p + (k + 1) /\ a + 1 <= e
        <5> HIDE DEF a, c, M, next, To
        <5> QED BY <1>2, <1>9, <3>1, <3>3
      <4>4. Ahead(s, p, e, Keep(1, <<Back>>))
        BY <3>1, <3>2, <3>4, <3>9, <4>2, <4>3 DEF Ahead
      <4> QED BY <4>1, <4>2, <4>3, <4>4 DEF Scanning
    <3> QED BY <3>7, <3>8, <3>9
  <2>11. CASE r.state = "double" /\ c \notin {Double, Back}
    <3>1. M[a + 1] = "double" /\ LitAt(s, a) = <<c>>
      BY <1>3, <1>7, <2>1, <2>11 DEF NextMode, Literal
    <3>2. ScanStep(s, r) = Keep(1, <<c>>)
      BY <1>8, <2>11 DEF ScanStep
    <3> HIDE DEF Keep
    <3> QED BY <1>5, <1>11, <2>1, <2>11, <3>1, <3>2
  <2> QED BY <1>8, <2>3, <2>4, <2>5, <2>6, <2>7, <2>8, <2>9, <2>10, <2>11 DEF Quoting
<1>14. CASE Ahead(s, p, e, r)
  <2>1. /\ r.state = "double" /\ M[a] = "double_escaped" /\ c \notin {"n", Double, Back}
        /\ r.buffer = Word(s, p, a - 1) \o <<Back>>
    BY <1>14 DEF Ahead
  <2>2. M[a + 1] = "double" /\ LitAt(s, a) = <<Back, c>>
    BY <1>3, <1>7, <2>1 DEF NextMode, Literal
  <2>3. ScanStep(s, r) = Keep(1, <<c>>)
    BY <1>8, <2>1 DEF ScanStep
  <2>4. Word(s, p, a) = r.buffer \o <<c>>
    <3>1. <<Back>> \in Seq(Chars) /\ <<c>> \in Seq(Chars) /\ <<Back>> \o <<c>> = <<Back, c>>
      <4>1. Back \in Chars /\ c \in Chars
        BY <1>2, CharsFacts
      <4> HIDE DEF c
      <4> QED BY <4>1, Pair
    <3> QED BY <1>5, <2>1, <2>2, <3>1, ConcatAssociative
  <2> HIDE DEF Keep
  <2> QED BY <1>11, <2>1, <2>2, <2>3, <2>4
<1>15. ~Cut(s, p, e, r)
  BY <1>2 DEF Cut
<1> QED BY <1>13, <1>14, <1>15 DEF Scanning

LEMMA ScanRests ==
  ASSUME NEW s \in Seq(Text), NEW p \in Starts(s), NEW e, e = EndOf(s, p),
         NEW r \in ScanState(s), NEW k \in 0 .. Len(s), Scanning(s, p, e, k, r), r.at = e + 1
  PROVE  Scanning(s, p, e, k + 1, ScanStep(s, r))
<1>1. e \in 1 .. Len(s) /\ Gap(s, e + 1) /\ Len(s) \in Nat
  BY EndFacts
<1>2. ScanStep(s, r) = r
  <2>1. CASE e + 1 > Len(s)
    BY <2>1 DEF ScanStep
  <2>2. CASE ~(e + 1 > Len(s))
    <3>1. e + 1 # 0 /\ e + 1 # Len(s) + 1 /\ ~(e + 1 <= e)
      BY <1>1, <2>2
    <3>2. s[e + 1] = Blank /\ ModesOf(s)[e + 1] = "outside"
      BY <1>1, <3>1 DEF Gap
    <3>3. Plain(s, p, r)
      BY <3>1 DEF Scanning, Ahead, Cut
    <3>4. r.state = "outside"
      BY <3>2, <3>3 DEF Plain
    <3> QED BY <3>2, <3>4 DEF ScanStep
  <2> QED BY <2>1, <2>2
<1> QED BY <1>2 DEF Scanning

(* The scan from the start of a word ends behind it, with what it amounts  *)
(* to in the buffer.                                                       *)
LEMMA ScanWord ==
  ASSUME NEW s \in Seq(Text), QuotesMatch(s), NEW p \in Starts(s)
  PROVE  /\ Scan(s, p).at = EndOf(s, p) + 1 /\ Scan(s, p).state = "outside"
         /\ Scan(s, p).buffer = Word(s, p, EndOf(s, p))
<1> DEFINE e == EndOf(s, p)
           n == Len(s)
<1>1. p \in 1 .. n /\ e \in p .. n /\ n \in Nat
  BY EndFacts
<1>2. PICK g \in [0 .. n -> ScanState(s)] :
        /\ g[0] = [at |-> p, state |-> "outside", buffer |-> <<>>]
        /\ \A k \in 1 .. n : g[k] = ScanStep(s, g[k - 1])
        /\ Scan(s, p) = g[n]
  BY <1>1, ScanFacts
<1> DEFINE T == { k \in 0 .. n : Scanning(s, p, e, k, g[k]) }
<1>3. 0 \in T
  <2>1. g[0].at = p /\ g[0].state = "outside" /\ g[0].buffer = <<>>
    BY <1>2
  <2>2. ModesOf(s)[p] = "outside"
    BY <1>1, EndFacts, GapMode
  <2>3. Word(s, p, p - 1) = <<>>
    <3>1. p - 1 \in p - 1 .. Len(s)
      BY <1>1
    <3> QED BY <1>1, <3>1, WordFacts
  <2>4. p \in p .. e + 1 /\ p >= p + 0
    BY <1>1
  <2> HIDE DEF e
  <2>5. Scanning(s, p, e, 0, g[0])
    BY <2>1, <2>2, <2>3, <2>4 DEF Scanning, Plain
  <2> QED BY <1>1, <2>5
<1>4. \A k \in 0 .. n - 1 : k \in T => k + 1 \in T
  <2> TAKE k \in 0 .. n - 1
  <2> HAVE k \in T
  <2>1. k \in 0 .. Len(s) /\ k + 1 \in 0 .. n /\ k + 1 \in 1 .. n /\ (k + 1) - 1 = k
    BY <1>1
  <2>2. g[k + 1] = ScanStep(s, g[k]) /\ g[k] \in ScanState(s)
    BY <1>2, <2>1
  <2>3. Scanning(s, p, e, k, g[k])
    OBVIOUS
  <2>4. Scanning(s, p, e, k + 1, ScanStep(s, g[k]))
    BY <2>1, <2>2, <2>3, ScanAdvances, ScanRests
  <2> QED BY <2>1, <2>2, <2>4
<1> HIDE DEF T
<1>5. n \in T
  <2>1. \A k \in 0 .. n : k \in T
    BY <1>1, <1>3, <1>4, UpTo
  <2> QED BY <1>1, <2>1
<1> DEFINE r == g[n]
<1>6. Scanning(s, p, e, n, r)
  BY <1>5 DEF T
<1>7. r.at = e + 1 /\ (e + 1) - 1 = e
  BY <1>1, <1>6 DEF Scanning
<1>8. ~(r.at <= e)
  BY <1>1, <1>7
<1>9. r \in ScanState(s)
  BY <1>1, <1>2
<1> HIDE DEF r
<1>10. Plain(s, p, r) \/ Cut(s, p, e, r)
  BY <1>6, <1>8 DEF Scanning, Ahead
<1>11. r.state = "outside"
  <2>1. CASE Cut(s, p, e, r)
    BY <2>1 DEF Cut
  <2>2. CASE Plain(s, p, r) /\ e = n
    <3>1. ModesOf(s)[e + 1] \in {"outside", "escaped"}
      BY <2>2 DEF QuotesMatch
    <3> QED BY <1>7, <1>9, <2>2, <3>1 DEF Plain, ScanState, Quoting
  <2>3. CASE Plain(s, p, r) /\ e # n
    <3>1. Gap(s, e + 1) /\ e + 1 # 0 /\ e + 1 # n + 1
      BY <1>1, <2>3, EndFacts
    <3>2. ModesOf(s)[e + 1] = "outside"
      BY <3>1 DEF Gap
    <3> QED BY <1>7, <2>3, <3>2 DEF Plain
  <2> QED BY <1>10, <2>1, <2>2, <2>3
<1>12. r.buffer = Word(s, p, e)
  <2> HIDE DEF e
  <2> QED BY <1>7, <1>10 DEF Plain, Cut
<1> QED BY <1>2, <1>7, <1>11, <1>12 DEF r

-----------------------------------------------------------------------------
(* Tokens.                                                                 *)

LEMMA BlankRun ==
  ASSUME NEW s \in Seq(Text), NEW p \in 1 .. Len(s), p = 1 \/ Gap(s, p),
         NEW i \in p .. Len(s), \A k \in p .. i - 1 : s[k] = Blank
  PROVE  ModesOf(s)[i] = "outside"
<1> DEFINE n == i - p
           M == ModesOf(s)
           T == { k \in 0 .. n : M[p + k] = "outside" }
<1>1. n \in Nat /\ p + n = i /\ p \in Nat /\ p + 0 = p /\ Len(s) \in Nat
  OBVIOUS
<1>2. M[p] = "outside"
  <2>1. CASE p = 1
    BY <2>1, ModesFacts
  <2>2. CASE Gap(s, p)
    <3>1. p # 0 /\ p # Len(s) + 1
      OBVIOUS
    <3> QED BY <2>2, <3>1 DEF Gap
  <2> QED BY <2>1, <2>2
<1>3. 0 \in T
  BY <1>1, <1>2
<1>4. \A k \in 0 .. n - 1 : k \in T => k + 1 \in T
  <2> TAKE k \in 0 .. n - 1
  <2> HAVE k \in T
  <2>1. k + 1 \in 0 .. n /\ p + k \in p .. i - 1 /\ p + k \in 1 .. Len(s) /\ (p + k) + 1 = p + (k + 1)
    BY <1>1
  <2>2. M[p + (k + 1)] = NextMode("outside", Blank)
    BY <2>1, ModesFacts
  <2>3. NextMode("outside", Blank) = "outside"
    BY DEF NextMode, Blank, Back, Single, Double
  <2> QED BY <2>1, <2>2, <2>3
<1> HIDE DEF T
<1>5. n \in T
  <2>1. \A k \in 0 .. n : k \in T
    BY <1>1, <1>3, <1>4, UpTo
  <2> QED BY <1>1, <2>1
<1> QED BY <1>1, <1>5 DEF T

(* A start at p or later begins with the first symbol there that is no     *)
(* blank.                                                                  *)
LEMMA FirstSolid ==
  ASSUME NEW s \in Seq(Text), NEW p \in 1 .. Len(s), p = 1 \/ Gap(s, p),
         NEW i \in p .. Len(s), \A k \in p .. i - 1 : s[k] = Blank
  PROVE  IF s[i] = Blank THEN Gap(s, i) ELSE i \in Starts(s)
<1>1. p \in Nat /\ Len(s) \in Nat /\ i \in 1 .. Len(s) /\ i # 0 /\ i # Len(s) + 1
  OBVIOUS
<1>2. CASE s[i] = Blank
  BY <1>2, BlankRun DEF Gap
<1>3. CASE s[i] # Blank
  <2>1. ~Gap(s, i)
    BY <1>1, <1>3 DEF Gap
  <2>2. Gap(s, i - 1)
    <3>1. CASE i = 1
      BY <3>1 DEF Gap
    <3>2. CASE i # 1 /\ i = p
      BY <2>1, <3>2
    <3>3. CASE i # p
      <4>1. i - 1 \in p .. Len(s) /\ \A k \in p .. (i - 1) - 1 : k \in p .. i - 1
        BY <1>1, <3>3
      <4>2. s[i - 1] = Blank /\ i - 1 \in p .. i - 1
        BY <1>1, <3>3
      <4>3. ModesOf(s)[i - 1] = "outside"
        BY <4>1, BlankRun
      <4> QED BY <4>2, <4>3 DEF Gap
    <3> QED BY <3>1, <3>2, <3>3
  <2> QED BY <1>1, <1>3, <2>1, <2>2 DEF Starts
<1> QED BY <1>2, <1>3

LEMMA NoToken ==
  ASSUME NEW s \in Seq(Text), NEW p \in 1 .. Len(s) + 1, p = 1 \/ Gap(s, p),
         \A k \in Starts(s) : k < p
  PROVE  NextToken(s, p) = [none |-> TRUE]
<1>1. { k \in p .. Len(s) : s[k] # Blank } = {}
  <2> SUFFICES ASSUME { k \in p .. Len(s) : s[k] # Blank } # {} PROVE FALSE
    OBVIOUS
  <2> DEFINE solid == { k \in p .. Len(s) : s[k] # Blank }
  <2>1. solid \subseteq Nat /\ solid # {}
    OBVIOUS
  <2> HIDE DEF solid
  <2>2. PICK i \in solid : \A j \in solid : i <= j
    BY <2>1, LeastNat
  <2> USE DEF solid
  <2>3. p \in Nat /\ Len(s) \in Nat /\ i \in p .. Len(s) /\ p \in 1 .. Len(s) /\ s[i] # Blank
    OBVIOUS
  <2>4. \A k \in p .. i - 1 : s[k] = Blank
    <3> SUFFICES ASSUME NEW k \in p .. i - 1, s[k] # Blank PROVE FALSE
      OBVIOUS
    <3>1. k \in solid /\ ~(i <= k)
      BY <2>3
    <3> QED BY <2>2, <3>1
  <2>5. i \in Starts(s)
    BY <2>3, <2>4, FirstSolid
  <2> QED BY <2>3, <2>5
<1> QED BY <1>1 DEF NextToken

LEMMA OneToken ==
  ASSUME NEW s \in Seq(Text), QuotesMatch(s), NEW p \in 1 .. Len(s) + 1, p = 1 \/ Gap(s, p),
         NEW q \in Starts(s), q >= p, \A k \in Starts(s) : k >= p => k >= q
  PROVE  NextToken(s, p) =
           [none |-> FALSE, text |-> Word(s, q, EndOf(s, q)), next |-> EndOf(s, q) + 1]
<1> DEFINE solid == { k \in p .. Len(s) : s[k] # Blank }
<1>1. /\ q \in 1 .. Len(s) /\ q \in p .. Len(s) /\ p \in 1 .. Len(s) /\ Len(s) \in Nat /\ ~Gap(s, q)
      /\ p \in Nat
  BY DEF Starts
<1>2. solid # {}
  <2> SUFFICES ASSUME solid = {} PROVE FALSE
    OBVIOUS
  <2>1. \A k \in p .. q - 1 : s[k] = Blank
    BY <1>1
  <2>2. s[q] = Blank
    BY <1>1
  <2> QED BY <1>1, <2>1, <2>2, FirstSolid
<1>3. PICK i \in solid : \A j \in solid : i <= j
  <2>1. solid \subseteq Nat
    BY <1>1
  <2> HIDE DEF solid
  <2> QED BY <1>2, <2>1, LeastNat
<1>4. i \in p .. Len(s) /\ s[i] # Blank
  BY <1>3
<1>5. \A k \in p .. i - 1 : s[k] = Blank
  <2> SUFFICES ASSUME NEW k \in p .. i - 1, s[k] # Blank PROVE FALSE
    OBVIOUS
  <2>1. k \in solid /\ ~(i <= k)
    BY <1>1, <1>4
  <2> QED BY <1>3, <2>1
<1>6. i \in Starts(s)
  BY <1>1, <1>4, <1>5, FirstSolid
<1>7. i = q
  <2>1. q <= i
    BY <1>4, <1>6
  <2>2. ~(q < i)
    <3> SUFFICES ASSUME q < i PROVE FALSE
      OBVIOUS
    <3>1. q \in p .. i - 1 /\ \A k \in p .. q - 1 : k \in p .. i - 1
      BY <1>1, <1>4
    <3>2. s[q] = Blank /\ \A k \in p .. q - 1 : s[k] = Blank
      BY <1>5, <3>1
    <3> QED BY <1>1, <3>2, FirstSolid
  <2> QED BY <1>1, <1>4, <2>1, <2>2
<1>8. (CHOOSE k \in solid : \A j \in solid : k <= j) = q
  <2>1. \A k \in solid : (\A j \in solid : k <= j) => k = i
    <3> TAKE k \in solid
    <3> HAVE \A j \in solid : k <= j
    <3>1. k <= i /\ i <= k /\ k \in Int /\ i \in Int
      BY <1>1, <1>3, <1>4
    <3> QED BY <3>1
  <2> HIDE DEF solid
  <2> QED BY <1>3, <1>7, <2>1
<1>9. NextToken(s, p) =
        IF solid = {} \/ Scan(s, q).state # "outside" THEN [none |-> TRUE]
        ELSE [none |-> FALSE, text |-> Scan(s, q).buffer, next |-> Scan(s, q).at]
  BY <1>8 DEF NextToken
<1> HIDE DEF solid
<1> QED BY <1>2, <1>9, ScanWord

(* Where the loop over the tokens stands after j words.                    *)
Pos(s, j) == IF j = 0 THEN 1 ELSE EndOf(s, Ascending(Starts(s))[j]) + 1

LEMMA StartsFacts ==
  ASSUME NEW s \in Seq(Text)
  PROVE  /\ Starts(s) \subseteq Nat /\ Starts(s) \subseteq 1 .. Len(s) /\ IsFiniteSet(Starts(s))
         /\ Cardinality(Starts(s)) <= Len(s)
<1>1. Starts(s) \in SUBSET (1 .. Len(s)) /\ Len(s) \in Nat
  BY DEF Starts
<1> DEFINE n == Len(s)
           S == Starts(s)
<1> HIDE DEF n, S
<1>2. n \in Nat /\ S \in SUBSET (1 .. n)
  BY <1>1 DEF n, S
<1>3. IsFiniteSet(1 .. n) /\ Cardinality(1 .. n) = n
  BY <1>2, FS_Interval
<1>4. IsFiniteSet(S) /\ Cardinality(S) <= n
  BY <1>2, <1>3, FS_Subset
<1> QED BY <1>1, <1>4 DEF n, S

LEMMA WordsOfFacts ==
  ASSUME NEW s \in Seq(Text)
  PROVE  /\ WordsOf(s) \in Seq(Seq(Chars)) /\ Len(WordsOf(s)) = Cardinality(Starts(s))
         /\ Len(WordsOf(s)) \in Nat
         /\ \A j \in 1 .. Len(WordsOf(s)) :
              WordsOf(s)[j] = Word(s, Ascending(Starts(s))[j], EndOf(s, Ascending(Starts(s))[j]))
<1> DEFINE first == Ascending(Starts(s))
           n == Cardinality(Starts(s))
           C == Seq(Chars)
<1>1. first \in [1 .. n -> Starts(s)] /\ Len(first) = n /\ n \in Nat
  BY StartsFacts, AscendingFacts
<1>2. WordsOf(s) = [w \in 1 .. n |-> Word(s, first[w], EndOf(s, first[w]))]
  BY <1>1 DEF WordsOf
<1>3. \A w \in 1 .. n : Word(s, first[w], EndOf(s, first[w])) \in C
  <2> TAKE w \in 1 .. n
  <2>1. first[w] \in Starts(s)
    BY <1>1
  <2> HIDE DEF first
  <2>2. first[w] \in 1 .. Len(s) /\ EndOf(s, first[w]) \in first[w] - 1 .. Len(s)
    BY <2>1, EndFacts
  <2> QED BY <2>2, WordFacts
<1> HIDE DEF first, n, C
<1>4. WordsOf(s) \in [1 .. n -> C]
  BY <1>2, <1>3
<1>5. WordsOf(s) \in Seq(C) /\ Len(WordsOf(s)) = n
  BY <1>1, <1>4
<1> QED BY <1>1, <1>2, <1>5 DEF first, n, C

(* The first start at Pos(s, j) or later is the j + 1-st of all.           *)
LEMMA StartsBeyond ==
  ASSUME NEW s \in Seq(Text), NEW j \in 0 .. Cardinality(Starts(s)),
         NEW k \in Starts(s), k >= Pos(s, j)
  PROVE  j < Cardinality(Starts(s)) /\ k >= Ascending(Starts(s))[j + 1]
<1> DEFINE S == Starts(s)
           n == Cardinality(S)
           first == Ascending(S)
           m == Rank(S, k)
<1>1. S \subseteq Nat /\ IsFiniteSet(S)
  BY StartsFacts
<1>2. /\ n \in Nat /\ first \in [1 .. n -> S]
      /\ \A a, b \in 1 .. n : a < b => first[a] < first[b]
  BY <1>1, AscendingFacts
<1>3. m \in 1 .. n /\ first[m] = k
  BY <1>1, AscendingFacts
<1> HIDE DEF m, first, n
<1>4. m > j
  <2> SUFFICES ASSUME m <= j PROVE FALSE
    BY <1>2, <1>3 DEF n
  <2>1. j \in 1 .. n /\ j # 0
    BY <1>2, <1>3 DEF n
  <2>2. first[j] \in S /\ k <= first[j]
    <3>1. first[j] \in S /\ first[j] \in Nat /\ first[m] \in Nat
      BY <1>1, <1>2, <1>3, <2>1
    <3>2. CASE m = j
      BY <1>3, <3>1, <3>2
    <3>3. CASE m # j
      BY <1>2, <1>3, <2>1, <3>1, <3>3
    <3> QED BY <3>2, <3>3
  <2>3. Pos(s, j) = EndOf(s, first[j]) + 1
    BY <2>1 DEF Pos, first
  <2>4. EndOf(s, first[j]) \in first[j] .. Len(s) /\ first[j] \in 1 .. Len(s)
    BY <2>2, EndFacts
  <2> QED BY <1>1, <2>2, <2>3, <2>4
<1>5. j + 1 \in 1 .. n
  BY <1>2, <1>3, <1>4 DEF n
<1>6. first[j + 1] <= k
  <2>1. first[j + 1] \in Nat /\ first[m] \in Nat
    BY <1>1, <1>2, <1>3, <1>5
  <2>2. j + 1 = m \/ j + 1 < m
    BY <1>3, <1>4, <1>5
  <2> QED BY <1>2, <1>3, <1>5, <2>1, <2>2
<1>7. first[j + 1] \in Nat /\ k \in Nat /\ j \in Nat
  BY <1>1, <1>2, <1>5
<1>8. j < n /\ k >= first[j + 1]
  BY <1>2, <1>5, <1>6, <1>7
<1> QED BY <1>8 DEF n, first

LEMMA TokenAt ==
  ASSUME NEW s \in Seq(Text), QuotesMatch(s), NEW j \in 0 .. Len(WordsOf(s))
  PROVE  NextToken(s, Pos(s, j)) =
           IF j = Len(WordsOf(s)) THEN [none |-> TRUE]
           ELSE [none |-> FALSE, text |-> WordsOf(s)[j + 1], next |-> Pos(s, j + 1)]
<1> DEFINE S == Starts(s)
           n == Cardinality(S)
           first == Ascending(S)
           p == Pos(s, j)
<1>1. S \subseteq Nat /\ S \subseteq 1 .. Len(s) /\ IsFiniteSet(S)
  BY StartsFacts
<1>2. /\ n \in Nat /\ first \in [1 .. n -> S]
      /\ \A a, b \in 1 .. n : a < b => first[a] < first[b]
  BY <1>1, AscendingFacts
<1>3. /\ Len(WordsOf(s)) = n /\ j \in 0 .. n
      /\ \A i \in 1 .. n : WordsOf(s)[i] = Word(s, first[i], EndOf(s, first[i]))
  BY WordsOfFacts
<1> HIDE DEF S, n, first
<1>4. p \in 1 .. Len(s) + 1 /\ (p = 1 \/ Gap(s, p))
  <2>1. CASE j = 0
    BY <2>1 DEF Pos
  <2>2. CASE j # 0
    <3>1. first[j] \in S
      BY <1>2, <1>3, <2>2
    <3>2. p = EndOf(s, first[j]) + 1
      BY <2>2 DEF Pos, first, S
    <3>3. /\ first[j] \in 1 .. Len(s) /\ EndOf(s, first[j]) \in first[j] .. Len(s)
          /\ Gap(s, EndOf(s, first[j]) + 1)
      BY <3>1, EndFacts DEF S
    <3> HIDE DEF p
    <3> QED BY <3>2, <3>3
  <2> QED BY <2>1, <2>2
<1>5. \A k \in S : k >= p => j < n /\ k >= first[j + 1]
  BY <1>3, StartsBeyond DEF S, n, first
<1> HIDE DEF p
<1>6. CASE j = n
  <2>1. \A k \in S : k < p
    <3> SUFFICES ASSUME NEW k \in S, ~(k < p) PROVE FALSE
      OBVIOUS
    <3>1. k >= p
      BY <1>1, <1>4
    <3> QED BY <1>2, <1>5, <1>6, <3>1
  <2>2. NextToken(s, p) = [none |-> TRUE]
    BY <1>4, <2>1, NoToken DEF S
  <2> QED BY <1>3, <1>6, <2>2 DEF p
<1>7. CASE j # n
  <2>1. j + 1 \in 1 .. n /\ j + 1 # 0
    BY <1>2, <1>3, <1>7
  <2>2. first[j + 1] \in S
    BY <1>2, <2>1
  <2>3. first[j + 1] >= p
    <3>1. CASE j = 0
      <4>1. p = 1
        BY <3>1 DEF p, Pos
      <4>2. first[j + 1] \in 1 .. Len(s) /\ Len(s) \in Nat
        <5>1. Len(s) \in Nat
          OBVIOUS
        <5>2. first[j + 1] \in 1 .. Len(s)
          BY <1>1, <2>2
        <5> QED BY <5>1, <5>2
      <4> QED BY <4>1, <4>2
    <3>2. CASE j # 0
      <4>1. first[j] \in S /\ first[j] < first[j + 1] /\ j \in 1 .. n
        BY <1>2, <1>3, <2>1, <3>2
      <4>2. /\ EndOf(s, first[j]) \in first[j] .. Len(s) /\ first[j] \in 1 .. Len(s)
            /\ \A i \in first[j] .. EndOf(s, first[j]) : ~Gap(s, i)
        BY <4>1, EndFacts DEF S
      <4>3. Gap(s, first[j + 1] - 1)
        BY <2>2 DEF S, Starts
      <4>4. first[j + 1] - 1 > EndOf(s, first[j])
        <5>1. ~(first[j + 1] - 1 \in first[j] .. EndOf(s, first[j]))
          BY <4>2, <4>3
        <5>2. first[j + 1] \in Nat /\ first[j] \in Nat /\ EndOf(s, first[j]) \in Nat
          <6>1. Len(s) \in Nat
            OBVIOUS
          <6>2. first[j + 1] \in Nat /\ first[j] \in Nat
            BY <1>1, <2>2, <4>1
          <6> QED BY <4>2, <6>1, <6>2
        <5> QED BY <4>1, <5>1, <5>2
      <4>5. p = EndOf(s, first[j]) + 1
        BY <3>2 DEF p, Pos, first, S
      <4>6. first[j + 1] \in Nat /\ EndOf(s, first[j]) \in Nat
        <5>1. Len(s) \in Nat
          OBVIOUS
        <5>2. first[j + 1] \in Nat
          BY <1>1, <2>2
        <5> QED BY <4>2, <5>1, <5>2
      <4> QED BY <4>4, <4>5, <4>6
    <3> QED BY <3>1, <3>2
  <2>4. \A k \in S : k >= p => k >= first[j + 1]
    BY <1>5
  <2> DEFINE q == first[j + 1]
  <2> HIDE DEF q
  <2>5. NextToken(s, p) = [none |-> FALSE, text |-> Word(s, q, EndOf(s, q)), next |-> EndOf(s, q) + 1]
    BY <1>4, <2>2, <2>3, <2>4, OneToken DEF S, q
  <2>6. Pos(s, j + 1) = EndOf(s, q) + 1
    BY <2>1 DEF Pos, q, first, S
  <2>7. WordsOf(s)[j + 1] = Word(s, q, EndOf(s, q))
    BY <1>3, <2>1 DEF q
  <2> QED BY <1>3, <1>7, <2>5, <2>6, <2>7 DEF p
<1> QED BY <1>6, <1>7

-----------------------------------------------------------------------------
(* The command of the first j words.                                       *)

ArgsTo(w, j) == { k \in 1 .. j : w[k] \notin Operators /\ ~IsFile(w, k) }

FileTo(w, j, op) ==
  LET at == { k \in 2 .. j : w[k - 1] = op }
  IN  IF at = {} THEN NoFile ELSE w[CHOOSE k \in at : \A i \in at : i <= k]

ArgvTo(w, j) == [k \in 1 .. Len(Ascending(ArgsTo(w, j))) |-> w[Ascending(ArgsTo(w, j))[k]]]

CommandTo(w, j) ==
  [argv |-> ArgvTo(w, j), input |-> FileTo(w, j, <<Less>>),
   output |-> FileTo(w, j, <<Greater>>), error |-> FileTo(w, j, <<Two, Greater>>)]

(* Each of the first j words that is an operator has its file among them.  *)
Closed(w, j) ==
  \A k \in 1 .. j : w[k] \in Operators => k < j /\ w[k + 1] \notin Operators

LEMMA CommandIsWhole ==
  ASSUME NEW w
  PROVE  CommandOf(w) = CommandTo(w, Len(w))
BY DEF CommandOf, CommandTo, ArgvTo, ArgsTo, FileOf, FileTo

LEMMA OperatorFacts ==
  /\ <<Less>> \in Operators /\ <<Greater>> \in Operators /\ <<Two, Greater>> \in Operators
  /\ <<Less>> # <<Greater>> /\ <<Less>> # <<Two, Greater>> /\ <<Greater>> # <<Two, Greater>>
<1>1. Less # Greater
  BY DEF Less, Greater
<1>2. <<Less>>[1] = Less /\ <<Greater>>[1] = Greater
  OBVIOUS
<1>3. Len(<<Less>>) = 1 /\ Len(<<Greater>>) = 1 /\ Len(<<Two, Greater>>) = 2
  OBVIOUS
<1>4. <<Less>> # <<Greater>> /\ <<Less>> # <<Two, Greater>> /\ <<Greater>> # <<Two, Greater>>
  BY <1>1, <1>2, <1>3
<1> QED BY <1>4 DEF Operators

LEMMA ArgsFacts ==
  ASSUME NEW w, NEW j \in Nat
  PROVE  ArgsTo(w, j) \subseteq 1 .. j /\ ArgsTo(w, j) \subseteq Nat /\ IsFiniteSet(ArgsTo(w, j))
<1>1. ArgsTo(w, j) \in SUBSET (1 .. j)
  BY DEF ArgsTo
<1>2. IsFiniteSet(1 .. j)
  BY FS_Interval
<1> QED BY <1>1, <1>2, FS_Subset

LEMMA FileStays ==
  ASSUME NEW w, NEW j \in Nat, NEW m \in Nat, NEW op, j <= m,
         \A k \in j + 1 .. m : k > 1 => w[k - 1] # op
  PROVE  FileTo(w, m, op) = FileTo(w, j, op)
<1> DEFINE A(i) == { k \in 2 .. i : w[k - 1] = op }
<1>1. A(m) = A(j)
  <2>1. \A k \in 2 .. m : w[k - 1] = op => k \in 2 .. j
    <3> SUFFICES ASSUME NEW k \in 2 .. m, w[k - 1] = op, k \notin 2 .. j PROVE FALSE
      OBVIOUS
    <3>1. k \in j + 1 .. m /\ k > 1
      OBVIOUS
    <3> QED BY <3>1
  <2>2. \A k \in 2 .. j : k \in 2 .. m
    OBVIOUS
  <2> QED BY <2>1, <2>2
<1>2. \A i : FileTo(w, i, op) =
        IF A(i) = {} THEN NoFile ELSE w[CHOOSE k \in A(i) : \A l \in A(i) : l <= k]
  BY DEF FileTo
<1> HIDE DEF A
<1> QED BY <1>1, <1>2

LEMMA FileIsLast ==
  ASSUME NEW w, NEW m \in Nat, m > 1, NEW op, w[m - 1] = op
  PROVE  FileTo(w, m, op) = w[m]
<1> DEFINE at == { k \in 2 .. m : w[k - 1] = op }
<1>1. m \in at /\ \A k \in at : k <= m /\ k \in Nat
  OBVIOUS
<1>2. \A k \in at : (\A i \in at : i <= k) => k = m
  <2> TAKE k \in at
  <2> HAVE \A i \in at : i <= k
  <2>1. m <= k /\ k <= m /\ k \in Nat
    BY <1>1
  <2> QED BY <2>1
<1> HIDE DEF at
<1>3. (CHOOSE k \in at : \A i \in at : i <= k) = m
  BY <1>1, <1>2
<1> QED BY <1>1, <1>3 DEF FileTo, at

(* A word that is neither an operator nor a file is an argument.           *)
LEMMA ArgumentAdded ==
  ASSUME NEW w \in Seq(Seq(Chars)), NEW j \in 0 .. Len(w) - 1, Closed(w, j),
         w[j + 1] \notin Operators
  PROVE  /\ Closed(w, j + 1)
         /\ CommandTo(w, j + 1) =
              [CommandTo(w, j) EXCEPT !.argv = Append(CommandTo(w, j).argv, w[j + 1])]
<1> DEFINE S == ArgsTo(w, j)
           a == Ascending(S)
           n == Cardinality(S)
           C == Seq(Chars)
<1>1. j \in Nat /\ Len(w) \in Nat /\ j + 1 \in 1 .. Len(w)
  OBVIOUS
<1>2. j > 0 => w[j] \notin Operators
  <2> SUFFICES ASSUME j > 0, w[j] \in Operators PROVE FALSE
    OBVIOUS
  <2>1. j \in 1 .. j /\ ~(j < j)
    BY <1>1
  <2> QED BY <2>1 DEF Closed
<1>3. Closed(w, j + 1)
  <2> SUFFICES ASSUME NEW k \in 1 .. j + 1, w[k] \in Operators
               PROVE  k < j + 1 /\ w[k + 1] \notin Operators
    BY DEF Closed
  <2>1. k \in 1 .. j
    BY <1>1
  <2> QED BY <1>1, <2>1 DEF Closed
<1>4. ArgsTo(w, j + 1) = S \cup {j + 1}
  <2>1. ~IsFile(w, j + 1)
    <3>1. (j + 1) - 1 = j /\ (j + 1 > 1 => j > 0)
      BY <1>1
    <3> QED BY <1>2, <3>1 DEF IsFile
  <2>2. \A k : k \in 1 .. j + 1 <=> k \in 1 .. j \/ k = j + 1
    BY <1>1
  <2> QED BY <2>1, <2>2 DEF ArgsTo
<1>5. S \subseteq 1 .. j /\ S \subseteq Nat /\ IsFiniteSet(S)
  BY <1>1, ArgsFacts
<1>6. \A x \in S : x < j + 1
  BY <1>1, <1>5
<1>7. a \in [1 .. n -> S] /\ Len(a) = n /\ n \in Nat
  BY <1>5, AscendingFacts
<1>8. Ascending(ArgsTo(w, j + 1)) = Append(a, j + 1)
  <2> HIDE DEF S
  <2>1. j + 1 \in Nat
    BY <1>1
  <2>2. Ascending(S \cup {j + 1}) = Append(Ascending(S), j + 1)
    BY <1>5, <1>6, <2>1, AscendingAppend
  <2> QED BY <1>4, <2>2
<1> HIDE DEF S, a, n, C
<1>9. /\ Len(Append(a, j + 1)) = n + 1 /\ \A k \in 1 .. n : Append(a, j + 1)[k] = a[k]
      /\ Append(a, j + 1)[n + 1] = j + 1
  <2>1. a \in Seq(Nat)
    <3>1. a \in [1 .. n -> Nat]
      BY <1>5, <1>7
    <3> QED BY <1>7, <3>1
  <2> QED BY <1>1, <1>7, <2>1, AppendProperties
<1>10. ArgvTo(w, j + 1) = Append(ArgvTo(w, j), w[j + 1])
  <2> DEFINE v == ArgvTo(w, j)
             u == ArgvTo(w, j + 1)
  <2>1. \A k \in 1 .. Len(w) : w[k] \in C
    BY DEF C
  <2>2. v = [k \in 1 .. n |-> w[a[k]]]
    BY <1>7 DEF ArgvTo, a, S
  <2>3. u = [k \in 1 .. n + 1 |-> w[Append(a, j + 1)[k]]]
    BY <1>8, <1>9 DEF ArgvTo
  <2>4. \A k \in 1 .. n : a[k] \in 1 .. Len(w)
    <3> TAKE k \in 1 .. n
    <3>1. a[k] \in 1 .. j
      BY <1>5, <1>7
    <3> QED BY <1>1, <3>1
  <2>5. v \in [1 .. n -> C]
    BY <2>1, <2>2, <2>4
  <2>6. v \in Seq(C) /\ Len(v) = n
    BY <1>7, <2>5
  <2>7. /\ Append(v, w[j + 1]) \in Seq(C) /\ Len(Append(v, w[j + 1])) = n + 1
        /\ \A k \in 1 .. n : Append(v, w[j + 1])[k] = v[k]
        /\ Append(v, w[j + 1])[n + 1] = w[j + 1]
    BY <1>1, <2>1, <2>6, AppendProperties
  <2> HIDE DEF u, v
  <2>8. \A k \in 1 .. n + 1 : u[k] = Append(v, w[j + 1])[k]
    <3> TAKE k \in 1 .. n + 1
    <3>1. CASE k \in 1 .. n
      BY <1>9, <2>2, <2>3, <2>7, <3>1
    <3>2. CASE k = n + 1
      BY <1>9, <2>3, <2>7, <3>2
    <3>3. k \in 1 .. n \/ k = n + 1
      BY <1>7
    <3> QED BY <3>1, <3>2, <3>3
  <2>9. u \in Seq(C) /\ Len(u) = n + 1
    <3>1. \A k \in 1 .. n + 1 : u[k] \in C
      <4> TAKE k \in 1 .. n + 1
      <4>1. k \in 1 .. Len(Append(v, w[j + 1]))
        BY <2>7
      <4>2. Append(v, w[j + 1])[k] \in C
        BY <2>7, <4>1, ElementOfSeq
      <4> QED BY <2>8, <4>2
    <3>2. u \in [1 .. n + 1 -> C]
      BY <2>3, <3>1
    <3> QED BY <1>7, <3>2
  <2>10. u = Append(v, w[j + 1])
    BY <2>7, <2>8, <2>9, SeqEqual
  <2> QED BY <2>10 DEF u, v
<1>11. \A op \in Operators : FileTo(w, j + 1, op) = FileTo(w, j, op)
  <2> TAKE op \in Operators
  <2>1. \A k \in j + 1 .. j + 1 : k > 1 => w[k - 1] # op
    <3> TAKE k \in j + 1 .. j + 1
    <3>1. k - 1 = j /\ (k > 1 => j > 0)
      BY <1>1
    <3> QED BY <1>2, <3>1
  <2>2. j + 1 \in Nat /\ j <= j + 1
    BY <1>1
  <2> QED BY <1>1, <2>1, <2>2, FileStays
<1>12. CommandTo(w, j).argv = ArgvTo(w, j)
  BY DEF CommandTo
<1>13. CommandTo(w, j + 1) = [CommandTo(w, j) EXCEPT !.argv = ArgvTo(w, j + 1)]
  BY <1>11, OperatorFacts DEF CommandTo
<1> QED BY <1>3, <1>10, <1>12, <1>13

(* An operator and the word behind it redirect.                            *)
LEMMA FileAdded ==
  ASSUME NEW w \in Seq(Seq(Chars)), NEW j \in 0 .. Len(w) - 2, Closed(w, j),
         w[j + 1] \in Operators, w[j + 2] \notin Operators
  PROVE  /\ Closed(w, j + 2)
         /\ CommandTo(w, j + 2) = Redirected(CommandTo(w, j), w[j + 1], w[j + 2])
<1> DEFINE op == w[j + 1]
<1>1. j \in Nat /\ j + 2 \in Nat /\ (j + 2) - 1 = j + 1 /\ j + 2 > 1 /\ j <= j + 2
  OBVIOUS
<1>2. j > 0 => w[j] \notin Operators
  <2> SUFFICES ASSUME j > 0, w[j] \in Operators PROVE FALSE
    OBVIOUS
  <2>1. j \in 1 .. j /\ ~(j < j)
    BY <1>1
  <2> QED BY <2>1 DEF Closed
<1>3. Closed(w, j + 2)
  <2> SUFFICES ASSUME NEW k \in 1 .. j + 2, w[k] \in Operators
               PROVE  k < j + 2 /\ w[k + 1] \notin Operators
    BY DEF Closed
  <2>1. k \in 1 .. j \/ k = j + 1
    BY <1>1
  <2>2. CASE k = j + 1
    <3>1. (j + 1) + 1 = j + 2 /\ j + 1 < j + 2
      BY <1>1
    <3> QED BY <2>2, <3>1
  <2>3. CASE k \in 1 .. j
    BY <1>1, <2>3 DEF Closed
  <2> QED BY <2>1, <2>2, <2>3
<1>4. ArgsTo(w, j + 2) = ArgsTo(w, j)
  <2>1. IsFile(w, j + 2)
    BY <1>1 DEF IsFile
  <2>2. \A k : k \in 1 .. j + 2 <=> k \in 1 .. j \/ k = j + 1 \/ k = j + 2
    BY <1>1
  <2> QED BY <2>1, <2>2 DEF ArgsTo
<1>5. ArgvTo(w, j + 2) = ArgvTo(w, j)
  BY <1>4 DEF ArgvTo
<1>6. FileTo(w, j + 2, op) = w[j + 2]
  BY <1>1, FileIsLast
<1>7. \A o \in Operators : o # op => FileTo(w, j + 2, o) = FileTo(w, j, o)
  <2> TAKE o \in Operators
  <2> HAVE o # op
  <2>1. \A k \in j + 1 .. j + 2 : k > 1 => w[k - 1] # o
    <3> TAKE k \in j + 1 .. j + 2
    <3>1. k = j + 1 \/ k = j + 2
      BY <1>1
    <3>2. CASE k = j + 1
      <4>1. k - 1 = j /\ (k > 1 => j > 0)
        BY <1>1, <3>2
      <4> QED BY <1>2, <4>1
    <3>3. CASE k = j + 2
      BY <1>1, <3>3
    <3> QED BY <3>1, <3>2, <3>3
  <2> QED BY <1>1, <2>1, FileStays
<1>8. CommandTo(w, j + 2) = Redirected(CommandTo(w, j), op, w[j + 2])
  <2>1. op \in {<<Less>>, <<Greater>>, <<Two, Greater>>}
    BY DEF Operators
  <2> HIDE DEF op
  <2>2. CASE op = <<Less>>
    <3>1. /\ FileTo(w, j + 2, <<Greater>>) = FileTo(w, j, <<Greater>>)
          /\ FileTo(w, j + 2, <<Two, Greater>>) = FileTo(w, j, <<Two, Greater>>)
          /\ FileTo(w, j + 2, <<Less>>) = w[j + 2]
      BY <1>6, <1>7, <2>2, OperatorFacts
    <3>2. Redirected(CommandTo(w, j), op, w[j + 2]) = [CommandTo(w, j) EXCEPT !.input = w[j + 2]]
      BY <2>2, OperatorFacts DEF Redirected
    <3> QED BY <1>5, <3>1, <3>2 DEF CommandTo
  <2>3. CASE op = <<Greater>>
    <3>1. /\ FileTo(w, j + 2, <<Less>>) = FileTo(w, j, <<Less>>)
          /\ FileTo(w, j + 2, <<Two, Greater>>) = FileTo(w, j, <<Two, Greater>>)
          /\ FileTo(w, j + 2, <<Greater>>) = w[j + 2]
      BY <1>6, <1>7, <2>3, OperatorFacts
    <3>2. Redirected(CommandTo(w, j), op, w[j + 2]) = [CommandTo(w, j) EXCEPT !.output = w[j + 2]]
      BY <2>3, OperatorFacts DEF Redirected
    <3> QED BY <1>5, <3>1, <3>2 DEF CommandTo
  <2>4. CASE op = <<Two, Greater>>
    <3>1. /\ FileTo(w, j + 2, <<Less>>) = FileTo(w, j, <<Less>>)
          /\ FileTo(w, j + 2, <<Greater>>) = FileTo(w, j, <<Greater>>)
          /\ FileTo(w, j + 2, <<Two, Greater>>) = w[j + 2]
      BY <1>6, <1>7, <2>4, OperatorFacts
    <3>2. Redirected(CommandTo(w, j), op, w[j + 2]) = [CommandTo(w, j) EXCEPT !.error = w[j + 2]]
      BY <2>4, OperatorFacts DEF Redirected
    <3> QED BY <1>5, <3>1, <3>2 DEF CommandTo
  <2> QED BY <2>1, <2>2, <2>3, <2>4
<1> QED BY <1>3, <1>8

(* The loop over the tokens after j words.                                 *)
AfterWords(s, j, over, error) ==
  [at |-> Pos(s, j), cmd |-> CommandTo(WordsOf(s), j), over |-> over, error |-> error]

LEMMA TokenStepFacts ==
  ASSUME NEW s \in Seq(Text), QuotesMatch(s), NEW w, w = WordsOf(s), NEW j \in 0 .. Len(w),
         Closed(w, j), NEW over \in BOOLEAN, NEW error \in BOOLEAN
  PROVE  /\ over \/ j = Len(w) =>
              TokenStep(s, AfterWords(s, j, over, error)) = AfterWords(s, j, TRUE, error)
         /\ ~over /\ j < Len(w) /\ w[j + 1] \notin Operators =>
              /\ Closed(w, j + 1)
              /\ TokenStep(s, AfterWords(s, j, over, error)) = AfterWords(s, j + 1, over, error)
         /\ ~over /\ j < Len(w) /\ w[j + 1] \in Operators =>
              IF j + 1 = Len(w) \/ w[j + 2] \in Operators
              THEN TokenStep(s, AfterWords(s, j, over, error)) = AfterWords(s, j, TRUE, TRUE)
              ELSE /\ Closed(w, j + 2)
                   /\ TokenStep(s, AfterWords(s, j, over, error)) = AfterWords(s, j + 2, over, error)
<1> DEFINE l == AfterWords(s, j, over, error)
           t == NextToken(s, l.at)
           file == NextToken(s, t.next)
<1>1. /\ w \in Seq(Seq(Chars)) /\ Len(w) \in Nat /\ j \in Nat
      /\ l.at = Pos(s, j) /\ l.cmd = CommandTo(w, j) /\ l.over = over
  BY WordsOfFacts DEF AfterWords
<1>2. t = IF j = Len(w) THEN [none |-> TRUE]
          ELSE [none |-> FALSE, text |-> w[j + 1], next |-> Pos(s, j + 1)]
  BY <1>1, TokenAt
<1>3. j < Len(w) => file = IF j + 1 = Len(w) THEN [none |-> TRUE]
                           ELSE [none |-> FALSE, text |-> w[j + 2], next |-> Pos(s, j + 2)]
  <2> SUFFICES ASSUME j < Len(w)
               PROVE  file = IF j + 1 = Len(w) THEN [none |-> TRUE]
                             ELSE [none |-> FALSE, text |-> w[j + 2], next |-> Pos(s, j + 2)]
    OBVIOUS
  <2>1. j + 1 \in 0 .. Len(w) /\ (j + 1) + 1 = j + 2 /\ j # Len(w)
    BY <1>1
  <2>2. t.next = Pos(s, j + 1)
    BY <1>2, <2>1
  <2> QED BY <2>1, <2>2, TokenAt
<1>4. TokenStep(s, l) =
        IF l.over \/ t.none THEN [l EXCEPT !.over = TRUE]
        ELSE IF t.text \notin Operators
        THEN [l EXCEPT !.at = t.next, !.cmd.argv = Append(@, t.text)]
        ELSE IF file.none \/ file.text \in Operators
        THEN [l EXCEPT !.over = TRUE, !.error = TRUE]
        ELSE [l EXCEPT !.at = file.next, !.cmd = Redirected(@, t.text, file.text)]
  BY DEF TokenStep
<1> HIDE DEF t, file
<1>5. ASSUME over \/ j = Len(w)
      PROVE  TokenStep(s, l) = AfterWords(s, j, TRUE, error)
  <2>1. TokenStep(s, l) = [l EXCEPT !.over = TRUE]
    <3> HIDE DEF l
    <3> QED BY <1>1, <1>2, <1>4, <1>5
  <2> QED BY <2>1 DEF AfterWords
<1>6. ASSUME ~over, j < Len(w), w[j + 1] \notin Operators
      PROVE  Closed(w, j + 1) /\ TokenStep(s, l) = AfterWords(s, j + 1, over, error)
  <2>1. j # Len(w) /\ j \in 0 .. Len(w) - 1
    BY <1>1, <1>6
  <2>2. ~t.none /\ t.text = w[j + 1] /\ t.next = Pos(s, j + 1)
    BY <1>2, <2>1
  <2>3. TokenStep(s, l) = [l EXCEPT !.at = Pos(s, j + 1), !.cmd.argv = Append(@, w[j + 1])]
    <3> HIDE DEF l
    <3> QED BY <1>1, <1>4, <1>6, <2>2
  <2>4. /\ Closed(w, j + 1)
        /\ CommandTo(w, j + 1) =
             [CommandTo(w, j) EXCEPT !.argv = Append(CommandTo(w, j).argv, w[j + 1])]
    BY <1>1, <1>6, <2>1, ArgumentAdded
  <2> QED BY <2>3, <2>4 DEF AfterWords
<1>7. ASSUME ~over, j < Len(w), w[j + 1] \in Operators
      PROVE  IF j + 1 = Len(w) \/ w[j + 2] \in Operators
             THEN TokenStep(s, l) = AfterWords(s, j, TRUE, TRUE)
             ELSE Closed(w, j + 2) /\ TokenStep(s, l) = AfterWords(s, j + 2, over, error)
  <2>1. j # Len(w)
    BY <1>1, <1>7
  <2>2. ~t.none /\ t.text = w[j + 1]
    BY <1>2, <2>1
  <2>3. TokenStep(s, l) =
          IF file.none \/ file.text \in Operators THEN [l EXCEPT !.over = TRUE, !.error = TRUE]
          ELSE [l EXCEPT !.at = file.next, !.cmd = Redirected(@, w[j + 1], file.text)]
    <3> HIDE DEF l
    <3> QED BY <1>1, <1>4, <1>7, <2>2
  <2>4. CASE j + 1 = Len(w) \/ w[j + 2] \in Operators
    <3>1. file.none \/ file.text \in Operators
      BY <1>3, <1>7, <2>4
    <3>2. TokenStep(s, l) = [l EXCEPT !.over = TRUE, !.error = TRUE]
      BY <2>3, <3>1
    <3> QED BY <2>4, <3>2 DEF AfterWords
  <2>5. CASE ~(j + 1 = Len(w) \/ w[j + 2] \in Operators)
    <3>1. ~file.none /\ file.text = w[j + 2] /\ file.next = Pos(s, j + 2)
      BY <1>3, <1>7, <2>5
    <3>2. TokenStep(s, l) = [l EXCEPT !.at = Pos(s, j + 2), !.cmd = Redirected(@, w[j + 1], w[j + 2])]
      <4> HIDE DEF l
      <4> QED BY <2>3, <2>5, <3>1
    <3>3. j \in 0 .. Len(w) - 2
      BY <1>1, <1>7, <2>5
    <3>4. Closed(w, j + 2) /\ CommandTo(w, j + 2) = Redirected(CommandTo(w, j), w[j + 1], w[j + 2])
      BY <1>1, <1>7, <2>5, <3>3, FileAdded
    <3> QED BY <2>5, <3>2, <3>4 DEF AfterWords
  <2> QED BY <2>4, <2>5
<1> HIDE DEF l
<1> QED BY <1>5, <1>6, <1>7 DEF l

LEMMA NothingRead ==
  ASSUME NEW w
  PROVE  CommandTo(w, 0) = NoCommand /\ Closed(w, 0)
<1>1. ArgsTo(w, 0) = {}
  BY DEF ArgsTo
<1>2. Len(Ascending({})) = 0
  <2>1. {} \subseteq Nat /\ IsFiniteSet({}) /\ Cardinality({}) = 0
    BY FS_EmptySet
  <2> QED BY <2>1, AscendingFacts
<1>3. ArgvTo(w, 0) = <<>>
  BY <1>1, <1>2 DEF ArgvTo
<1>4. \A op : FileTo(w, 0, op) = NoFile
  <2> TAKE op
  <2>1. { k \in 2 .. 0 : w[k - 1] = op } = {}
    OBVIOUS
  <2> QED BY <2>1 DEF FileTo
<1> QED BY <1>3, <1>4 DEF CommandTo, NoCommand, Closed

(* A segment is read to its end, unless a file is missing.                 *)
LEMMA ParseTokensFacts ==
  ASSUME NEW s \in Seq(Text), QuotesMatch(s), NEW w, w = WordsOf(s)
  PROVE  IF Closed(w, Len(w))
         THEN ParseTokens(s).error = FALSE /\ ParseTokens(s).cmd = CommandOf(w)
         ELSE ParseTokens(s).error = TRUE
<1> DEFINE n == Len(s)
           m == Len(w)
           A(j, o, e) == AfterWords(s, j, o, e)
           J == { j \in 0 .. m : Closed(w, j) }
           S == { A(x[1], x[2], x[3]) : x \in J \X BOOLEAN \X BOOLEAN }
           x0 == [at |-> 1, cmd |-> NoCommand, over |-> FALSE, error |-> FALSE]
           run[k \in 0 .. Len(s)] ==
             IF k = 0 THEN [at |-> 1, cmd |-> NoCommand, over |-> FALSE, error |-> FALSE]
             ELSE TokenStep(s, run[k - 1])
           IsRun(g) == g = [k \in 0 .. Len(s) |->
             IF k = 0 THEN [at |-> 1, cmd |-> NoCommand, over |-> FALSE, error |-> FALSE]
             ELSE TokenStep(s, g[k - 1])]
           F == [k \in 1 .. n |-> [r \in S |-> TokenStep(s, r)]]
<1>1. n \in Nat /\ m \in Nat /\ m <= n
  <2>1. n \in Nat
    OBVIOUS
  <2>2. m \in Nat /\ m = Cardinality(Starts(s))
    BY WordsOfFacts
  <2> QED BY <2>1, <2>2, StartsFacts
<1>2. ParseTokens(s) = run[n]
  BY DEF ParseTokens
<1>3. \A j \in J, o \in BOOLEAN, e \in BOOLEAN : A(j, o, e) \in S
  <2> TAKE j \in J, o \in BOOLEAN, e \in BOOLEAN
  <2>1. <<j, o, e>> \in J \X BOOLEAN \X BOOLEAN
    OBVIOUS
  <2> HIDE DEF A, J
  <2>2. A(<<j, o, e>>[1], <<j, o, e>>[2], <<j, o, e>>[3]) \in S
    BY <2>1
  <2> QED BY <2>2
<1>4. \A r \in S : \E j \in J, o \in BOOLEAN, e \in BOOLEAN : r = A(j, o, e)
  <2> HIDE DEF A, J
  <2> TAKE r \in S
  <2>1. PICK x \in J \X BOOLEAN \X BOOLEAN : r = A(x[1], x[2], x[3])
    OBVIOUS
  <2>2. x[1] \in J /\ x[2] \in BOOLEAN /\ x[3] \in BOOLEAN
    BY <2>1
  <2> QED BY <2>1, <2>2
<1>5. x0 = A(0, FALSE, FALSE) /\ 0 \in J
  <2>1. 0 \in J
    BY <1>1, NothingRead
  <2>2. x0 = A(0, FALSE, FALSE)
    BY NothingRead DEF AfterWords, Pos
  <2> QED BY <2>1, <2>2
<1> HIDE DEF x0
(* A step, in the terms of its lemma.                                      *)
<1>6. ASSUME NEW j \in J, NEW o \in BOOLEAN, NEW e \in BOOLEAN
      PROVE  /\ o \/ j = m => TokenStep(s, A(j, o, e)) = A(j, TRUE, e)
             /\ ~o /\ j < m /\ w[j + 1] \notin Operators =>
                  j + 1 \in J /\ TokenStep(s, A(j, o, e)) = A(j + 1, o, e)
             /\ ~o /\ j < m /\ w[j + 1] \in Operators =>
                  IF j + 1 = m \/ w[j + 2] \in Operators
                  THEN TokenStep(s, A(j, o, e)) = A(j, TRUE, TRUE)
                  ELSE j + 2 \in J /\ TokenStep(s, A(j, o, e)) = A(j + 2, o, e)
  <2>1. j \in 0 .. m /\ Closed(w, j)
    OBVIOUS
  <2>2. j < m => j + 1 \in 0 .. m
    BY <1>1, <2>1
  <2>3. j < m /\ j + 1 # m => j + 2 \in 0 .. m
    BY <1>1, <2>1
  <2>4. /\ o \/ j = m => TokenStep(s, A(j, o, e)) = A(j, TRUE, e)
        /\ ~o /\ j < m /\ w[j + 1] \notin Operators =>
             Closed(w, j + 1) /\ TokenStep(s, A(j, o, e)) = A(j + 1, o, e)
        /\ ~o /\ j < m /\ w[j + 1] \in Operators =>
             IF j + 1 = m \/ w[j + 2] \in Operators
             THEN TokenStep(s, A(j, o, e)) = A(j, TRUE, TRUE)
             ELSE Closed(w, j + 2) /\ TokenStep(s, A(j, o, e)) = A(j + 2, o, e)
    <3> HIDE DEF J, S, x0, F
    <3>1. j \in 0 .. Len(w) /\ Closed(w, j) /\ o \in BOOLEAN /\ e \in BOOLEAN
      BY <2>1
    <3> QED BY <3>1, TokenStepFacts
  <2>5. \A i : i \in J <=> i \in 0 .. m /\ Closed(w, i)
    OBVIOUS
  <2> HIDE DEF m, A, J, S, F
  <2> QED BY <2>2, <2>3, <2>4, <2>5
<1> HIDE DEF S, F, J, A
<1>7. \A r \in S : TokenStep(s, r) \in S
  <2> TAKE r \in S
  <2>1. PICK j \in J, o \in BOOLEAN, e \in BOOLEAN : r = A(j, o, e)
    BY <1>4
  <2>2. j \in 0 .. m
    BY DEF J
  <2>3. j = m \/ j < m
    BY <1>1, <2>2
  <2>4. TRUE \in BOOLEAN
    OBVIOUS
  <2> HIDE DEF m
  <2>5. CASE o \/ j = m
    <3>1. TokenStep(s, r) = A(j, TRUE, e)
      BY <1>6, <2>1, <2>5
    <3> QED BY <1>3, <2>4, <3>1
  <2>6. CASE ~o /\ j < m /\ w[j + 1] \notin Operators
    <3>1. j + 1 \in J /\ TokenStep(s, r) = A(j + 1, o, e)
      BY <1>6, <2>1, <2>6
    <3> QED BY <1>3, <3>1
  <2>7. CASE ~o /\ j < m /\ w[j + 1] \in Operators
    <3>1. TokenStep(s, r) = A(j, TRUE, TRUE) \/ (j + 2 \in J /\ TokenStep(s, r) = A(j + 2, o, e))
      BY <1>6, <2>1, <2>7
    <3> QED BY <1>3, <2>4, <3>1
  <2> QED BY <2>3, <2>5, <2>6, <2>7
<1>8. \A k \in 1 .. n, r \in S : F[k][r] \in S /\ F[k][r] = TokenStep(s, r)
  BY <1>7 DEF F
<1>9. PICK g \in [0 .. n -> S] : g[0] = x0 /\ \A k \in 1 .. n : g[k] = F[k][g[k - 1]]
  <2>1. KeepsTo(n, S, F)
    BY <1>8 DEF KeepsTo
  <2>2. x0 \in S
    BY <1>3, <1>5
  <2> HIDE DEF n
  <2>3. HasRun(n, S, x0, F)
    BY <1>1, <2>1, <2>2, Passes
  <2> QED BY <2>3 DEF HasRun
<1>10. \A k \in 1 .. n : g[k] = TokenStep(s, g[k - 1])
  <2> TAKE k \in 1 .. n
  <2>1. k - 1 \in 0 .. n
    BY <1>1
  <2> QED BY <1>8, <1>9, <2>1
<1>11. IsRun(g)
  <2>1. \A k \in 0 .. n : g[k] = IF k = 0 THEN x0 ELSE TokenStep(s, g[k - 1])
    BY <1>1, <1>9, <1>10
  <2> QED BY <1>9, <2>1 DEF x0
<1>12. IsRun(run)
  <2>1. run = CHOOSE g_1 : IsRun(g_1)
    BY DEF run
  <2> HIDE DEF run
  <2> QED BY <1>11, <2>1
<1> HIDE DEF run
<1>13. \A k \in 0 .. n : run[k] = IF k = 0 THEN x0 ELSE TokenStep(s, run[k - 1])
  BY <1>12 DEF x0
<1> DEFINE Read(k, j, o, e) ==
             /\ run[k] = A(j, o, e)
             /\ e => o /\ ~Closed(w, m)
             /\ ~e => (o => j = m) /\ (j >= k \/ j = m)
           T == { k \in 0 .. n : \E j \in J, o \in BOOLEAN, e \in BOOLEAN : Read(k, j, o, e) }
<1>14. 0 \in T
  <2>1. run[0] = x0
    BY <1>1, <1>13
  <2>2. Read(0, 0, FALSE, FALSE)
    BY <1>5, <2>1
  <2> HIDE DEF Read
  <2>3. FALSE \in BOOLEAN /\ 0 \in 0 .. n
    BY <1>1
  <2> QED BY <1>5, <2>2, <2>3
<1>15. \A k \in 0 .. n - 1 : k \in T => k + 1 \in T
  <2> TAKE k \in 0 .. n - 1
  <2> HAVE k \in T
  <2>1. k + 1 \in 0 .. n /\ (k + 1) - 1 = k /\ k + 1 # 0 /\ k \in Nat
    BY <1>1
  <2>2. PICK j \in J, o \in BOOLEAN, e \in BOOLEAN : Read(k, j, o, e)
    OBVIOUS
  <2>3. j \in 0 .. m /\ Closed(w, j) /\ TRUE \in BOOLEAN
    BY DEF J
  <2>4. run[k + 1] = TokenStep(s, A(j, o, e))
    BY <1>13, <2>1, <2>2
  <2> SUFFICES \E i \in J, p \in BOOLEAN, f \in BOOLEAN : Read(k + 1, i, p, f)
    BY <2>1
  <2>5. j = m \/ j < m
    BY <1>1, <2>3
  <2>6. CASE o \/ j = m
    <3>1. run[k + 1] = A(j, TRUE, e)
      BY <1>6, <2>4, <2>6
    <3>2. Read(k + 1, j, TRUE, e)
      BY <2>2, <2>6, <3>1
    <3> HIDE DEF Read
    <3> QED BY <2>3, <3>2
  <2>7. CASE ~o /\ j < m /\ w[j + 1] \notin Operators
    <3>1. j + 1 \in J /\ run[k + 1] = A(j + 1, o, e)
      BY <1>6, <2>4, <2>7
    <3>2. j >= k => j + 1 >= k + 1
      BY <2>1, <2>3
    <3>3. Read(k + 1, j + 1, o, e)
      BY <1>1, <2>2, <2>3, <2>7, <3>1, <3>2
    <3> HIDE DEF Read
    <3> QED BY <3>1, <3>3
  <2>8. CASE ~o /\ j < m /\ w[j + 1] \in Operators /\ (j + 1 = m \/ w[j + 2] \in Operators)
    <3>1. run[k + 1] = A(j, TRUE, TRUE)
      BY <1>6, <2>4, <2>8
    <3>2. ~Closed(w, m)
      <4>1. j + 1 \in 1 .. m /\ (j + 1) + 1 = j + 2 /\ (j + 1 = m => ~(j + 1 < m))
        BY <1>1, <2>3, <2>8
      <4> HIDE DEF m
      <4> QED BY <2>8, <4>1 DEF Closed
    <3>3. Read(k + 1, j, TRUE, TRUE)
      BY <3>1, <3>2
    <3> HIDE DEF Read
    <3> QED BY <2>3, <3>3
  <2>9. CASE ~o /\ j < m /\ w[j + 1] \in Operators /\ ~(j + 1 = m \/ w[j + 2] \in Operators)
    <3>1. j + 2 \in J /\ run[k + 1] = A(j + 2, o, e)
      BY <1>6, <2>4, <2>9
    <3>2. j >= k => j + 2 >= k + 1
      BY <2>1, <2>3
    <3>3. Read(k + 1, j + 2, o, e)
      BY <1>1, <2>2, <2>3, <2>9, <3>1, <3>2
    <3> HIDE DEF Read
    <3> QED BY <3>1, <3>3
  <2> QED BY <2>5, <2>6, <2>7, <2>8, <2>9
<1> HIDE DEF T
<1>16. n \in T
  <2>1. \A k \in 0 .. n : k \in T
    BY <1>1, <1>14, <1>15, UpTo
  <2> QED BY <1>1, <2>1
<1>17. PICK j \in J, o \in BOOLEAN, e \in BOOLEAN : Read(n, j, o, e)
  BY <1>16 DEF T
<1>18. run[n].error = e /\ run[n].cmd = CommandTo(w, j)
  BY <1>17 DEF A, AfterWords
<1>19. j \in 0 .. m /\ Closed(w, j)
  BY DEF J
<1>20. ~e => j = m
  BY <1>1, <1>17, <1>19
<1>21. e => ~Closed(w, m)
  BY <1>17
<1> HIDE DEF m
<1> QED BY <1>2, <1>18, <1>19, <1>20, <1>21, CommandIsWhole DEF m

LEMMA ArgvFacts ==
  ASSUME NEW s \in Seq(Text), NEW w, w = WordsOf(s)
  PROVE  CommandOf(w).argv # <<>> <=>
           \E k \in 1 .. Len(w) : w[k] \notin Operators /\ ~IsFile(w, k)
<1> DEFINE m == Len(w)
           S == ArgsTo(w, m)
<1>1. m \in Nat
  BY WordsOfFacts
<1>2. S \subseteq Nat /\ IsFiniteSet(S)
  BY <1>1, ArgsFacts
<1> HIDE DEF S
<1>3. Len(Ascending(S)) = Cardinality(S) /\ Cardinality(S) \in Nat
  BY <1>2, AscendingFacts
<1>4. Cardinality(S) = 0 <=> S = {}
  BY <1>2, FS_EmptySet
<1> DEFINE v == ArgvTo(w, m)
<1>5. v = [k \in 1 .. Cardinality(S) |-> w[Ascending(S)[k]]]
  BY <1>3 DEF ArgvTo, S
<1>6. v # <<>> <=> Cardinality(S) # 0
  BY <1>3, <1>5
<1>7. CommandOf(w).argv = v
  BY CommandIsWhole DEF CommandTo
<1>8. S # {} <=> \E k \in 1 .. Len(w) : w[k] \notin Operators /\ ~IsFile(w, k)
  BY DEF S, ArgsTo
<1> HIDE DEF v
<1> QED BY <1>4, <1>6, <1>7, <1>8

(* What a segment is read as.                                              *)
LEMMA SegmentFacts ==
  ASSUME NEW s \in Seq(Text), QuotesMatch(s)
  PROVE  /\ WellFormed(WordsOf(s)) =>
              /\ s # <<>> /\ ~ParseTokens(s).error
              /\ ParseTokens(s).cmd = CommandOf(WordsOf(s)) /\ ParseTokens(s).cmd.argv # <<>>
         /\ ~WellFormed(WordsOf(s)) => ParseTokens(s).error \/ ParseTokens(s).cmd.argv = <<>>
<1> DEFINE w == WordsOf(s)
           Args == \E k \in 1 .. Len(w) : w[k] \notin Operators /\ ~IsFile(w, k)
<1>1. WellFormed(w) <=> Closed(w, Len(w)) /\ Args
  BY DEF WellFormed, Closed
<1>2. IF Closed(w, Len(w)) THEN ParseTokens(s).error = FALSE /\ ParseTokens(s).cmd = CommandOf(w)
      ELSE ParseTokens(s).error = TRUE
  BY ParseTokensFacts
<1>3. CommandOf(w).argv # <<>> <=> Args
  BY ArgvFacts
<1>4. Args => s # <<>>
  <2> SUFFICES ASSUME Args, s = <<>> PROVE FALSE
    OBVIOUS
  <2>1. Len(w) <= Len(s) /\ Len(w) \in Nat /\ Len(s) = 0
    BY WordsOfFacts, StartsFacts
  <2> QED BY <2>1
<1> HIDE DEF w, Args
<1> QED BY <1>1, <1>2, <1>3, <1>4 DEF w

-----------------------------------------------------------------------------
(* Segments.                                                               *)

LEMMA TrimType ==
  ASSUME NEW s \in Seq(Text)
  PROVE  Trim(s) \in Seq(Text)
<1> DEFINE solid == { k \in 1 .. Len(s) : s[k] # Blank }
           i == CHOOSE k \in solid : \A j \in solid : k <= j
           l == CHOOSE k \in solid : \A j \in solid : k >= j
<1>1. Trim(s) = IF solid = {} THEN <<>> ELSE SubSeq(s, i, l)
  BY DEF Trim
<1>2. solid \subseteq Nat /\ solid \subseteq 1 .. Len(s) /\ Len(s) \in Nat
  OBVIOUS
<1>3. CASE solid = {}
  BY <1>1, <1>3
<1>4. CASE solid # {}
  <2>1. \E k \in solid : \A j \in solid : k <= j
    <3> HIDE DEF solid
    <3> QED BY <1>2, <1>4, LeastNat
  <2>2. \E k \in solid : \A j \in solid : k >= j
    <3> DEFINE n == Len(s)
               back == { n - k : k \in solid }
    <3>1. back \subseteq Nat /\ back # {}
      BY <1>2, <1>4
    <3>2. PICK b \in back : \A j \in back : b <= j
      <4> HIDE DEF back
      <4> QED BY <3>1, LeastNat
    <3>3. PICK k \in solid : b = n - k
      OBVIOUS
    <3>4. \A j \in solid : n - k <= n - j
      BY <3>2, <3>3
    <3>5. \A j \in solid : k >= j
      <4> HIDE DEF solid
      <4> TAKE j \in solid
      <4>1. k \in Nat /\ j \in Nat /\ n \in Nat
        BY <1>2
      <4>2. n - k <= n - j
        BY <3>4
      <4> HIDE DEF n
      <4> QED BY <4>1, <4>2
    <3> QED BY <3>5
  <2> HIDE DEF solid
  <2>3. i \in solid /\ l \in solid
    BY <2>1, <2>2
  <2> HIDE DEF i, l
  <2>4. i \in 1 .. Len(s) /\ l \in 1 .. Len(s)
    BY <1>2, <2>3
  <2>5. i \in Int /\ l \in Int /\ \A k \in i .. l : s[k] \in Text
    BY <2>4
  <2>6. SubSeq(s, i, l) \in Seq(Text)
    BY <2>5, SubSeqProperties
  <2> QED BY <1>1, <1>4, <2>6
<1> QED BY <1>3, <1>4

LEMMA SegmentsType ==
  ASSUME NEW s \in Seq(Text)
  PROVE  Segments(s) \in Seq(Seq(Text))
<1> DEFINE B == { k \in 1 .. Len(s) : s[k] = Bar }
           a == Ascending(B)
           n == Cardinality(B)
           N == 0 .. Len(s) + 1
           bars == <<0>> \o a \o <<Len(s) + 1>>
           C == Seq(Text)
<1>1. Len(s) \in Nat /\ B \in SUBSET (1 .. Len(s)) /\ B \subseteq Nat
  OBVIOUS
<1>2. IsFiniteSet(B)
  <2> HIDE DEF B
  <2>1. IsFiniteSet(1 .. Len(s))
    BY <1>1, FS_Interval
  <2> QED BY <1>1, <2>1, FS_Subset
<1> HIDE DEF B
<1>3. a \in [1 .. n -> B] /\ n \in Nat
  BY <1>1, <1>2, AscendingFacts
<1> HIDE DEF a, n
<1>4. a \in Seq(N)
  <2>1. B \subseteq N
    BY <1>1
  <2>2. a \in [1 .. n -> N]
    BY <1>3, <2>1
  <2> HIDE DEF N
  <2> QED BY <1>3, <2>2
<1>5. 0 \in N /\ Len(s) + 1 \in N
  BY <1>1
<1> HIDE DEF N
<1>6. bars \in Seq(N)
  <2>1. <<0>> \in Seq(N) /\ <<Len(s) + 1>> \in Seq(N)
    BY <1>5
  <2>2. <<0>> \o a \in Seq(N)
    BY <1>4, <2>1, ConcatProperties
  <2> QED BY <2>1, <2>2, ConcatProperties
<1>7. Segments(s) = [k \in 1 .. Len(bars) - 1 |-> Trim(SubSeq(s, bars[k] + 1, bars[k + 1] - 1))]
  BY DEF Segments, a, B
<1> HIDE DEF bars
<1>8. \A k \in 1 .. Len(bars) - 1 : Trim(SubSeq(s, bars[k] + 1, bars[k + 1] - 1)) \in C
  <2> TAKE k \in 1 .. Len(bars) - 1
  <2>1. k \in 1 .. Len(bars) /\ k + 1 \in 1 .. Len(bars)
    BY <1>6
  <2>2. bars[k] \in N /\ bars[k + 1] \in N
    BY <1>6, <2>1
  <2> DEFINE i == bars[k] + 1
             l == bars[k + 1] - 1
  <2>3. i \in Int /\ l \in Int /\ i >= 1 /\ l <= Len(s)
    BY <1>1, <2>2 DEF N
  <2> HIDE DEF i, l
  <2>4. \A j \in i .. l : s[j] \in Text
    <3> TAKE j \in i .. l
    <3>1. j \in 1 .. Len(s)
      BY <1>1, <2>3
    <3> QED BY <3>1
  <2>5. SubSeq(s, i, l) \in Seq(Text)
    BY <2>3, <2>4, SubSeqProperties
  <2> QED BY <2>5, TrimType DEF i, l
<1> DEFINE m == Len(bars) - 1
<1>9. m \in Nat \/ m = -1
  BY <1>6
<1>10. Segments(s) \in [1 .. m -> C]
  BY <1>7, <1>8
<1> HIDE DEF m, C
<1>11. Segments(s) \in Seq(C)
  <2>1. CASE m \in Nat
    BY <1>10, <2>1
  <2>2. CASE m = -1
    <3>1. Segments(s) \in [1 .. 0 -> C]
      BY <1>10, <2>2
    <3> QED BY <3>1
  <2> QED BY <1>9, <2>1, <2>2
<1> QED BY <1>11 DEF C

LEMMA ParseSegmentsFacts ==
  ASSUME NEW segments \in Seq(Seq(Text)),
         \A k \in 1 .. Len(segments) : QuotesMatch(segments[k])
  PROVE  ParseSegments(segments) =
           IF \A k \in 1 .. Len(segments) : WellFormed(WordsOf(segments[k]))
           THEN [k \in 1 .. Len(segments) |-> CommandOf(WordsOf(segments[k]))]
           ELSE <<>>
<1> DEFINE n == Len(segments)
           W(k) == WordsOf(segments[k])
           Bad == \E k \in 1 .. n : ~WellFormed(W(k))
           Commands == { ParseTokens(segments[k]).cmd : k \in 1 .. n }
           S == [commands: Seq(Commands), deferred: BOOLEAN, failed: BOOLEAN]
           x0 == [commands |-> <<>>, deferred |-> FALSE, failed |-> FALSE]
           run[k \in 0 .. Len(segments)] ==
             IF k = 0 THEN [commands |-> <<>>, deferred |-> FALSE, failed |-> FALSE]
             ELSE SegmentStep(segments, k, run[k - 1])
           IsRun(g) == g = [k \in 0 .. Len(segments) |->
             IF k = 0 THEN [commands |-> <<>>, deferred |-> FALSE, failed |-> FALSE]
             ELSE SegmentStep(segments, k, g[k - 1])]
           F == [k \in 1 .. n |-> [r \in S |-> SegmentStep(segments, k, r)]]
<1>1. n \in Nat /\ \A k \in 1 .. n : segments[k] \in Seq(Text) /\ QuotesMatch(segments[k])
  OBVIOUS
<1>2. ParseSegments(segments) =
        IF run[n].failed THEN <<>> ELSE Accepted(run[n].commands, run[n].deferred)
  BY DEF ParseSegments
<1>3. x0 \in S
  OBVIOUS
(* A pass, by what it makes of its segment.                                *)
<1>4. ASSUME NEW k \in 1 .. n, NEW r \in S
      PROVE  LET parsed == ParseTokens(segments[k]) IN
             \/ /\ WellFormed(W(k)) /\ ~r.failed
                /\ SegmentStep(segments, k, r) =
                     [r EXCEPT !.commands = Append(@, parsed.cmd)]
                /\ parsed.cmd = CommandOf(W(k))
             \/ ~WellFormed(W(k)) /\ SegmentStep(segments, k, r) = [r EXCEPT !.deferred = TRUE]
             \/ /\ ~WellFormed(W(k)) \/ r.failed
                /\ SegmentStep(segments, k, r) = [r EXCEPT !.failed = TRUE]
  <2> DEFINE s == segments[k]
             parsed == ParseTokens(s)
  <2>1. s \in Seq(Text) /\ QuotesMatch(s)
    BY <1>1
  <2> HIDE DEF s
  <2>2. /\ WellFormed(WordsOf(s)) =>
             s # <<>> /\ ~parsed.error /\ parsed.cmd = CommandOf(WordsOf(s)) /\ parsed.cmd.argv # <<>>
        /\ ~WellFormed(WordsOf(s)) => parsed.error \/ parsed.cmd.argv = <<>>
    BY <2>1, SegmentFacts
  <2>3. SegmentStep(segments, k, r) =
          IF r.failed \/ s = <<>> \/ parsed.error THEN [r EXCEPT !.failed = TRUE]
          ELSE IF parsed.cmd.argv # <<>>
          THEN [r EXCEPT !.commands = Append(@, parsed.cmd)]
          ELSE IF k < n /\ parsed.cmd # NoCommand
          THEN [r EXCEPT !.deferred = TRUE]
          ELSE [r EXCEPT !.failed = TRUE]
    BY DEF SegmentStep, s
  <2>4. W(k) = WordsOf(s)
    BY DEF s
  <2> HIDE DEF parsed, W, S
  <2>5. \/ /\ WellFormed(W(k)) /\ ~r.failed
           /\ SegmentStep(segments, k, r) = [r EXCEPT !.commands = Append(@, parsed.cmd)]
           /\ parsed.cmd = CommandOf(W(k))
        \/ ~WellFormed(W(k)) /\ SegmentStep(segments, k, r) = [r EXCEPT !.deferred = TRUE]
        \/ /\ ~WellFormed(W(k)) \/ r.failed
           /\ SegmentStep(segments, k, r) = [r EXCEPT !.failed = TRUE]
    BY <2>2, <2>3, <2>4
  <2> QED BY <2>5 DEF parsed, s
<1>5. \A k \in 1 .. n, r \in S : SegmentStep(segments, k, r) \in S
  <2> TAKE k \in 1 .. n, r \in S
  <2> DEFINE c == ParseTokens(segments[k]).cmd
  <2>1. c \in Commands
    OBVIOUS
  <2>2. \/ SegmentStep(segments, k, r) = [r EXCEPT !.commands = Append(@, c)]
        \/ SegmentStep(segments, k, r) = [r EXCEPT !.deferred = TRUE]
        \/ SegmentStep(segments, k, r) = [r EXCEPT !.failed = TRUE]
    <3> HIDE DEF S, W
    <3> QED BY <1>4
  <2> HIDE DEF Commands, c
  <2>3. Append(r.commands, c) \in Seq(Commands)
    BY <2>1, AppendProperties
  <2> QED BY <2>2, <2>3
<1> HIDE DEF S, F, x0, W
<1>6. \A k \in 1 .. n, r \in S : F[k][r] \in S /\ F[k][r] = SegmentStep(segments, k, r)
  BY <1>5 DEF F
<1>7. PICK g \in [0 .. n -> S] : g[0] = x0 /\ \A k \in 1 .. n : g[k] = F[k][g[k - 1]]
  <2>1. KeepsTo(n, S, F)
    BY <1>6 DEF KeepsTo
  <2> HIDE DEF n
  <2>2. HasRun(n, S, x0, F)
    BY <1>1, <1>3, <2>1, Passes
  <2> QED BY <2>2 DEF HasRun
<1>8. \A k \in 1 .. n : g[k] = SegmentStep(segments, k, g[k - 1])
  <2> TAKE k \in 1 .. n
  <2>1. k - 1 \in 0 .. n
    BY <1>1
  <2> QED BY <1>6, <1>7, <2>1
<1>9. IsRun(g)
  <2>1. \A k \in 0 .. n : g[k] = IF k = 0 THEN x0 ELSE SegmentStep(segments, k, g[k - 1])
    BY <1>1, <1>7, <1>8
  <2> QED BY <1>7, <2>1 DEF x0
<1>10. IsRun(run)
  <2>1. run = CHOOSE g_1 : IsRun(g_1)
    BY DEF run
  <2> HIDE DEF run
  <2> QED BY <1>9, <2>1
<1> HIDE DEF run
<1>11. \A k \in 0 .. n : run[k] = IF k = 0 THEN x0 ELSE SegmentStep(segments, k, run[k - 1])
  BY <1>10 DEF x0
<1> DEFINE Right(k, r) ==
             /\ r \in S
             /\ r.failed => Bad
             /\ ~r.failed /\ r.deferred => Bad
             /\ ~r.failed /\ ~r.deferred =>
                  /\ Len(r.commands) = k
                  /\ \A i \in 1 .. k : WellFormed(W(i)) /\ r.commands[i] = CommandOf(W(i))
           T == { k \in 0 .. n : Right(k, run[k]) }
<1>12. 0 \in T
  <2>1. run[0] = x0
    BY <1>1, <1>11
  <2>2. Right(0, x0)
    BY <1>3 DEF x0
  <2> HIDE DEF Right
  <2> QED BY <1>1, <2>1, <2>2
<1>13. \A k \in 0 .. n - 1 : k \in T => k + 1 \in T
  <2> TAKE k \in 0 .. n - 1
  <2> HAVE k \in T
  <2>1. k + 1 \in 0 .. n /\ k + 1 \in 1 .. n /\ (k + 1) - 1 = k /\ k + 1 # 0 /\ k \in Nat
    BY <1>1
  <2> DEFINE r == run[k]
             c == ParseTokens(segments[k + 1]).cmd
  <2>2. Right(k, r) /\ r \in S
    OBVIOUS
  <2> HIDE DEF r
  <2>3. run[k + 1] = SegmentStep(segments, k + 1, r)
    BY <1>11, <2>1 DEF r
  <2>4. run[k + 1] \in S
    BY <1>5, <2>1, <2>2, <2>3
  <2>5. \/ /\ WellFormed(W(k + 1)) /\ ~r.failed /\ c = CommandOf(W(k + 1))
           /\ run[k + 1] = [r EXCEPT !.commands = Append(@, c)]
        \/ ~WellFormed(W(k + 1)) /\ run[k + 1] = [r EXCEPT !.deferred = TRUE]
        \/ /\ ~WellFormed(W(k + 1)) \/ r.failed
           /\ run[k + 1] = [r EXCEPT !.failed = TRUE]
    BY <1>4, <2>1, <2>2, <2>3
  <2>6. /\ r.commands \in Seq(Commands) /\ c \in Commands
        /\ r.failed \in BOOLEAN /\ r.deferred \in BOOLEAN
    BY <2>1, <2>2 DEF S
  <2> HIDE DEF Commands, c
  <2>7. CASE ~WellFormed(W(k + 1)) \/ r.failed
    <3>1. Bad
      BY <2>1, <2>2, <2>7
    <3>2. run[k + 1].failed \/ run[k + 1].deferred
      <4>1. run[k + 1] = [r EXCEPT !.deferred = TRUE] \/ run[k + 1] = [r EXCEPT !.failed = TRUE]
        BY <2>5, <2>7
      <4> QED BY <2>2, <4>1 DEF S
    <3> HIDE DEF Bad
    <3> QED BY <2>1, <2>4, <3>1, <3>2
  <2>8. CASE WellFormed(W(k + 1)) /\ ~r.failed
    <3>1. c = CommandOf(W(k + 1)) /\ run[k + 1] = [r EXCEPT !.commands = Append(@, c)]
      BY <2>5, <2>8
    <3> DEFINE t == Append(r.commands, c)
    <3>2. /\ t \in Seq(Commands) /\ Len(t) = Len(r.commands) + 1
          /\ \A i \in 1 .. Len(r.commands) : t[i] = r.commands[i]
          /\ t[Len(r.commands) + 1] = c
      BY <2>6, AppendProperties
    <3>3. run[k + 1].commands = t /\ run[k + 1].failed = FALSE /\ run[k + 1].deferred = r.deferred
      <4> HIDE DEF t
      <4>1. run[k + 1] = [r EXCEPT !.commands = t]
        BY <3>1 DEF t
      <4> QED BY <2>2, <2>6, <2>8, <4>1 DEF S
    <3> HIDE DEF t
    <3>4. CASE r.deferred
      BY <2>1, <2>2, <2>4, <2>8, <3>3, <3>4
    <3>5. CASE ~r.deferred
      <4>1. Len(r.commands) = k /\ \A i \in 1 .. k : WellFormed(W(i)) /\ r.commands[i] = CommandOf(W(i))
        BY <2>2, <2>8, <3>5
      <4>2. Len(t) = k + 1
        BY <3>2, <4>1
      <4>3. \A i \in 1 .. k + 1 : WellFormed(W(i)) /\ t[i] = CommandOf(W(i))
        <5> TAKE i \in 1 .. k + 1
        <5>1. i \in 1 .. k \/ i = k + 1
          BY <2>1
        <5> QED BY <2>8, <3>1, <3>2, <4>1, <5>1
      <4> QED BY <2>1, <2>4, <3>3, <3>5, <4>2, <4>3
    <3> QED BY <3>4, <3>5
  <2> QED BY <2>7, <2>8
<1> HIDE DEF T
<1>14. n \in T
  <2>1. \A k \in 0 .. n : k \in T
    BY <1>1, <1>12, <1>13, UpTo
  <2> QED BY <1>1, <2>1
<1> DEFINE r == run[n]
<1>15. Right(n, r)
  BY <1>14 DEF T
<1> HIDE DEF r
<1>16. r.commands \in Seq(Commands) /\ r.failed \in BOOLEAN /\ r.deferred \in BOOLEAN
  BY <1>15 DEF S
<1>17. ParseSegments(segments) = IF r.failed \/ r.deferred THEN <<>> ELSE r.commands
  BY <1>2, <1>16 DEF r, Accepted
<1>18. CASE r.failed \/ r.deferred
  <2>1. ~\A k \in 1 .. Len(segments) : WellFormed(WordsOf(segments[k]))
    BY <1>15, <1>18 DEF W
  <2> QED BY <1>17, <1>18, <2>1
<1>19. CASE ~r.failed /\ ~r.deferred
  <2>1. /\ Len(r.commands) = n
        /\ \A i \in 1 .. n : WellFormed(WordsOf(segments[i])) /\ r.commands[i] = CommandOf(WordsOf(segments[i]))
    BY <1>15, <1>19 DEF W
  <2>2. r.commands = [k \in 1 .. n |-> CommandOf(WordsOf(segments[k]))]
    <3> HIDE DEF Commands
    <3> DEFINE q == r.commands
    <3>1. q \in Seq(Commands) /\ Len(q) = n
      BY <1>16, <2>1
    <3>2. \A i \in 1 .. n : q[i] = CommandOf(WordsOf(segments[i]))
      BY <2>1
    <3> HIDE DEF q, n
    <3>3. q = [k \in 1 .. n |-> q[k]]
      BY <3>1
    <3> QED BY <3>2, <3>3 DEF q, n
  <2> QED BY <1>17, <1>19, <2>1, <2>2
<1> QED BY <1>16, <1>18, <1>19

-----------------------------------------------------------------------------
(* Lines.                                                                  *)

LEMMA ReadsAsDocumented ==
  ASSUME NEW line \in Seq(Text), InScope(line)
  PROVE  ParseLine(line) = IF Trim(line) = <<>> THEN <<>> ELSE Documented(line)
<1> DEFINE parts == Segments(line)
           words == [k \in 1 .. Len(Segments(line)) |-> WordsOf(Segments(line)[k])]
<1>1. parts \in Seq(Seq(Text)) /\ \A k \in 1 .. Len(parts) : QuotesMatch(parts[k])
  BY SegmentsType DEF InScope
<1>2. /\ Documented(line) = IF \A k \in 1 .. Len(words) : WellFormed(words[k])
                            THEN [k \in 1 .. Len(words) |-> CommandOf(words[k])]
                            ELSE <<>>
      /\ words = [k \in 1 .. Len(parts) |-> WordsOf(parts[k])]
  BY DEF Documented
<1> HIDE DEF parts, words
<1>3. Len(words) = Len(parts)
  BY <1>1, <1>2
<1>4. Documented(line) = ParseSegments(parts)
  BY <1>1, <1>2, <1>3, ParseSegmentsFacts
<1> QED BY <1>4 DEF ParseLine, parts

(* Every shell command that reaches the server is read as the documented   *)
(* grammar reads it, whatever its length and symbols: parse_line, with its *)
(* scan of quotes, its redirections and the parts it defers, never takes a *)
(* word, a file or a command for another.                                  *)
THEOREM CommandsAreReadAsDocumented == Spec => []ParsesAsDocumented
<1>1. SInv => ParsesAsDocumented
  <2> SUFFICES ASSUME SInv PROVE ParsesAsDocumented
    OBVIOUS
  <2>1. handler.command \in Seq(Text)
    BY DEF SInv, SessionTyped
  <2> QED BY <2>1, ReadsAsDocumented DEF ParsesAsDocumented
<1> QED BY <1>1, SessionInvariance, PTL

=============================================================================
