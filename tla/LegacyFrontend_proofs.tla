-------------------- MODULE LegacyFrontend_proofs --------------------
(***************************************************************************)
(* Proofs about the legacy frontend.  About its tokenizer: for every text. *)
(* About the nodes of the AST and the visitor that sets their parents: for *)
(* every set of addresses, every client that starts with trees, and any    *)
(* number of calls.                                                        *)
(***************************************************************************)
EXTENDS ParentSetting, Tokenizer, StructureLemmas, TLAPS

-----------------------------------------------------------------------------
(* The tokenizer. *)

Characters == STRING \cup {Eof}

\* The stream is at a place of the text, and what was pushed back is from there.
InText(s, text) ==
  /\ s \in [text : Seq(Characters), next : Nat, pushed : Seq(Characters), line : Int, index : Nat]
  /\ s.text = text
  /\ s.next = IF s.index + Len(s.pushed) <= Len(text) THEN s.index + Len(s.pushed) ELSE Len(text)
  /\ \A k \in DOMAIN s.pushed : s.pushed[k] = CharAt(text, s.index + k)
  /\ s.line = LinesBefore(text, s.index)

\* What is read of a token is what the text has from where it began.
ReadSoFar(text) ==
  /\ begun[2] \in Nat /\ begun[1] = LinesBefore(text, begun[2])
  /\ mode \in {"word", "operator"} =>
       begun[2] <= stream.index /\ word = Between(text, begun[2], stream.index)
  /\ mode = "operator" => matched \in 0 .. stream.index - begun[2]
  /\ mode = "slash" => stream.index > 0 /\ CharAt(text, stream.index) = "/"
  /\ mode = "string" =>
       begun[2] \in 1 .. stream.index /\ CharAt(text, begun[2]) = Quote

\* Before this place are the tokens so far.
Floor ==
  IF mode = "slash" THEN stream.index - 1
  ELSE IF mode \in {"start", "ended"} THEN stream.index ELSE begun[2]

Ending(k) == IF k < Len(lexed) THEN lexed[k + 1].index ELSE Floor

TokensPlaced(text) ==
  /\ lexed \in Seq({lexed[k] : k \in DOMAIN lexed})
  /\ \A k \in DOMAIN lexed :
       /\ lexed[k].index \in Nat
       /\ lexed[k].line = LinesBefore(text, lexed[k].index)
       /\ \E q \in lexed[k].index .. Ending(k) : StandsAt(text, lexed[k], q)

TokenizerInv(text) ==
  InText(stream, text) /\ ReadSoFar(text) /\ Floor <= stream.index /\ TokensPlaced(text)

-----------------------------------------------------------------------------
(* Counting lines. *)
LEMMA LinesFinite ==
  ASSUME NEW text, NEW k \in Nat
  PROVE  /\ IsFiniteSet({m \in 1 .. k : CharAt(text, m) = "\n"})
         /\ LinesBefore(text, k) \in Nat
<1>1. {m \in 1 .. k : CharAt(text, m) = "\n"} \in SUBSET (1 .. k)
  OBVIOUS
<1>2. QED BY <1>1, IndicesFinite DEF LinesBefore

LEMMA LinesSplit ==
  ASSUME NEW text, NEW i \in Nat, NEW chars \in Seq(Characters),
         \A k \in DOMAIN chars : chars[k] = CharAt(text, i + k)
  PROVE  LinesBefore(text, i + Len(chars)) = LinesBefore(text, i) + LinesIn(chars)
<1> DEFINE n == Len(chars)
           A == {m \in 1 .. i : CharAt(text, m) = "\n"}
           B == {m \in 1 .. i + n : m > i /\ CharAt(text, m) = "\n"}
           C == {k \in DOMAIN chars : chars[k] = "\n"}
           f == [k \in C |-> i + k]
<1>1. n \in Nat /\ DOMAIN chars = 1 .. n /\ i + n \in Nat
  OBVIOUS
<1>2. IsFiniteSet(A) /\ IsFiniteSet(B) /\ IsFiniteSet(C)
  <2>1. A \in SUBSET (1 .. i) /\ B \in SUBSET (1 .. i + n) /\ C \in SUBSET (1 .. n)
    BY <1>1
  <2>2. i \in Nat /\ n \in Nat /\ i + n \in Nat
    BY <1>1
  <2> DEFINE l == i + n
  <2> HIDE DEF A, B, C, n, l, f
  <2>3. IsFiniteSet(A)
    BY <2>1, <2>2, IndicesFinite
  <2>4. IsFiniteSet(B)
    BY <2>1, <2>2, IndicesFinite DEF l
  <2>5. IsFiniteSet(C)
    BY <2>1, <2>2, IndicesFinite
  <2>6. QED BY <2>3, <2>4, <2>5
<1>3. f \in Bijection(C, B)
  <2>1. \A k \in C : f[k] = i + k /\ i + k \in B
    BY <1>1
  <2>2. \A m \in B : m - i \in C /\ f[m - i] = m
    <3> TAKE m \in B
    <3>1. m - i \in 1 .. n /\ i + (m - i) = m
      BY <1>1
    <3>2. m - i \in C
      BY <1>1, <3>1
    <3>3. QED BY <3>1, <3>2
  <2>3. \A k, l \in C : f[k] = f[l] => k = l
    <3>1. \A k \in C : k \in Int
      OBVIOUS
    <3>2. QED BY <2>1, <3>1
  <2>4. DOMAIN f = C /\ f = [k \in C |-> f[k]]
    OBVIOUS
  <2> HIDE DEF f, B, C
  <2>5. f \in [C -> B]
    BY <2>1, <2>4
  <2>6. QED BY <2>2, <2>3, <2>5 DEF Bijection, Injection, Surjection, IsInjective
<1>4. Cardinality(B) = Cardinality(C)
  <2>1. ExistsBijection(C, B)
    BY <1>3 DEF ExistsBijection
  <2> HIDE DEF B, C
  <2>2. QED BY <1>2, <2>1, FS_Bijection
<1>5. A \cup B = {m \in 1 .. i + n : CharAt(text, m) = "\n"} /\ A \cap B = {}
  BY <1>1
<1>6. Cardinality(A \cup B) = Cardinality(A) + Cardinality(B)
  <2> HIDE DEF A, B
  <2>1. Cardinality(A \cup B) = Cardinality(A) + Cardinality(B) - Cardinality(A \cap B)
    BY <1>2, FS_Union
  <2>2. Cardinality(A \cap B) = 0 /\ Cardinality(A) \in Nat /\ Cardinality(B) \in Nat
    BY <1>2, <1>5, FS_EmptySet, FS_CardinalityType
  <2>3. QED BY <2>1, <2>2
<1>7. QED BY <1>4, <1>5, <1>6 DEF LinesBefore, LinesIn

-----------------------------------------------------------------------------
(* The stream. *)
LEMMA StreamTaken ==
  ASSUME NEW text, InText(stream, text)
  PROVE  /\ InText(Taken, text) /\ Taken.index = stream.index + 1
         /\ Ahead = CharAt(text, stream.index + 1) /\ Ahead \in Characters
<1> DEFINE s == stream
           p == s.pushed
           i == s.index
<1>1. /\ s \in [text : Seq(Characters), next : Nat, pushed : Seq(Characters), line : Int, index : Nat]
      /\ s.text = text /\ text \in Seq(Characters) /\ p \in Seq(Characters) /\ i \in Nat
      /\ s.next = IF i + Len(p) <= Len(text) THEN i + Len(p) ELSE Len(text)
      /\ \A k \in DOMAIN p : p[k] = CharAt(text, i + k)
      /\ s.line = LinesBefore(text, i)
  BY DEF InText
<1>2. Len(text) \in Nat /\ Len(p) \in Nat /\ s.next \in Nat
  BY <1>1
<1>3. ASSUME NEW k \in Nat \ {0} PROVE CharAt(text, k) \in Characters
  <2>1. Eof \in Characters
    BY DEF Characters
  <2>2. k <= Len(text) => text[k] \in Characters
    BY <1>1
  <2>3. QED BY <2>1, <2>2 DEF CharAt
<1>4. Ahead = CharAt(text, i + 1)
  <2>1. CASE p # << >>
    <3>1. 1 \in DOMAIN p /\ Head(p) = p[1]
      BY <1>1, <2>1, TailFacts
    <3>2. QED BY <1>1, <2>1, <3>1 DEF Ahead
  <2>2. CASE p = << >>
    <3>1. Len(p) = 0
      BY <2>2
    <3>2. CharAt(text, s.next + 1) = CharAt(text, i + 1)
      BY <1>1, <1>2, <3>1 DEF CharAt
    <3>3. QED BY <1>1, <2>2, <3>2 DEF Ahead
  <2>3. QED BY <2>1, <2>2
<1>5. Ahead \in Characters
  BY <1>1, <1>3, <1>4
<1> DEFINE t == Taken
           q == IF p = << >> THEN p ELSE Tail(p)
           z == IF p = << >> /\ s.next < Len(text) THEN s.next + 1 ELSE s.next
           one == <<Ahead>>
<1>6. t = [s EXCEPT !.pushed = q, !.next = z, !.line = s.line + LinesIn(one), !.index = i + 1]
  BY <1>1 DEF Taken
<1>7. LinesBefore(text, i + 1) = LinesBefore(text, i) + LinesIn(one)
  <2>1. one \in Seq(Characters) /\ Len(one) = 1 /\ DOMAIN one = {1} /\ one[1] = CharAt(text, i + 1)
    BY <1>4, <1>5
  <2> HIDE DEF one, i
  <2>2. \A k \in DOMAIN one : one[k] = CharAt(text, i + k)
    BY <2>1
  <2>3. LinesBefore(text, i + Len(one)) = LinesBefore(text, i) + LinesIn(one)
    BY <1>1, <2>1, <2>2, LinesSplit
  <2>4. QED BY <2>1, <2>3
<1>8. /\ q \in Seq(Characters) /\ Len(q) \in Nat
      /\ \A k \in DOMAIN q : q[k] = CharAt(text, (i + 1) + k)
      /\ p # << >> => Len(q) = Len(p) - 1
      /\ p = << >> => Len(q) = 0
  <2>1. CASE p = << >>
    BY <2>1
  <2>2. CASE p # << >>
    <3>1. q = Tail(p)
      BY <2>2
    <3>2. /\ q \in Seq(Characters) /\ Len(q) = Len(p) - 1 /\ Len(q) \in Nat
      BY <1>1, <2>2, <3>1, HeadTailProperties, EmptySeq
    <3>3. \A k \in DOMAIN q : k + 1 \in DOMAIN p /\ q[k] = p[k + 1] /\ k \in Int
      BY <1>1, <2>2, <3>1, <3>2, TailFacts
    <3>4. ASSUME NEW k \in Int PROVE i + (k + 1) = (i + 1) + k
      BY <1>1
    <3>5. QED BY <1>1, <2>2, <3>2, <3>3, <3>4
  <2>3. QED BY <2>1, <2>2
<1>9. z = IF (i + 1) + Len(q) <= Len(text) THEN (i + 1) + Len(q) ELSE Len(text)
  <2>1. CASE p = << >>
    <3>1. Len(p) = 0
      BY <2>1
    <3>2. QED BY <1>1, <1>2, <1>8, <2>1, <3>1
  <2>2. CASE p # << >>
    <3>1. z = s.next /\ (i + 1) + Len(q) = i + Len(p)
      BY <1>1, <1>2, <1>8, <2>2
    <3>2. QED BY <1>1, <3>1
  <2>3. QED BY <2>1, <2>2
<1>10. z \in Nat
  BY <1>2
<1>11. LinesBefore(text, i) \in Int /\ LinesBefore(text, i + 1) \in Int
  <2> DEFINE a == LinesBefore(text, i)
             b == LinesBefore(text, i + 1)
  <2>1. i \in Nat /\ i + 1 \in Nat
    BY <1>1
  <2>2. a \in Nat
    BY <2>1, LinesFinite
  <2>3. b \in Nat
    BY <2>1, LinesFinite
  <2> HIDE DEF a, b
  <2>4. a \in Int /\ b \in Int
    BY <2>2, <2>3
  <2>5. QED BY <2>4 DEF a, b
<1>12. s.line + LinesIn(one) = LinesBefore(text, i + 1)
  BY <1>1, <1>7
<1> HIDE DEF q, z, one
<1> DEFINE l == s.line + LinesIn(one)
<1> HIDE DEF l, i, p
<1>13. /\ t \in [text : Seq(Characters), next : Nat, pushed : Seq(Characters), line : Int, index : Nat]
       /\ t.text = text /\ t.pushed = q /\ t.next = z /\ t.index = i + 1
       /\ t.line = LinesBefore(text, i + 1)
  <2>1. /\ t = [s EXCEPT !.pushed = q, !.next = z, !.line = l, !.index = i + 1]
        /\ l \in Int /\ l = LinesBefore(text, i + 1)
    BY <1>6, <1>11, <1>12 DEF l
  <2>2. i \in Nat /\ i + 1 \in Nat
    BY <1>1 DEF i
  <2>3. /\ s \in [text : Seq(Characters), next : Nat, pushed : Seq(Characters), line : Int, index : Nat]
        /\ s.text = text /\ q \in Seq(Characters)
    BY <1>1, <1>8
  <2> HIDE DEF t, s
  <2>4. QED BY <1>10, <2>1, <2>2, <2>3
<1> HIDE DEF t
<1> USE DEF i, p
<1>14. InText(t, text)
  BY <1>8, <1>9, <1>13 DEF InText
<1>15. QED BY <1>4, <1>5, <1>13, <1>14 DEF t

LEMMA BeyondFirst ==
  ASSUME NEW n \in Nat, NEW l \in Nat, NEW j \in Nat, NEW k \in 1 .. n + l, ~ k <= n
  PROVE  k - n \in 1 .. l /\ k \in Int /\ (j + n) + (k - n) = j + k
OBVIOUS

\* Characters that the text has from a place on.
AreAt(chars, text, j) == \A k \in DOMAIN chars : chars[k] = CharAt(text, j + k)

LEMMA StreamBack ==
  ASSUME NEW text, NEW s, InText(s, text), NEW chars \in Seq(Characters), NEW j \in Nat,
         j = s.index - Len(chars), AreAt(chars, text, j)
  PROVE  InText(PushBackAll(s, chars), text) /\ PushBackAll(s, chars).index = j
<1> DEFINE p == s.pushed
           q == chars \o p
           n == Len(chars)
           t == PushBackAll(s, chars)
<1>1. /\ s \in [text : Seq(Characters), next : Nat, pushed : Seq(Characters), line : Int, index : Nat]
      /\ s.text = text /\ text \in Seq(Characters) /\ p \in Seq(Characters)
      /\ s.next = IF s.index + Len(p) <= Len(text) THEN s.index + Len(p) ELSE Len(text)
      /\ \A k \in DOMAIN p : p[k] = CharAt(text, s.index + k)
      /\ s.line = LinesBefore(text, s.index)
  BY DEF InText
<1>2. n \in Nat /\ s.index = j + n /\ Len(p) \in Nat /\ DOMAIN p = 1 .. Len(p) /\ DOMAIN chars = 1 .. n
      /\ s.index \in Nat /\ s.next \in Nat
  BY <1>1
<1>3. /\ q \in Seq(Characters) /\ Len(q) = n + Len(p)
      /\ \A k \in 1 .. n + Len(p) : q[k] = IF k <= n THEN chars[k] ELSE p[k - n]
  BY <1>1, <1>2, ConcatProperties
<1>4. t = [s EXCEPT !.pushed = q, !.line = s.line - LinesIn(chars), !.index = j]
  BY <1>1 DEF PushBackAll
<1>5. s.line - LinesIn(chars) = LinesBefore(text, j)
  <2>1. LinesBefore(text, j + n) = LinesBefore(text, j) + LinesIn(chars)
    BY LinesSplit DEF AreAt
  <2>2. LinesIn(chars) \in Nat
    <3>1. {k \in DOMAIN chars : chars[k] = "\n"} \in SUBSET (1 .. n)
      BY <1>2
    <3>2. QED BY <1>2, <3>1, IndicesFinite DEF LinesIn
  <2>3. LinesBefore(text, j) \in Nat
    BY LinesFinite
  <2>4. QED BY <1>1, <1>2, <2>1, <2>2, <2>3
<1>6. LinesBefore(text, j) \in Int
  <2> DEFINE a == LinesBefore(text, j)
  <2>1. a \in Nat
    BY LinesFinite
  <2> HIDE DEF a
  <2>2. a \in Int
    BY <2>1
  <2>3. QED BY <2>2 DEF a
<1> HIDE DEF q, n
<1>7. /\ t \in [text : Seq(Characters), next : Nat, pushed : Seq(Characters), line : Int, index : Nat]
      /\ t.text = text /\ t.pushed = q /\ t.next = s.next /\ t.index = j
      /\ t.line = LinesBefore(text, j)
  BY <1>1, <1>3, <1>4, <1>5, <1>6
<1>8. ASSUME NEW k \in DOMAIN q PROVE q[k] = CharAt(text, j + k)
  <2>1. k \in 1 .. n + Len(p) /\ DOMAIN q = 1 .. n + Len(p)
    BY <1>3
  <2>2. CASE k <= n
    <3>1. k \in DOMAIN chars
      BY <1>2, <2>1, <2>2
    <3>2. QED BY <1>3, <2>1, <2>2, <3>1 DEF AreAt
  <2>3. CASE ~ k <= n
    <3> DEFINE m == k - n
    <3>a. n \in Nat /\ Len(p) \in Nat
      BY <1>2
    <3>b. k \in 1 .. n + Len(p)
      BY <2>1
    <3>1. m \in 1 .. Len(p) /\ k \in Int /\ (j + n) + m = j + k
      BY <2>3, <3>a, <3>b, BeyondFirst
    <3> HIDE DEF m
    <3>2. m \in DOMAIN p /\ s.index + m = j + k
      BY <1>2, <3>1
    <3> USE DEF m
    <3>3. QED BY <1>1, <1>3, <2>1, <2>3, <3>2
  <2>4. QED BY <2>2, <2>3
<1>9. j + Len(q) = s.index + Len(p)
  BY <1>2, <1>3
<1> HIDE DEF t
<1>10. InText(t, text)
  BY <1>1, <1>7, <1>8, <1>9 DEF InText
<1>11. QED BY <1>7, <1>10 DEF t

-----------------------------------------------------------------------------
(* What is between two places of the text. *)
LEMMA BetweenNothing ==
  ASSUME NEW text, NEW p \in Nat
  PROVE  Between(text, p, p) = << >>
<1>1. p - p = 0 /\ 1 .. 0 = {}
  OBVIOUS
<1>2. QED BY <1>1 DEF Between

LEMMA IsBetween ==
  ASSUME NEW text, NEW p \in Nat, NEW q \in Nat, p <= q, NEW S, NEW s \in Seq(S),
         Len(s) = q - p, \A k \in 1 .. q - p : s[k] = CharAt(text, p + k)
  PROVE  s = Between(text, p, q)
<1>1. s = [k \in 1 .. q - p |-> s[k]]
  OBVIOUS
<1>2. QED BY <1>1, Zenon DEF Between

LEMMA BetweenFacts ==
  ASSUME NEW text, NEW p \in Nat, NEW q \in Nat, p <= q
  PROVE  /\ Between(text, p, q) \in Seq({CharAt(text, p + k) : k \in 1 .. q - p})
         /\ Len(Between(text, p, q)) = q - p
         /\ \A k \in 1 .. q - p : Between(text, p, q)[k] = CharAt(text, p + k)
BY DEF Between

LEMMA BetweenIsAt ==
  ASSUME NEW text \in Seq(Characters), NEW p \in Nat, NEW q \in Nat, p <= q,
         NEW s, s = Between(text, p, q)
  PROVE  s \in Seq(Characters) /\ Len(s) = q - p /\ AreAt(s, text, p)
<1>1. \A k \in Nat \ {0} : CharAt(text, k) \in Characters
  BY DEF CharAt, Characters
<1>2. s = [k \in 1 .. q - p |-> CharAt(text, p + k)] /\ q - p \in Nat
  BY DEF Between
<1>3. \A k \in 1 .. q - p : p + k \in Nat \ {0}
  OBVIOUS
<1>4. \A k \in 1 .. q - p : s[k] = CharAt(text, p + k) /\ s[k] \in Characters
  BY <1>1, <1>2, <1>3
<1>5. DOMAIN s = 1 .. q - p /\ s = [k \in 1 .. q - p |-> s[k]]
  BY <1>2
<1>6. s \in [1 .. q - p -> Characters]
  BY <1>4, <1>5
<1>7. s \in Seq(Characters) /\ Len(s) = q - p
  <2> DEFINE n == q - p
  <2>1. n \in Nat /\ s \in [1 .. n -> Characters]
    BY <1>2, <1>6
  <2> HIDE DEF n
  <2>2. s \in Seq(Characters) /\ Len(s) = n
    BY <2>1
  <2>3. QED BY <2>2 DEF n
<1>8. QED BY <1>4, <1>5, <1>7 DEF AreAt

LEMMA BetweenMore ==
  ASSUME NEW text, NEW p \in Nat, NEW q \in Nat, p <= q
  PROVE  Append(Between(text, p, q), CharAt(text, q + 1)) = Between(text, p, q + 1)
<1> DEFINE b == Between(text, p, q)
           c == CharAt(text, q + 1)
           S == {CharAt(text, p + k) : k \in 1 .. q - p} \cup {c}
           a == Append(b, c)
<1>1. b \in Seq(S) /\ Len(b) = q - p /\ \A k \in 1 .. q - p : b[k] = CharAt(text, p + k)
  <2>1. \A T : b \in Seq({CharAt(text, p + k) : k \in 1 .. q - p}) => b \in Seq({CharAt(text, p + k) : k \in 1 .. q - p} \cup T)
    OBVIOUS
  <2>2. QED BY <2>1, BetweenFacts
<1>2. c \in S
  OBVIOUS
<1>3. q + 1 \in Nat /\ p <= q + 1 /\ p + ((q - p) + 1) = q + 1 /\ (q + 1) - p = (q - p) + 1
  OBVIOUS
<1> HIDE DEF b, S
<1>4. /\ a \in Seq(S) /\ Len(a) = (q - p) + 1 /\ a[(q - p) + 1] = c
      /\ \A k \in 1 .. q - p : a[k] = b[k]
  BY <1>1, <1>2, AppendProperties
<1>5. \A k \in 1 .. (q - p) + 1 : k \in 1 .. q - p \/ k = (q - p) + 1
  OBVIOUS
<1> HIDE DEF a
<1>6. \A k \in 1 .. (q + 1) - p : a[k] = CharAt(text, p + k)
  BY <1>1, <1>3, <1>4, <1>5
<1>7. Len(a) = (q + 1) - p
  BY <1>3, <1>4
<1>8. a = Between(text, p, q + 1)
  BY <1>3, <1>4, <1>6, <1>7, IsBetween
<1>9. QED BY <1>8 DEF a, b

\* Its parts.
LEMMA BetweenPart ==
  ASSUME NEW text, NEW p \in Nat, NEW q \in Nat, p <= q, NEW n \in 0 .. q - p
  PROVE  /\ SubSeq(Between(text, p, q), 1, n) = Between(text, p, p + n)
         /\ SubSeq(Between(text, p, q), n + 1, q - p) = Between(text, p + n, q)
<1> DEFINE b == Between(text, p, q)
           S == {CharAt(text, p + k) : k \in 1 .. q - p}
           l == SubSeq(b, 1, n)
           r == SubSeq(b, n + 1, q - p)
<1>1. b \in Seq(S) /\ Len(b) = q - p /\ \A k \in 1 .. q - p : b[k] = CharAt(text, p + k)
  BY BetweenFacts
<1> HIDE DEF b, S
<1>2. l = Between(text, p, p + n)
  <2>1. l \in Seq(S) /\ Len(l) = n /\ \A k \in 1 .. n : l[k] = b[k]
    BY <1>1
  <2>2. p + n \in Nat /\ p <= p + n /\ (p + n) - p = n
    OBVIOUS
  <2> HIDE DEF l
  <2>3. \A k \in 1 .. (p + n) - p : l[k] = CharAt(text, p + k)
    BY <1>1, <2>1, <2>2
  <2>4. QED BY <2>1, <2>2, <2>3, IsBetween
<1>3. r = Between(text, p + n, q)
  <2>1. r \in Seq(S) /\ Len(r) = q - (p + n) /\ \A k \in 1 .. q - (p + n) : r[k] = b[n + k]
    BY <1>1
  <2>2. p + n \in Nat /\ p + n <= q
    OBVIOUS
  <2> HIDE DEF r
  <2>3. ASSUME NEW k \in 1 .. q - (p + n) PROVE r[k] = CharAt(text, (p + n) + k)
    <3>1. n + k \in 1 .. q - p /\ p + (n + k) = (p + n) + k
      OBVIOUS
    <3>2. QED BY <1>1, <2>1, <3>1
  <2>4. QED BY <2>1, <2>2, <2>3, IsBetween
<1>4. QED BY <1>2, <1>3 DEF b

\* The same, for the solver: it is not to see SubSeq where it looks for an instance.
LEMMA BetweenParts ==
  ASSUME NEW text, NEW p \in Nat, NEW q \in Nat, p <= q, NEW n \in 0 .. q - p
  PROVE  /\ Part(Between(text, p, q), 1, n) = Between(text, p, p + n)
         /\ Part(Between(text, p, q), n + 1, q - p) = Between(text, p + n, q)
BY BetweenPart, Zenon DEF Part

-----------------------------------------------------------------------------
(* The tokens. *)
LEMMA TokensKept ==
  ASSUME NEW text, TokensPlaced(text), UNCHANGED lexed, Floor \in Nat, Floor' \in Nat, Floor <= Floor'
  PROVE  TokensPlaced(text)'
<1>1. lexed' = lexed
  OBVIOUS
<1>2. ASSUME NEW k \in DOMAIN lexed, NEW q \in lexed[k].index .. Ending(k), lexed[k].index \in Nat
      PROVE  q \in lexed[k].index .. Ending(k)'
  <2>1. CASE k < Len(lexed)
    BY <1>1, <2>1 DEF Ending
  <2>2. CASE ~ k < Len(lexed)
    BY <1>1, <2>2 DEF Ending
  <2>3. QED BY <2>1, <2>2
<1>3. ASSUME NEW k \in DOMAIN lexed
      PROVE  \E q \in lexed[k].index .. Ending(k)' : StandsAt(text, lexed[k], q)
  BY <1>2 DEF TokensPlaced
<1>4. QED BY <1>1, <1>3 DEF TokensPlaced

LEMMA TokenAdded ==
  ASSUME NEW text, TokensPlaced(text), NEW t, lexed' = Append(lexed, t), t.index \in Nat,
         t.line = LinesBefore(text, t.index), Floor \in Nat, Floor <= t.index,
         \E q \in t.index .. Floor' : StandsAt(text, t, q)
  PROVE  TokensPlaced(text)'
<1> DEFINE S == {lexed[k] : k \in DOMAIN lexed} \cup {t}
           n == Len(lexed)
           l == lexed'
<1>1. lexed \in Seq(S) /\ t \in S /\ n \in Nat /\ DOMAIN lexed = 1 .. n
  <2>1. lexed \in Seq({lexed[k] : k \in DOMAIN lexed})
    BY DEF TokensPlaced
  <2>2. n \in Nat /\ DOMAIN lexed = 1 .. n
    BY <2>1
  <2>3. \A k \in 1 .. n : lexed[k] \in S
    BY <2>2
  <2>4. lexed = [k \in 1 .. n |-> lexed[k]]
    BY <2>1
  <2> HIDE DEF S, n
  <2>5. lexed \in [1 .. n -> S]
    BY <2>3, <2>4
  <2>6. QED BY <2>2, <2>5 DEF S
<1>2. /\ l \in Seq(S) /\ Len(l) = n + 1 /\ DOMAIN l = 1 .. n + 1 /\ l[n + 1] = t
      /\ \A k \in 1 .. n : l[k] = lexed[k]
  <2> HIDE DEF S
  <2>1. /\ l \in Seq(S) /\ Len(l) = n + 1 /\ l[n + 1] = t /\ \A k \in 1 .. n : l[k] = lexed[k]
    BY <1>1, AppendProperties
  <2> HIDE DEF n, l
  <2>2. QED BY <1>1, <2>1
<1>3. \A k \in 1 .. n + 1 : k \in 1 .. n \/ k = n + 1
  BY <1>1
<1> HIDE DEF l, n
<1>4. l \in Seq({l[k] : k \in DOMAIN l})
  <2> DEFINE R == {l[k] : k \in DOMAIN l}
  <2>1. \A k \in 1 .. n + 1 : l[k] \in R
    BY <1>2
  <2>2. l = [k \in 1 .. n + 1 |-> l[k]]
    BY <1>2
  <2>3. n + 1 \in Nat
    BY <1>1
  <2> HIDE DEF R
  <2>4. l \in [1 .. n + 1 -> R]
    BY <2>1, <2>2
  <2>5. l \in Seq(R)
    BY <2>3, <2>4
  <2>6. QED BY <2>5 DEF R
<1>5. ASSUME NEW k \in 1 .. n
      PROVE  /\ l[k].index \in Nat /\ l[k].line = LinesBefore(text, l[k].index)
             /\ \E q \in l[k].index .. Ending(k)' : StandsAt(text, l[k], q)
  <2>1. l[k] = lexed[k] /\ k \in DOMAIN lexed
    BY <1>1, <1>2
  <2>2. PICK q \in lexed[k].index .. Ending(k) : StandsAt(text, lexed[k], q)
    BY <2>1 DEF TokensPlaced
  <2>3. lexed[k].index \in Nat /\ lexed[k].line = LinesBefore(text, lexed[k].index)
    BY <2>1 DEF TokensPlaced
  <2>4. q \in lexed[k].index .. Ending(k)'
    <3>1. CASE k < n
      <4>1. k < n + 1 /\ k + 1 \in 1 .. n /\ k + 1 \in 1 .. n + 1
        BY <1>1, <3>1
      <4>2. Ending(k) = lexed[k + 1].index
        BY <3>1 DEF Ending, n
      <4>3. Ending(k)' = l[k + 1].index
        BY <1>2, <4>1 DEF Ending, l
      <4>4. QED BY <1>2, <4>1, <4>2, <4>3
    <3>2. CASE ~ k < n
      <4>1. k = n /\ n < n + 1
        BY <1>1, <3>2
      <4>2. Ending(k) = Floor
        BY <3>2 DEF Ending, n
      <4>3. Ending(k)' = t.index
        BY <1>2, <4>1 DEF Ending, l
      <4>4. QED BY <2>3, <4>2, <4>3
    <3>3. QED BY <3>1, <3>2
  <2>5. QED BY <2>1, <2>2, <2>3, <2>4
<1>6. ASSUME NEW k, k = n + 1
      PROVE  /\ l[k].index \in Nat /\ l[k].line = LinesBefore(text, l[k].index)
             /\ \E q \in l[k].index .. Ending(k)' : StandsAt(text, l[k], q)
  <2>1. ~ k < n + 1
    BY <1>1, <1>6
  <2>2. Ending(k)' = Floor'
    BY <1>2, <2>1 DEF Ending, l
  <2>3. l[k] = t
    BY <1>2, <1>6
  <2>4. QED BY <2>2, <2>3
<1>7. \A k \in DOMAIN l :
        /\ l[k].index \in Nat /\ l[k].line = LinesBefore(text, l[k].index)
        /\ \E q \in l[k].index .. Ending(k)' : StandsAt(text, l[k], q)
  BY <1>2, <1>3, <1>5, <1>6
<1>8. QED BY <1>4, <1>7 DEF TokensPlaced, l

-----------------------------------------------------------------------------
(* What a step may come to. *)
LEMMA FloorNat ==
  ASSUME NEW text, TokenizerInv(text)
  PROVE  /\ Floor \in Nat /\ stream.index \in Nat /\ Floor <= stream.index /\ Floor <= stream.index + 1
         /\ begun[2] \in Nat
         /\ mode \notin {"start", "ended", "slash"} => Floor = begun[2]
         /\ mode \in {"start", "ended"} => Floor = stream.index
         /\ mode = "slash" => Floor = stream.index - 1
<1>1. stream.index \in Nat /\ begun[2] \in Nat /\ Floor <= stream.index
  BY DEF TokenizerInv, InText, ReadSoFar
<1>2. mode = "slash" => stream.index > 0
  BY DEF TokenizerInv, ReadSoFar
<1>3. Floor \in Nat
  BY <1>1, <1>2 DEF Floor
<1>4. Floor <= stream.index + 1
  <2> DEFINE f == Floor
             i == stream.index
  <2>1. f \in Nat /\ i \in Nat /\ f <= i
    BY <1>1, <1>3
  <2> HIDE DEF f, i
  <2>2. f <= i + 1
    BY <2>1
  <2>3. QED BY <2>2 DEF f, i
<1>5. QED BY <1>1, <1>2, <1>3, <1>4 DEF Floor

\* A function of the tokenizer begins to read.
LEMMA Entered ==
  ASSUME NEW text, TokenizerInv(text), InText(stream, text)', NEW m, Enter(m),
         m \notin {"ended", "thrown"}, Floor <= stream.index',
         m = "slash" => Floor < stream.index' /\ CharAt(text, stream.index') = "/",
         m = "string" => stream.index' > 0 /\ CharAt(text, stream.index') = Quote
  PROVE  TokenizerInv(text)'
<1> PICK i \in Nat : i = stream.index'
  BY DEF InText
<1>1. /\ mode' = m /\ begun' = <<stream.line', i>> /\ word' = << >> /\ matched' = 0
      /\ UNCHANGED lexed
  BY DEF Enter
<1>2. stream.line' = LinesBefore(text, i)
  BY DEF InText
<1>3. Floor' = IF m = "slash" THEN i - 1 ELSE i
  BY <1>1 DEF Floor
<1> PICK f \in Nat : f = Floor
  BY FloorNat
<1>4. Floor \in Nat /\ Floor' \in Nat /\ Floor <= Floor' /\ Floor' <= i
  <2>1. f <= i /\ (m = "slash" => f < i)
    OBVIOUS
  <2>2. CASE m = "slash"
    BY <1>3, <2>1, <2>2
  <2>3. CASE m # "slash"
    BY <1>3, <2>1, <2>3
  <2>4. QED BY <2>2, <2>3
<1>5. TokensPlaced(text)'
  BY <1>1, <1>4, TokensKept DEF TokenizerInv
<1>6. ReadSoFar(text)'
  <2>1. Between(text, i, i) = << >> /\ i - i = 0
    BY BetweenNothing
  <2>2. begun[2]' = i /\ begun[1]' = LinesBefore(text, i)
    BY <1>1, <1>2
  <2>3. m = "slash" => i > 0 /\ CharAt(text, i) = "/"
    <3>1. m = "slash" => f < i
      OBVIOUS
    <3>2. QED BY <3>1
  <2>4. m = "string" => i \in 1 .. i /\ CharAt(text, i) = Quote
    OBVIOUS
  <2>5. QED BY <1>1, <2>1, <2>2, <2>3, <2>4 DEF ReadSoFar
<1>7. QED BY <1>4, <1>5, <1>6 DEF TokenizerInv

\* It ends, or throws.
LEMMA TokenizerStops ==
  ASSUME NEW text, TokenizerInv(text), InText(stream, text)', mode' \in {"ended", "thrown"},
         UNCHANGED <<begun, lexed>>, Floor <= stream.index',
         mode' = "thrown" => mode \notin {"start", "ended", "slash"}
  PROVE  TokenizerInv(text)'
<1> DEFINE i == stream.index'
<1>1. i \in Nat
  BY DEF InText
<1>2. Floor \in Nat /\ Floor' \in Nat /\ Floor <= Floor' /\ Floor' <= i
  <2>1. CASE mode' = "ended"
    BY <1>1, <2>1, FloorNat DEF Floor
  <2>2. CASE mode' = "thrown"
    <3>1. Floor' = begun[2] /\ Floor = begun[2]
      BY <2>2, FloorNat DEF Floor
    <3>2. QED BY <1>1, <3>1, FloorNat
  <2>3. QED BY <2>1, <2>2
<1>3. TokensPlaced(text)'
  BY <1>2, TokensKept DEF TokenizerInv
<1>4. ReadSoFar(text)'
  BY DEF ReadSoFar, TokenizerInv
<1>5. QED BY <1>2, <1>3, <1>4 DEF TokenizerInv

\* It returns a token.
LEMMA Returned ==
  ASSUME NEW text, TokenizerInv(text), InText(stream, text)', NEW token, Returns(token),
         mode \notin {"start", "ended", "slash"}, begun[2] <= stream.index',
         \/ token = Spelt(Between(text, begun[2], stream.index'))
         \/ begun[2] > 0 /\ CharAt(text, begun[2]) = Quote
  PROVE  TokenizerInv(text)'
<1> PICK i \in Nat, b \in Nat : i = stream.index' /\ b = begun[2]
  BY FloorNat DEF InText
<1> DEFINE t == [token |-> token, line |-> begun[1], index |-> begun[2]]
<1>1. /\ lexed' = Append(lexed, t) /\ mode' = "start" /\ UNCHANGED begun
  BY DEF Returns
<1>2. Floor = b /\ b <= i /\ begun[1] = LinesBefore(text, b)
  BY FloorNat DEF TokenizerInv, ReadSoFar
<1>3. Floor' = i
  BY <1>1 DEF Floor
<1>4. StandsAt(text, t, i)
  BY DEF StandsAt
<1>5. TokensPlaced(text)'
  <2>1. t.index = b /\ t.line = LinesBefore(text, b)
    BY <1>2
  <2>2. i \in t.index .. i
    BY <1>2, <2>1
  <2>3. \E q \in t.index .. Floor' : StandsAt(text, t, q)
    BY <1>3, <1>4, <2>2
  <2>4. TokensPlaced(text) /\ t.index \in Nat /\ Floor \in Nat /\ Floor <= t.index
    BY <1>2, <2>1 DEF TokenizerInv
  <2> HIDE DEF t
  <2>5. t.line = LinesBefore(text, t.index)
    BY <2>1
  <2>6. QED BY <1>1, <2>3, <2>4, <2>5, TokenAdded
<1>6. ReadSoFar(text)'
  BY <1>1 DEF ReadSoFar, TokenizerInv
<1>7. QED BY <1>3, <1>5, <1>6 DEF TokenizerInv

\* It goes on reading.
LEMMA Stayed ==
  ASSUME NEW text, TokenizerInv(text), Stay, stream' = Taken, mode \notin {"start", "ended", "slash"},
         mode \in {"word", "operator"} => word' = Append(word, Ahead),
         mode = "operator" => matched' \in 0 .. stream.index + 1 - begun[2]
  PROVE  TokenizerInv(text)'
<1> PICK i \in Nat, b \in Nat : i = stream.index /\ b = begun[2]
  BY FloorNat
<1>1. UNCHANGED <<mode, begun, lexed>>
  BY DEF Stay
<1>2. /\ InText(stream, text)' /\ stream.index' = i + 1 /\ Ahead = CharAt(text, i + 1)
  <2>1. InText(stream, text)
    BY DEF TokenizerInv
  <2>2. InText(Taken, text) /\ Taken.index = i + 1 /\ Ahead = CharAt(text, i + 1)
    BY <2>1, StreamTaken
  <2>3. QED BY <2>2 DEF InText
<1>3. b <= i /\ Floor = b
  BY FloorNat
<1>4. Floor' = b
  BY <1>1 DEF Floor
<1>5. TokensPlaced(text)'
  BY <1>1, <1>3, <1>4, TokensKept DEF TokenizerInv
<1>6. ReadSoFar(text)'
  <2>1. mode \in {"word", "operator"} => word' = Between(text, b, i + 1)
    <3>1. SUFFICES ASSUME mode \in {"word", "operator"} PROVE word' = Between(text, b, i + 1)
      OBVIOUS
    <3>2. word = Between(text, b, i)
      BY <3>1 DEF TokenizerInv, ReadSoFar
    <3>3. QED BY <1>2, <1>3, <3>1, <3>2, BetweenMore
  <2>2. mode = "string" => b \in 1 .. i + 1 /\ CharAt(text, b) = Quote
    BY <1>3 DEF TokenizerInv, ReadSoFar
  <2>3. begun[1] = LinesBefore(text, b)
    BY DEF TokenizerInv, ReadSoFar
  <2>4. mode = "operator" => matched' \in 0 .. (i + 1) - b
    OBVIOUS
  <2>5. b <= i + 1
    BY <1>3
  <2>6. /\ begun[2]' = b /\ begun[1]' = LinesBefore(text, b) /\ stream.index' = i + 1 /\ mode' = mode
    BY <1>1, <1>2, <2>3
  <2>7. QED BY <1>1, <2>1, <2>2, <2>4, <2>5, <2>6 DEF ReadSoFar
<1>7. QED BY <1>2, <1>3, <1>4, <1>5, <1>6 DEF TokenizerInv

-----------------------------------------------------------------------------
(* What is given back. *)
LEMMA TakenInText ==
  ASSUME NEW text, TokenizerInv(text), stream' = Taken
  PROVE  /\ InText(stream, text)' /\ stream.index' = stream.index + 1
         /\ Ahead = CharAt(text, stream.index + 1)
<1>1. InText(stream, text)
  BY DEF TokenizerInv
<1>2. InText(Taken, text) /\ Taken.index = stream.index + 1 /\ Ahead = CharAt(text, stream.index + 1)
  BY <1>1, StreamTaken
<1>3. QED BY <1>2 DEF InText

LEMMA OneBack ==
  ASSUME NEW text, TokenizerInv(text), stream' = PushBack(Taken, Ahead)
  PROVE  /\ InText(stream, text)' /\ stream.index' = stream.index
         /\ Ahead = CharAt(text, stream.index + 1)
<1> PICK i \in Nat : i = stream.index
  BY FloorNat
<1>1. InText(stream, text)
  BY DEF TokenizerInv
<1>2. /\ InText(Taken, text) /\ Taken.index = i + 1
      /\ Ahead = CharAt(text, i + 1) /\ Ahead \in Characters
  BY <1>1, StreamTaken
<1> DEFINE one == <<Ahead>>
           s == Taken
<1>3. one \in Seq(Characters) /\ Len(one) = 1 /\ AreAt(one, text, i)
  BY <1>2 DEF AreAt
<1>4. i = s.index - Len(one)
  BY <1>2, <1>3
<1>5. InText(s, text)
  BY <1>2
<1> HIDE DEF one, s
<1>6. InText(PushBackAll(s, one), text) /\ PushBackAll(s, one).index = i
  BY <1>3, <1>4, <1>5, StreamBack
<1>7. stream' = PushBackAll(s, one)
  BY DEF PushBack, s, one
<1>8. QED BY <1>2, <1>6, <1>7 DEF InText

LEMMA TwoBack ==
  ASSUME NEW text, TokenizerInv(text), NEW c, stream' = PushBackAll(Taken, <<c, Ahead>>),
         stream.index > 0, c = CharAt(text, stream.index)
  PROVE  InText(stream, text)' /\ stream.index' = stream.index - 1
<1> PICK i \in Nat : i = stream.index
  BY FloorNat
<1>1. InText(stream, text)
  BY DEF TokenizerInv
<1>2. /\ InText(Taken, text) /\ Taken.index = i + 1
      /\ Ahead = CharAt(text, i + 1) /\ Ahead \in Characters
  BY <1>1, StreamTaken
<1>3. c \in Characters
  <2>1. text \in Seq(Characters)
    BY <1>1 DEF InText
  <2>2. i \in Nat /\ i > 0
    OBVIOUS
  <2>3. i <= Len(text) => text[i] \in Characters
    BY <2>1, <2>2
  <2>4. QED BY <2>3 DEF CharAt, Characters
<1> DEFINE two == <<c, Ahead>>
           s == Taken
<1>0. PICK j \in Nat : j = i - 1
  OBVIOUS
<1>4. /\ two \in Seq(Characters) /\ Len(two) = 2 /\ DOMAIN two = {1, 2}
      /\ two[1] = c /\ two[2] = Ahead
  BY <1>2, <1>3
<1>5. j \in Nat /\ j + 1 = i /\ j + 2 = i + 1
  BY <1>0
<1>6. j = s.index - Len(two)
  BY <1>0, <1>2, <1>4
<1>7. InText(s, text)
  BY <1>2
<1> HIDE DEF two, s
<1>8. AreAt(two, text, j)
  BY <1>2, <1>4, <1>5 DEF AreAt
<1>9. InText(PushBackAll(s, two), text) /\ PushBackAll(s, two).index = j
  <2>1. two \in Seq(Characters) /\ j \in Nat
    BY <1>4, <1>5
  <2>2. QED BY <1>6, <1>7, <1>8, <2>1, StreamBack
<1>10. stream' = PushBackAll(s, two)
  BY DEF two, s
<1>11. QED BY <1>0, <1>9, <1>10 DEF InText

-----------------------------------------------------------------------------
(* Each function. *)
LEMMA StartInv ==
  ASSUME NEW text, TokenizerInv(text), Start
  PROVE  TokenizerInv(text)'
<1> PICK i \in Nat : i = stream.index
  BY FloorNat
<1>1. mode = "start" /\ Floor = i
  BY FloorNat DEF Start
<1>2. \/ stream' = Taken /\ Leaves("ended")
      \/ stream' = Taken /\ Enter("start")
      \/ stream' = PushBack(Taken, Ahead) /\ Enter("word")
      \/ stream' = Taken /\ Enter("string") /\ Ahead = Quote
      \/ stream' = Taken /\ Enter("slash") /\ Ahead = "/"
      \/ stream' = PushBack(Taken, Ahead) /\ Enter("operator")
  BY DEF Start
<1>3. stream' = Taken => /\ InText(stream, text)' /\ stream.index' = i + 1 /\ Floor <= stream.index'
                         /\ Ahead = CharAt(text, stream.index') /\ Floor < stream.index' /\ stream.index' > 0
  BY <1>1, TakenInText
<1>4. stream' = PushBack(Taken, Ahead) => InText(stream, text)' /\ Floor <= stream.index'
  BY <1>1, OneBack
<1>5. CASE stream' = Taken /\ Leaves("ended")
  BY <1>3, <1>5, TokenizerStops DEF Leaves
<1>6. CASE stream' = Taken /\ Enter("start")
  BY <1>3, <1>6, Entered
<1>7. CASE stream' = PushBack(Taken, Ahead) /\ Enter("word")
  BY <1>4, <1>7, Entered
<1>8. CASE stream' = Taken /\ Enter("string") /\ Ahead = Quote
  BY <1>3, <1>8, Entered
<1>9. CASE stream' = Taken /\ Enter("slash") /\ Ahead = "/"
  BY <1>3, <1>9, Entered
<1>10. CASE stream' = PushBack(Taken, Ahead) /\ Enter("operator")
  BY <1>4, <1>10, Entered
<1>11. QED BY <1>2, <1>5, <1>6, <1>7, <1>8, <1>9, <1>10

LEMMA AfterSlashInv ==
  ASSUME NEW text, TokenizerInv(text), AfterSlash
  PROVE  TokenizerInv(text)'
<1> PICK i \in Nat : i = stream.index
  BY FloorNat
<1>1. mode = "slash" /\ Floor = i - 1 /\ i > 0 /\ CharAt(text, i) = "/"
  BY FloorNat DEF AfterSlash, TokenizerInv, ReadSoFar
<1>2. \/ stream' = Taken /\ Enter("line comment")
      \/ stream' = Taken /\ Enter("block comment")
      \/ stream' = PushBackAll(Taken, <<"/", Ahead>>) /\ Enter("operator")
  BY DEF AfterSlash
<1>3. stream' = Taken => InText(stream, text)' /\ Floor <= stream.index'
  BY <1>1, TakenInText
<1>4. stream' = PushBackAll(Taken, <<"/", Ahead>>) => InText(stream, text)' /\ Floor <= stream.index'
  BY <1>1, TwoBack
<1>5. CASE stream' = Taken /\ Enter("line comment")
  BY <1>3, <1>5, Entered
<1>6. CASE stream' = Taken /\ Enter("block comment")
  BY <1>3, <1>6, Entered
<1>7. CASE stream' = PushBackAll(Taken, <<"/", Ahead>>) /\ Enter("operator")
  BY <1>4, <1>7, Entered
<1>8. QED BY <1>2, <1>5, <1>6, <1>7

LEMMA SkipLineCommentInv ==
  ASSUME NEW text, TokenizerInv(text), SkipLineComment
  PROVE  TokenizerInv(text)'
<1> PICK i \in Nat, f \in Nat : i = stream.index /\ f = Floor
  BY FloorNat
<1>1. mode = "line comment" /\ f <= i
  BY FloorNat DEF SkipLineComment
<1>2. \/ stream' = Taken /\ Enter("start")
      \/ stream' = PushBack(Taken, Ahead) /\ Enter("start")
      \/ stream' = Taken /\ Stay
  BY DEF SkipLineComment
<1>3. stream' = Taken => InText(stream, text)' /\ Floor <= stream.index'
  <2>1. stream' = Taken => InText(stream, text)' /\ stream.index' = i + 1
    BY TakenInText
  <2>2. QED BY <2>1, FloorNat
<1>4. stream' = PushBack(Taken, Ahead) => InText(stream, text)' /\ Floor <= stream.index'
  BY <1>1, OneBack
<1>5. CASE stream' = Taken /\ Enter("start")
  BY <1>3, <1>5, Entered
<1>6. CASE stream' = PushBack(Taken, Ahead) /\ Enter("start")
  BY <1>4, <1>6, Entered
<1>7. CASE stream' = Taken /\ Stay
  BY <1>1, <1>7, Stayed
<1>8. QED BY <1>2, <1>5, <1>6, <1>7

LEMMA SkipBlockCommentInv ==
  ASSUME NEW text, TokenizerInv(text), SkipBlockComment
  PROVE  TokenizerInv(text)'
<1> PICK i \in Nat, f \in Nat : i = stream.index /\ f = Floor
  BY FloorNat
<1>1. mode = "block comment" /\ f <= i
  BY FloorNat DEF SkipBlockComment
<1>2. \/ stream' = Taken /\ Enter("start")
      \/ stream' = PushBack(Taken, Ahead) /\ Leaves("thrown")
      \/ stream' = Taken /\ Stay
  BY DEF SkipBlockComment
<1>3. stream' = Taken => InText(stream, text)' /\ Floor <= stream.index'
  <2>1. stream' = Taken => InText(stream, text)' /\ stream.index' = i + 1
    BY TakenInText
  <2>2. QED BY <2>1, FloorNat
<1>4. stream' = PushBack(Taken, Ahead) => InText(stream, text)' /\ Floor <= stream.index'
  BY <1>1, OneBack
<1>5. CASE stream' = Taken /\ Enter("start")
  BY <1>3, <1>5, Entered
<1>6. CASE stream' = PushBack(Taken, Ahead) /\ Leaves("thrown")
  BY <1>1, <1>4, <1>6, TokenizerStops DEF Leaves
<1>7. CASE stream' = Taken /\ Stay
  BY <1>1, <1>7, Stayed
<1>8. QED BY <1>2, <1>5, <1>6, <1>7

LEMMA FetchStringInv ==
  ASSUME NEW text, TokenizerInv(text), FetchString
  PROVE  TokenizerInv(text)'
<1> PICK i \in Nat : i = stream.index
  BY FloorNat
<1>1. /\ mode = "string" /\ Floor <= i /\ Floor <= i + 1
      /\ begun[2] > 0 /\ CharAt(text, begun[2]) = Quote
      /\ begun[2] = Floor
  BY FloorNat DEF FetchString, TokenizerInv, ReadSoFar
<1>2. \/ stream' = PushBack(Taken, Ahead) /\ Leaves("thrown")
      \/ stream' = Taken /\ Stay
      \/ stream' = Taken /\ Returns(Quoted(word))
  BY DEF FetchString, Take
<1>3. stream' = Taken => InText(stream, text)' /\ Floor <= stream.index'
  BY <1>1, TakenInText
<1>4. stream' = PushBack(Taken, Ahead) => InText(stream, text)' /\ Floor <= stream.index'
  BY <1>1, OneBack
<1>5. CASE stream' = PushBack(Taken, Ahead) /\ Leaves("thrown")
  BY <1>1, <1>4, <1>5, TokenizerStops DEF Leaves
<1>6. CASE stream' = Taken /\ Stay
  BY <1>1, <1>6, Stayed
<1>7. CASE stream' = Taken /\ Returns(Quoted(word))
  BY <1>1, <1>3, <1>7, Returned
<1>8. QED BY <1>2, <1>5, <1>6, <1>7

\* A word, or what of it has no second point at its end.
LEMMA WordReturned ==
  ASSUME NEW text, TokenizerInv(text), InText(stream, text)', mode = "word", NEW w, ReturnsWord(w),
         begun[2] <= stream.index', w = Between(text, begun[2], stream.index')
  PROVE  TokenizerInv(text)'
<1>1. Returns(Spelt(w)) \/ Throws(w)
  BY DEF ReturnsWord
<1>2. CASE Returns(Spelt(w))
  BY <1>2, Returned
<1>3. CASE Throws(w)
  <2>1. mode' = "thrown" /\ UNCHANGED <<begun, lexed>> /\ Floor <= stream.index'
    BY <1>3, FloorNat DEF Throws
  <2>2. QED BY <2>1, TokenizerStops
<1>4. QED BY <1>1, <1>2, <1>3

LEMMA FetchWordInv ==
  ASSUME NEW text, TokenizerInv(text), FetchWord
  PROVE  TokenizerInv(text)'
<1>0. PICK i \in Nat, b \in Nat : i = stream.index /\ b = begun[2]
  BY FloorNat
<1>n. i \in Nat /\ b \in Nat
  BY <1>0
<1>1. mode = "word" /\ b <= i /\ word = Between(text, b, i)
  BY <1>0 DEF FetchWord, TokenizerInv, ReadSoFar
<1>2. Len(word) = i - b /\ \A k \in 1 .. i - b : word[k] = CharAt(text, b + k)
  <2>1. b <= i
    BY <1>1
  <2>2. /\ Len(Between(text, b, i)) = i - b
        /\ \A k \in 1 .. i - b : Between(text, b, i)[k] = CharAt(text, b + k)
    BY <1>n, <2>1, BetweenFacts
  <2>3. QED BY <1>1, <2>2
<1>3. \/ stream' = Taken /\ Take(Ahead)
      \/ /\ word # << >> /\ Last(word) = "."
         /\ stream' = PushBackAll(Taken, <<".", Ahead>>) /\ ReturnsWord(Front(word))
      \/ stream' = PushBack(Taken, Ahead) /\ ReturnsWord(word)
  BY DEF FetchWord
<1>4. CASE stream' = Taken /\ Take(Ahead)
  BY <1>1, <1>4, Stayed DEF Take
<1>5. CASE /\ word # << >> /\ Last(word) = "."
           /\ stream' = PushBackAll(Taken, <<".", Ahead>>) /\ ReturnsWord(Front(word))
  <2>1. b # i
    <3>1. SUFFICES ASSUME b = i PROVE FALSE
      OBVIOUS
    <3>2. word = << >>
      BY <1>0, <1>1, <3>1, BetweenNothing
    <3>3. QED BY <1>5, <3>2
  <2>2. PICK n \in Nat : n + 1 = i - b /\ b + n \in Nat /\ b <= b + n /\ b + n = i - 1 /\ n \in 0 .. i - b /\ i > 0
    <3> DEFINE m == i - b - 1
    <3>1. /\ m \in Nat /\ m + 1 = i - b /\ b + m \in Nat /\ b <= b + m /\ b + m = i - 1
          /\ m \in 0 .. i - b /\ i > 0
      BY <1>n, <1>1, <2>1
    <3> HIDE DEF m
    <3>2. QED BY <3>1
  <2>3. Last(word) = CharAt(text, i)
    <3>1. Last(word) = word[i - b]
      BY <1>2 DEF Last
    <3>2. i - b \in 1 .. i - b /\ b + (i - b) = i
      BY <1>0, <2>2
    <3>3. QED BY <1>2, <3>1, <3>2
  <2>4. Front(word) = Between(text, b, b + n)
    <3>1. Front(word) = SubSeq(word, 1, n)
      <4>1. (i - b) - 1 = n
        BY <1>0, <2>2
      <4>2. QED BY <1>2, <4>1 DEF Front
    <3>2. SubSeq(Between(text, b, i), 1, n) = Between(text, b, b + n)
      <4>1. b <= i /\ n \in 0 .. i - b
        BY <1>1, <2>2
      <4>2. QED BY <1>n, <4>1, BetweenPart
    <3>3. QED BY <1>1, <3>1, <3>2
  <2>5. InText(stream, text)' /\ stream.index' = b + n
    <3>1. stream.index > 0 /\ CharAt(text, stream.index) = "."
      BY <1>0, <1>5, <2>2, <2>3
    <3>2. InText(stream, text)' /\ stream.index' = stream.index - 1
      BY <1>5, <3>1, TwoBack
    <3>3. QED BY <1>0, <2>2, <3>2
  <2>6. begun[2] <= stream.index' /\ Front(word) = Between(text, begun[2], stream.index')
    BY <1>0, <2>2, <2>4, <2>5
  <2>7. QED BY <1>1, <1>5, <2>5, <2>6, WordReturned
<1>6. CASE stream' = PushBack(Taken, Ahead) /\ ReturnsWord(word)
  <2>1. InText(stream, text)' /\ stream.index' = i
    BY <1>0, <1>6, OneBack
  <2>2. begun[2] <= stream.index' /\ word = Between(text, begun[2], stream.index')
    BY <1>0, <1>1, <2>1
  <2>3. QED BY <1>1, <1>6, <2>1, <2>2, WordReturned
<1>7. QED BY <1>3, <1>4, <1>5, <1>6

LEMMA FetchOperatorInv ==
  ASSUME NEW text, TokenizerInv(text), FetchOperator
  PROVE  TokenizerInv(text)'
<1>0. PICK i \in Nat, b \in Nat : i = stream.index /\ b = begun[2]
  BY FloorNat
<1>n. i \in Nat /\ b \in Nat
  BY <1>0
<1> DEFINE chars == Append(word, Ahead)
           n == matched
           rest == SubSeq(chars, n + 1, Len(chars))
           s == Taken
<1>1. /\ mode = "operator" /\ b <= i /\ word = Between(text, b, i) /\ n \in 0 .. i - b
      /\ Floor = b
  BY <1>0, FloorNat DEF FetchOperator, TokenizerInv, ReadSoFar
<1>2. /\ InText(s, text) /\ s.index = i + 1 /\ Ahead = CharAt(text, i + 1)
  BY <1>0, StreamTaken DEF TokenizerInv
<1>3. chars = Between(text, b, i + 1) /\ Len(chars) = (i + 1) - b
  <2>1. chars = Between(text, b, i + 1)
    BY <1>0, <1>1, <1>2, BetweenMore
  <2> DEFINE q == i + 1
  <2>2. q \in Nat /\ b <= q
    BY <1>n, <1>1
  <2> HIDE DEF q
  <2>3. Len(Between(text, b, q)) = q - b
    BY <1>n, <2>2, BetweenFacts
  <2>4. QED BY <2>1, <2>3 DEF q
<1>4. \/ stream' = s /\ word' = chars /\ matched' = Match(chars) /\ Stay
      \/ /\ stream' = PushBackAll(s, rest)
         /\ Leaves("thrown") \/ Returns(Spelt(SubSeq(chars, 1, n)))
  BY DEF FetchOperator
<1>5. CASE stream' = s /\ word' = chars /\ matched' = Match(chars) /\ Stay
  <2>1. matched' \in 0 .. stream.index + 1 - begun[2]
    <3>1. matched' = Len(chars) \/ matched' = n
      BY <1>5 DEF Match
    <3>2. (i + 1) - b \in 0 .. (i + 1) - b /\ n \in 0 .. (i + 1) - b
      BY <1>0, <1>1
    <3>3. matched' \in 0 .. (i + 1) - b
      BY <1>3, <3>1, <3>2
    <3>4. QED BY <1>0, <3>3
  <2>2. QED BY <1>1, <1>5, <2>1, Stayed
<1>6. CASE /\ stream' = PushBackAll(s, rest)
           /\ Leaves("thrown") \/ Returns(Spelt(SubSeq(chars, 1, n)))
  <2>1. /\ b + n \in Nat /\ b <= b + n /\ b + n <= i + 1 /\ i + 1 \in Nat /\ b <= i + 1
        /\ n \in 0 .. (i + 1) - b
    BY <1>0, <1>1
  <2>2. /\ SubSeq(chars, 1, n) = Between(text, b, b + n)
        /\ rest = Between(text, b + n, i + 1)
    <3> DEFINE q == i + 1
    <3>a. q \in Nat /\ b <= q /\ n \in 0 .. q - b
      BY <2>1
    <3>b. chars = Between(text, b, q) /\ Len(chars) = q - b
      BY <1>3
    <3>1. q \in Nat /\ b <= q /\ n \in 0 .. q - b /\ chars = Between(text, b, q) /\ Len(chars) = q - b
      BY <3>a, <3>b
    <3> HIDE DEF q, n
    <3>2. /\ Part(Between(text, b, q), 1, n) = Between(text, b, b + n)
          /\ Part(Between(text, b, q), n + 1, q - b) = Between(text, b + n, q)
      BY <1>n, <3>a, BetweenParts
    <3>3. QED BY <3>1, <3>2, Zenon DEF q, Part
  <2>3. InText(stream, text)' /\ stream.index' = b + n
    <3>0. PICK j \in Nat : j = b + n
      BY <2>1
    <3>1. rest = Between(text, j, i + 1) /\ j <= i + 1
      BY <2>1, <2>2, <3>0
    <3>2. rest \in Seq(Characters) /\ Len(rest) = (i + 1) - j /\ AreAt(rest, text, j)
      <4> DEFINE q == i + 1
      <4>1. q \in Nat /\ j <= q /\ j \in Nat /\ rest = Between(text, j, q)
        BY <2>1, <3>0, <3>1
      <4>2. text \in Seq(Characters)
        BY DEF TokenizerInv, InText
      <4> HIDE DEF q, rest
      <4>3. rest \in Seq(Characters) /\ Len(rest) = q - j /\ AreAt(rest, text, j)
        BY <4>1, <4>2, BetweenIsAt
      <4>4. QED BY <4>3 DEF q
    <3>5. j = s.index - Len(rest) /\ j \in Nat
      BY <1>0, <1>2, <3>0, <3>2
    <3> HIDE DEF rest, s
    <3>6. InText(PushBackAll(s, rest), text) /\ PushBackAll(s, rest).index = j
      BY <1>2, <3>2, <3>5, StreamBack
    <3>7. QED BY <1>6, <3>0, <3>6 DEF InText
  <2>4. begun[2] <= stream.index' /\ Floor <= stream.index'
    BY <1>0, <1>1, <2>1, <2>3
  <2>5. CASE Leaves("thrown")
    BY <1>1, <2>3, <2>4, <2>5, TokenizerStops DEF Leaves
  <2>6. CASE Returns(Spelt(SubSeq(chars, 1, n)))
    <3>1. SubSeq(chars, 1, n) = Between(text, begun[2], stream.index')
      BY <1>0, <2>2, <2>3
    <3>2. QED BY <1>1, <2>3, <2>4, <2>6, <3>1, Returned
  <2>7. QED BY <1>6, <2>5, <2>6
<1>7. QED BY <1>4, <1>5, <1>6

-----------------------------------------------------------------------------
(* The theorems. *)
LEMMA InitInText ==
  ASSUME NEW text \in Seq(Characters), TokenizerInit(text)
  PROVE  TokenizerInv(text)
<1>1. LinesBefore(text, 0) = 0
  <2>1. {m \in 1 .. 0 : CharAt(text, m) = "\n"} = {}
    OBVIOUS
  <2>2. QED BY <2>1, FS_EmptySet DEF LinesBefore
<1>2. InText(stream, text)
  <2>1. /\ stream.text = text /\ stream.next = 0 /\ stream.pushed = << >> /\ stream.line = 0 /\ stream.index = 0
        /\ stream = [text |-> text, next |-> 0, pushed |-> << >>, line |-> 0, index |-> 0]
    BY DEF TokenizerInit
  <2>2. << >> \in Seq(Characters) /\ Len(<< >>) = 0 /\ DOMAIN << >> = {} /\ Len(text) \in Nat
    OBVIOUS
  <2>3. stream \in [text : Seq(Characters), next : Nat, pushed : Seq(Characters), line : Int, index : Nat]
    BY <2>1, <2>2
  <2>4. QED BY <1>1, <2>1, <2>2, <2>3 DEF InText
<1>3. stream.index = 0 /\ mode = "start" /\ begun = <<0, 0>> /\ lexed = << >>
  BY DEF TokenizerInit
<1>4. Floor = 0
  BY <1>3 DEF Floor
<1>5. ReadSoFar(text)
  BY <1>1, <1>3 DEF ReadSoFar
<1>6. TokensPlaced(text)
  BY <1>3 DEF TokensPlaced
<1>7. QED BY <1>2, <1>3, <1>4, <1>5, <1>6 DEF TokenizerInv

LEMMA StepInText ==
  ASSUME NEW text, TokenizerInv(text), [TokenizerStep]_tokenizerVars
  PROVE  TokenizerInv(text)'
<1>1. CASE UNCHANGED tokenizerVars
  <2>1. /\ stream' = stream /\ mode' = mode /\ word' = word /\ begun' = begun
        /\ matched' = matched /\ lexed' = lexed
    BY <1>1 DEF tokenizerVars
  <2>2. QED BY <2>1 DEF TokenizerInv, InText, ReadSoFar, Floor, TokensPlaced, Ending
<1>2. CASE Start
  BY <1>2, StartInv
<1>3. CASE AfterSlash
  BY <1>3, AfterSlashInv
<1>4. CASE FetchWord
  BY <1>4, FetchWordInv
<1>5. CASE FetchOperator
  BY <1>5, FetchOperatorInv
<1>6. CASE FetchString
  BY <1>6, FetchStringInv
<1>7. CASE SkipLineComment
  BY <1>7, SkipLineCommentInv
<1>8. CASE SkipBlockComment
  BY <1>8, SkipBlockCommentInv
<1>9. QED BY <1>1, <1>2, <1>3, <1>4, <1>5, <1>6, <1>7, <1>8 DEF TokenizerStep

LEMMA InTextGivesBack ==
  ASSUME NEW text, TokenizerInv(text)
  PROVE  GivenBackInOrder
<1> DEFINE p == stream.pushed
           t == stream.text
           i == stream.index
           z == stream.next
<1>1. /\ t = text /\ t \in Seq(Characters) /\ p \in Seq(Characters) /\ i \in Nat
      /\ z = IF i + Len(p) <= Len(t) THEN i + Len(p) ELSE Len(t)
      /\ \A k \in DOMAIN p : p[k] = CharAt(t, i + k)
      /\ stream.line = LinesBefore(t, i)
  BY DEF TokenizerInv, InText
<1>2. /\ DOMAIN p = 1 .. Len(p) /\ Len(p) \in Nat /\ DOMAIN t = 1 .. Len(t) /\ Len(t) \in Nat
  BY <1>1
<1>3. ASSUME NEW k \in DOMAIN p \cup DOMAIN t PROVE Coming(k) = CharAt(t, i + k)
  <2>1. k \in Nat \ {0}
    BY <1>2
  <2>2. CASE k <= Len(p)
    <3>1. k \in DOMAIN p
      BY <1>2, <2>1, <2>2
    <3>2. QED BY <1>1, <2>2, <3>1 DEF Coming
  <2>3. CASE ~ k <= Len(p)
    <3>1. Coming(k) = CharAt(t, z + k - Len(p))
      BY <2>3 DEF Coming
    <3>2. CASE i + Len(p) <= Len(t)
      <4>1. z + k - Len(p) = i + k
        <5> DEFINE l == Len(p)
        <5>1. z = i + l
          BY <1>1, <3>2
        <5>2. l \in Nat /\ i \in Nat /\ k \in Nat
          BY <1>1, <1>2, <2>1
        <5> HIDE DEF l, i, z
        <5>3. z + k - l = i + k
          BY <5>1, <5>2
        <5>4. QED BY <5>3 DEF l
      <4>2. QED BY <3>1, <4>1
    <3>3. CASE ~ i + Len(p) <= Len(t)
      <4>1. ~ z + k - Len(p) <= Len(t) /\ ~ i + k <= Len(t)
        <5> DEFINE l == Len(p)
                   m == Len(t)
        <5>1. z = m
          BY <1>1, <3>3
        <5>2. l \in Nat /\ i \in Nat /\ k \in Nat /\ m \in Nat /\ ~ i + l <= m /\ ~ k <= l
          BY <1>1, <1>2, <2>1, <2>3, <3>3
        <5> HIDE DEF l, i, z, m
        <5>3. ~ z + k - l <= m /\ ~ i + k <= m
          BY <5>1, <5>2
        <5>4. QED BY <5>3 DEF l, m
      <4>2. QED BY <3>1, <4>1 DEF CharAt
    <3>4. QED BY <3>2, <3>3
  <2>4. QED BY <2>2, <2>3
<1>4. QED BY <1>1, <1>3 DEF GivenBackInOrder

LEMMA InTextTokensInPlace ==
  ASSUME NEW text, TokenizerInv(text)
  PROVE  TokensInPlace
<1> DEFINE Limit(k) == IF k < Len(lexed) THEN lexed[k + 1].index ELSE stream.index
<1>1. stream.text = text
  BY DEF TokenizerInv, InText
<1>2. ASSUME NEW k \in DOMAIN lexed
      PROVE  /\ lexed[k].line = LinesBefore(text, lexed[k].index)
             /\ \E q \in lexed[k].index .. Limit(k) : StandsAt(text, lexed[k], q)
  <2>1. /\ lexed[k].index \in Nat /\ lexed[k].line = LinesBefore(text, lexed[k].index)
        /\ \E q \in lexed[k].index .. Ending(k) : StandsAt(text, lexed[k], q)
    BY DEF TokenizerInv, TokensPlaced
  <2>2. CASE k < Len(lexed)
    BY <2>1, <2>2 DEF Ending
  <2>3. CASE ~ k < Len(lexed)
    <3>1. Ending(k) = Floor /\ Limit(k) = stream.index
      BY <2>3 DEF Ending
    <3>2. PICK q \in lexed[k].index .. Floor : StandsAt(text, lexed[k], q)
      BY <2>1, <3>1
    <3>3. q \in lexed[k].index .. stream.index
      <4> DEFINE f == Floor
                 i == stream.index
                 l == lexed[k].index
      <4>1. f \in Nat /\ i \in Nat /\ f <= i /\ l \in Nat /\ q \in l .. f
        BY <2>1, <3>2, FloorNat
      <4> HIDE DEF f, i, l
      <4>2. q \in l .. i
        BY <4>1
      <4>3. QED BY <4>2 DEF i, l
    <3>4. \E r \in lexed[k].index .. Limit(k) : StandsAt(text, lexed[k], r)
      BY <3>1, <3>2, <3>3
    <3>5. QED BY <2>1, <3>4
  <2>4. QED BY <2>2, <2>3
<1>3. QED BY <1>1, <1>2 DEF TokensInPlace

(***************************************************************************)
(* Whatever the text, what the tokenizer has read ahead and given back to  *)
(* the PushBackStream comes again in the order of the text, and the lines  *)
(* and characters that the stream counts are those of the text.            *)
(***************************************************************************)
THEOREM TokenizerGivesBack ==
  ASSUME NEW text \in Seq(Characters)
  PROVE  TokenizerSpec(text) => []GivenBackInOrder
<1>1. TokenizerInit(text) => TokenizerInv(text)
  BY InitInText
<1>2. TokenizerInv(text) /\ [TokenizerStep]_tokenizerVars => TokenizerInv(text)'
  BY StepInText
<1>3. TokenizerInv(text) => GivenBackInOrder
  BY InTextGivesBack
<1>4. QED BY <1>1, <1>2, <1>3, PTL DEF TokenizerSpec

(***************************************************************************)
(* Every token that tokenize returns is written in the text from the place *)
(* that it says it is at, on the line that it says, and no two tokens have *)
(* a character of the text in common; a string literal stands behind its   *)
(* quote.                                                                  *)
(***************************************************************************)
THEOREM TokensStandInPlace ==
  ASSUME NEW text \in Seq(Characters)
  PROVE  TokenizerSpec(text) => []TokensInPlace
<1>1. TokenizerInit(text) => TokenizerInv(text)
  BY InitInText
<1>2. TokenizerInv(text) /\ [TokenizerStep]_tokenizerVars => TokenizerInv(text)'
  BY StepInText
<1>3. TokenizerInv(text) => TokensInPlace
  BY InTextTokensInPlace
<1>4. QED BY <1>1, <1>2, <1>3, PTL DEF TokenizerSpec


-----------------------------------------------------------------------------
(* The classes. *)

\* What the proofs need to know of a class.
GoodClass(c, function) ==
  /\ c.members \in Seq(SUBSET Kinds)
  /\ c.vector \in SUBSET Kinds
  /\ c.set \subseteq DOMAIN c.members
  /\ c.take \subseteq DOMAIN c.members
  /\ c.take # {} => c.vector = {}
  /\ c.edit # {} => c.vector # {} /\ c.members = << >>
  /\ c.vector # {} => Len(c.members) = IF function THEN 1 ELSE 0

ClassOK(k) ==
  /\ GoodClass(Class[k], k = "Function")
  /\ k = "Call" => Class[k].edit = {}

(* A class whose nodes have no vector. *)
LEMMA MembersOnly ==
  ASSUME NEW c, NEW m \in Seq(SUBSET Kinds),
         c.members = m, c.vector = {}, c.set = DOMAIN m, c.take \subseteq DOMAIN m, c.edit = {}
  PROVE  GoodClass(c, FALSE)
BY DEF GoodClass

(* One whose nodes have a vector. *)
LEMMA WithVector ==
  ASSUME NEW c, NEW m \in Seq(SUBSET Kinds), NEW function \in BOOLEAN,
         Len(m) = IF function THEN 1 ELSE 0, c.edit # {} => m = << >>,
         c.members = m, c.vector \in SUBSET Kinds, c.vector # {}, c.set = {}, c.take = {}
  PROVE  GoodClass(c, function)
BY DEF GoodClass

LEMMA ClassFacts == \A k \in Kinds : ClassOK(k)
<1>1. /\ Targets \in SUBSET Kinds /\ Expressions \in SUBSET Kinds
      /\ Statements \in SUBSET Kinds /\ Statements # {} /\ Expressions # {}
      /\ {"Block"} \in SUBSET Kinds /\ {"Variable"} \in SUBSET Kinds
      /\ {"FunctionParameter"} \in SUBSET Kinds
  BY DEF Kinds, Statements, Targets, Expressions
<1>2. /\ << >> \in Seq(SUBSET Kinds)
      /\ \A a \in SUBSET Kinds : <<a>> \in Seq(SUBSET Kinds)
      /\ \A a, b \in SUBSET Kinds : <<a, b>> \in Seq(SUBSET Kinds)
      /\ \A a, b, c \in SUBSET Kinds : <<a, b, c>> \in Seq(SUBSET Kinds)
      /\ \A a, b, c, d \in SUBSET Kinds : <<a, b, c, d>> \in Seq(SUBSET Kinds)
  OBVIOUS
<1> HIDE DEF Kinds
<1>3. ClassOK("Assignment")
  <2> DEFINE m == <<Targets, Expressions>>
  <2>1. m \in Seq(SUBSET Kinds)
    BY <1>1, <1>2
  <2>2. /\ Assignment.members = m /\ Assignment.vector = {} /\ Assignment.set = DOMAIN m
        /\ Assignment.take = {1, 2} /\ Assignment.edit = {}
    BY DEF Assignment, Of
  <2>3. {1, 2} \subseteq DOMAIN m
    OBVIOUS
  <2> HIDE DEF m
  <2>4. GoodClass(Assignment, FALSE)
    BY <2>1, <2>2, <2>3, MembersOnly
  <2>5. Class["Assignment"] = Assignment
    BY DEF Class
  <2>6. QED BY <2>4, <2>5 DEF ClassOK
<1>4. ClassOK("VariableDeclaration")
  <2> DEFINE m == <<{"Variable"}, Expressions>>
  <2>1. m \in Seq(SUBSET Kinds)
    BY <1>1, <1>2
  <2>2. /\ VariableDeclaration.members = m /\ VariableDeclaration.vector = {} /\ VariableDeclaration.set = DOMAIN m
        /\ VariableDeclaration.take = {1, 2} /\ VariableDeclaration.edit = {}
    BY DEF VariableDeclaration, Of
  <2>3. {1, 2} \subseteq DOMAIN m
    OBVIOUS
  <2> HIDE DEF m
  <2>4. GoodClass(VariableDeclaration, FALSE)
    BY <2>1, <2>2, <2>3, MembersOnly
  <2>5. Class["VariableDeclaration"] = VariableDeclaration
    BY DEF Class
  <2>6. QED BY <2>4, <2>5 DEF ClassOK
<1>5. ClassOK("Return")
  <2> DEFINE m == <<Expressions>>
  <2>1. m \in Seq(SUBSET Kinds)
    BY <1>1, <1>2
  <2>2. /\ Return.members = m /\ Return.vector = {} /\ Return.set = DOMAIN m
        /\ Return.take = {} /\ Return.edit = {}
    BY DEF Return, Of
  <2>3. {} \subseteq DOMAIN m
    OBVIOUS
  <2> HIDE DEF m
  <2>4. GoodClass(Return, FALSE)
    BY <2>1, <2>2, <2>3, MembersOnly
  <2>5. Class["Return"] = Return
    BY DEF Class
  <2>6. QED BY <2>4, <2>5 DEF ClassOK
<1>6. ClassOK("If")
  <2> DEFINE m == <<Expressions, {"Block"}, {"Block"}>>
  <2>1. m \in Seq(SUBSET Kinds)
    BY <1>1, <1>2
  <2>2. /\ If.members = m /\ If.vector = {} /\ If.set = DOMAIN m
        /\ If.take = {} /\ If.edit = {}
    BY DEF If, Of
  <2>3. {} \subseteq DOMAIN m
    OBVIOUS
  <2> HIDE DEF m
  <2>4. GoodClass(If, FALSE)
    BY <2>1, <2>2, <2>3, MembersOnly
  <2>5. Class["If"] = If
    BY DEF Class
  <2>6. QED BY <2>4, <2>5 DEF ClassOK
<1>7. ClassOK("For")
  <2> DEFINE m == <<{"Block"}, Expressions, {"Block"}, {"Block"}>>
  <2>1. m \in Seq(SUBSET Kinds)
    BY <1>1, <1>2
  <2>2. /\ For.members = m /\ For.vector = {} /\ For.set = DOMAIN m
        /\ For.take = {} /\ For.edit = {}
    BY DEF For, Of
  <2>3. {} \subseteq DOMAIN m
    OBVIOUS
  <2> HIDE DEF m
  <2>4. GoodClass(For, FALSE)
    BY <2>1, <2>2, <2>3, MembersOnly
  <2>5. Class["For"] = For
    BY DEF Class
  <2>6. QED BY <2>4, <2>5 DEF ClassOK
<1>8. ClassOK("BinaryExpression")
  <2> DEFINE m == <<Expressions, Expressions>>
  <2>1. m \in Seq(SUBSET Kinds)
    BY <1>1, <1>2
  <2>2. /\ BinaryExpression.members = m /\ BinaryExpression.vector = {} /\ BinaryExpression.set = DOMAIN m
        /\ BinaryExpression.take = {} /\ BinaryExpression.edit = {}
    BY DEF BinaryExpression, Of
  <2>3. {} \subseteq DOMAIN m
    OBVIOUS
  <2> HIDE DEF m
  <2>4. GoodClass(BinaryExpression, FALSE)
    BY <2>1, <2>2, <2>3, MembersOnly
  <2>5. Class["BinaryExpression"] = BinaryExpression
    BY DEF Class
  <2>6. QED BY <2>4, <2>5 DEF ClassOK
<1>9. ClassOK("UnaryExpression")
  <2> DEFINE m == <<Expressions>>
  <2>1. m \in Seq(SUBSET Kinds)
    BY <1>1, <1>2
  <2>2. /\ UnaryExpression.members = m /\ UnaryExpression.vector = {} /\ UnaryExpression.set = DOMAIN m
        /\ UnaryExpression.take = {} /\ UnaryExpression.edit = {}
    BY DEF UnaryExpression, Of
  <2>3. {} \subseteq DOMAIN m
    OBVIOUS
  <2> HIDE DEF m
  <2>4. GoodClass(UnaryExpression, FALSE)
    BY <2>1, <2>2, <2>3, MembersOnly
  <2>5. Class["UnaryExpression"] = UnaryExpression
    BY DEF Class
  <2>6. QED BY <2>4, <2>5 DEF ClassOK
<1>10. ClassOK("TernaryOperator")
  <2> DEFINE m == <<Expressions, Expressions, Expressions>>
  <2>1. m \in Seq(SUBSET Kinds)
    BY <1>1, <1>2
  <2>2. /\ TernaryOperator.members = m /\ TernaryOperator.vector = {} /\ TernaryOperator.set = DOMAIN m
        /\ TernaryOperator.take = {} /\ TernaryOperator.edit = {}
    BY DEF TernaryOperator, Of
  <2>3. {} \subseteq DOMAIN m
    OBVIOUS
  <2> HIDE DEF m
  <2>4. GoodClass(TernaryOperator, FALSE)
    BY <2>1, <2>2, <2>3, MembersOnly
  <2>5. Class["TernaryOperator"] = TernaryOperator
    BY DEF Class
  <2>6. QED BY <2>4, <2>5 DEF ClassOK
<1>11. ClassOK("IndexAccess")
  <2> DEFINE m == <<Targets, Expressions>>
  <2>1. m \in Seq(SUBSET Kinds)
    BY <1>1, <1>2
  <2>2. /\ IndexAccess.members = m /\ IndexAccess.vector = {} /\ IndexAccess.set = DOMAIN m
        /\ IndexAccess.take = {1} /\ IndexAccess.edit = {}
    BY DEF IndexAccess, Of
  <2>3. {1} \subseteq DOMAIN m
    OBVIOUS
  <2> HIDE DEF m
  <2>4. GoodClass(IndexAccess, FALSE)
    BY <2>1, <2>2, <2>3, MembersOnly
  <2>5. Class["IndexAccess"] = IndexAccess
    BY DEF Class
  <2>6. QED BY <2>4, <2>5 DEF ClassOK
<1>12. ClassOK("Variable")
  <2> DEFINE m == << >>
  <2>1. m \in Seq(SUBSET Kinds)
    BY <1>1, <1>2
  <2>2. /\ Variable.members = m /\ Variable.vector = {} /\ Variable.set = DOMAIN m
        /\ Variable.take = {} /\ Variable.edit = {}
    BY DEF Variable, Of
  <2>3. {} \subseteq DOMAIN m
    OBVIOUS
  <2> HIDE DEF m
  <2>4. GoodClass(Variable, FALSE)
    BY <2>1, <2>2, <2>3, MembersOnly
  <2>5. Class["Variable"] = Variable
    BY DEF Class
  <2>6. QED BY <2>4, <2>5 DEF ClassOK
<1>13. ClassOK("FunctionParameter")
  <2> DEFINE m == << >>
  <2>1. m \in Seq(SUBSET Kinds)
    BY <1>1, <1>2
  <2>2. /\ FunctionParameter.members = m /\ FunctionParameter.vector = {} /\ FunctionParameter.set = DOMAIN m
        /\ FunctionParameter.take = {} /\ FunctionParameter.edit = {}
    BY DEF FunctionParameter, Of
  <2>3. {} \subseteq DOMAIN m
    OBVIOUS
  <2> HIDE DEF m
  <2>4. GoodClass(FunctionParameter, FALSE)
    BY <2>1, <2>2, <2>3, MembersOnly
  <2>5. Class["FunctionParameter"] = FunctionParameter
    BY DEF Class
  <2>6. QED BY <2>4, <2>5 DEF ClassOK
<1>14. ClassOK("Literal")
  <2> DEFINE m == << >>
  <2>1. m \in Seq(SUBSET Kinds)
    BY <1>1, <1>2
  <2>2. /\ Literal.members = m /\ Literal.vector = {} /\ Literal.set = DOMAIN m
        /\ Literal.take = {} /\ Literal.edit = {}
    BY DEF Literal, Of
  <2>3. {} \subseteq DOMAIN m
    OBVIOUS
  <2> HIDE DEF m
  <2>4. GoodClass(Literal, FALSE)
    BY <2>1, <2>2, <2>3, MembersOnly
  <2>5. Class["Literal"] = Literal
    BY DEF Class
  <2>6. QED BY <2>4, <2>5 DEF ClassOK
<1>15. ClassOK("Block")
  <2> DEFINE m == << >>
  <2>1. m \in Seq(SUBSET Kinds) /\ Len(m) = IF FALSE THEN 1 ELSE 0
    BY <1>1, <1>2
  <2>2. /\ Block.members = m /\ Block.vector = Statements /\ Block.set = {}
        /\ Block.take = {}
    BY DEF Block, VectorOf
  <2>3. Block.edit # {} => m = << >>
    BY <2>2
  <2> HIDE DEF m
  <2>4. GoodClass(Block, FALSE)
    BY <1>1, <2>1, <2>2, <2>3, WithVector
  <2>5. Class["Block"] = Block
    BY DEF Class
  <2>6. QED BY <2>2, <2>4, <2>5 DEF ClassOK
<1>16. ClassOK("Function")
  <2> DEFINE m == <<{"Block"}>>
  <2>1. m \in Seq(SUBSET Kinds) /\ Len(m) = IF TRUE THEN 1 ELSE 0
    BY <1>1, <1>2
  <2>2. /\ Function.members = m /\ Function.vector = {"FunctionParameter"} /\ Function.set = {}
        /\ Function.take = {} /\ Function.edit = {}
    BY DEF Function, VectorOf
  <2>3. Function.edit # {} => m = << >>
    BY <2>2
  <2> HIDE DEF m
  <2>4. GoodClass(Function, TRUE)
    BY <1>1, <2>1, <2>2, <2>3, WithVector
  <2>5. Class["Function"] = Function
    BY DEF Class
  <2>6. QED BY <2>2, <2>4, <2>5 DEF ClassOK
<1>17. ClassOK("OperatorExpression")
  <2> DEFINE m == << >>
  <2>1. m \in Seq(SUBSET Kinds) /\ Len(m) = IF FALSE THEN 1 ELSE 0
    BY <1>1, <1>2
  <2>2. /\ OperatorExpression.members = m /\ OperatorExpression.vector = Expressions /\ OperatorExpression.set = {}
        /\ OperatorExpression.take = {}
    BY DEF OperatorExpression, VectorOf
  <2>3. OperatorExpression.edit # {} => m = << >>
    BY <2>2
  <2> HIDE DEF m
  <2>4. GoodClass(OperatorExpression, FALSE)
    BY <1>1, <2>1, <2>2, <2>3, WithVector
  <2>5. Class["OperatorExpression"] = OperatorExpression
    BY DEF Class
  <2>6. QED BY <2>2, <2>4, <2>5 DEF ClassOK
<1>18. ClassOK("Call")
  <2> DEFINE m == << >>
  <2>1. m \in Seq(SUBSET Kinds) /\ Len(m) = IF FALSE THEN 1 ELSE 0
    BY <1>1, <1>2
  <2>2. /\ Call.members = m /\ Call.vector = Expressions /\ Call.set = {}
        /\ Call.take = {} /\ Call.edit = {}
    BY DEF Call, VectorOf
  <2>3. Call.edit # {} => m = << >>
    BY <2>2
  <2> HIDE DEF m
  <2>4. GoodClass(Call, FALSE)
    BY <1>1, <2>1, <2>2, <2>3, WithVector
  <2>5. Class["Call"] = Call
    BY DEF Class
  <2>6. QED BY <2>2, <2>4, <2>5 DEF ClassOK
<1>19. ClassOK("ExpressionList")
  <2> DEFINE m == << >>
  <2>1. m \in Seq(SUBSET Kinds) /\ Len(m) = IF FALSE THEN 1 ELSE 0
    BY <1>1, <1>2
  <2>2. /\ ExpressionList.members = m /\ ExpressionList.vector = Expressions /\ ExpressionList.set = {}
        /\ ExpressionList.take = {}
    BY DEF ExpressionList, VectorOf
  <2>3. ExpressionList.edit # {} => m = << >>
    BY <2>2
  <2> HIDE DEF m
  <2>4. GoodClass(ExpressionList, FALSE)
    BY <1>1, <2>1, <2>2, <2>3, WithVector
  <2>5. Class["ExpressionList"] = ExpressionList
    BY DEF Class
  <2>6. QED BY <2>2, <2>4, <2>5 DEF ClassOK
<1> HIDE DEF ClassOK
<1>20. QED
  BY <1>3, <1>4, <1>5, <1>6, <1>7, <1>8, <1>9, <1>10, <1>11, <1>12, <1>13, <1>14, <1>15, <1>16, <1>17, <1>18, <1>19
     DEF Kinds, Statements, Targets, Expressions

-----------------------------------------------------------------------------
(* Children. *)

KidsIn(ch) == [m \in Nodes |-> NodesIn(ch[m])]

AliveIn(kinds) == {m \in Nodes : kinds[m] # Free}

\* No node has the same child twice.
NoRepeats(ch) ==
  \A m \in Nodes : \A i, j \in DOMAIN ch[m] : ch[m][i] = ch[m][j] /\ ch[m][i] # Null => i = j

LEMMA NodesInFacts ==
  ASSUME NEW c \in Seq(Nodes \cup {Null})
  PROVE  /\ NodesIn(c) \in SUBSET Nodes
         /\ \A m : m \in NodesIn(c) <=> m \in Nodes /\ \E i \in DOMAIN c : c[i] = m
<1>1. \A i \in DOMAIN c : c[i] \in Nodes \cup {Null}
  OBVIOUS
<1>2. Null \notin Nodes
  BY HeapAssumption
<1>3. QED BY <1>1, <1>2 DEF NodesIn, Range

LEMMA NoChildren ==
  /\ NodesIn(<< >>) = {} /\ << >> \in Seq(Nodes \cup {Null})
  /\ Len(<< >>) = 0 /\ DOMAIN << >> = {}
<1>1. DOMAIN << >> = {}
  OBVIOUS
<1>2. QED BY <1>1 DEF NodesIn, Range

LEMMA KidsFacts ==
  ASSUME NEW ch \in [Nodes -> Seq(Nodes \cup {Null})]
  PROVE  /\ KidsIn(ch) \in [Nodes -> SUBSET Nodes]
         /\ \A m \in Nodes : KidsIn(ch)[m] = NodesIn(ch[m])
         /\ \A R : BelowIn(ch, R) = Under(KidsIn(ch), R)
<1>1. \A m \in Nodes : NodesIn(ch[m]) \in SUBSET Nodes
  BY NodesInFacts
<1>2. KidsIn(ch) \in [Nodes -> SUBSET Nodes] /\ \A m \in Nodes : KidsIn(ch)[m] = NodesIn(ch[m])
  BY <1>1 DEF KidsIn
<1>3. \A S \in SUBSET Nodes : Closed(ch, S) <=> ClosedUnder(KidsIn(ch), S)
  BY <1>2 DEF Closed, ClosedUnder
<1>4. QED BY <1>2, <1>3 DEF BelowIn, Under

(* A node's class says how long its vector may be. *)
LEMMA FitsFacts ==
  ASSUME NEW k \in Kinds, NEW kinds, NEW c \in Seq(Nodes \cup {Null}), Fits(k, kinds, c)
  PROVE  /\ Len(c) \in Nat /\ DOMAIN c = 1 .. Len(c)
         /\ Class[k].members \in Seq(SUBSET Kinds)
         /\ Len(Class[k].members) \in Nat
         /\ DOMAIN Class[k].members = 1 .. Len(Class[k].members)
         /\ VectorLength(k, c) \in Nat
         /\ Len(c) = VectorLength(k, c) + Len(Class[k].members)
         /\ Class[k].vector = {} => VectorLength(k, c) = 0
         /\ \A i \in DOMAIN c : c[i] # Null => kinds[c[i]] \in Kinds
<1>1. /\ Class[k].members \in Seq(SUBSET Kinds) /\ Class[k].vector \in SUBSET Kinds
  BY ClassFacts DEF ClassOK, GoodClass
<1> DEFINE M == Class[k].members
<1>2. Len(c) \in Nat /\ DOMAIN c = 1 .. Len(c) /\ Len(M) \in Nat /\ DOMAIN M = 1 .. Len(M)
  BY <1>1
<1>3. VectorLength(k, c) = Len(c) - Len(M)
  BY DEF VectorLength
<1>4. VectorLength(k, c) >= 0 /\ (Class[k].vector = {} => VectorLength(k, c) = 0)
  BY <1>2, <1>3 DEF Fits
<1>5. \A i \in DOMAIN c : Admitted(k, c, i) \in SUBSET Kinds
  <2> SUFFICES ASSUME NEW i \in DOMAIN c, ~ i <= VectorLength(k, c)
               PROVE  M[i - VectorLength(k, c)] \in SUBSET Kinds
    BY <1>1 DEF Admitted
  <2>1. i - VectorLength(k, c) \in DOMAIN M
    <3>1. i \in 1 .. Len(c) /\ Len(c) \in Nat /\ Len(M) \in Nat /\ DOMAIN M = 1 .. Len(M)
      BY <1>2
    <3>2. ~ i <= Len(c) - Len(M)
      BY <1>3
    <3>3. i - (Len(c) - Len(M)) \in 1 .. Len(M)
      <4> HIDE DEF M
      <4>1. QED BY <3>1, <3>2
    <3>4. QED BY <1>3, <3>1, <3>3
  <2>2. QED BY <1>1, <2>1
<1>6. \A i \in DOMAIN c : c[i] # Null => kinds[c[i]] \in Kinds
  BY <1>5 DEF Fits
<1>7. QED BY <1>1, <1>2, <1>3, <1>4, <1>6

(* Nodes of the same kinds at the same places fit, too. *)
LEMMA FitsSame ==
  ASSUME NEW k, NEW kinds, NEW c, NEW others, NEW d,
         Fits(k, kinds, c), Len(d) = Len(c), DOMAIN d = DOMAIN c,
         \A i \in DOMAIN d : d[i] # Null => c[i] # Null /\ others[d[i]] = kinds[c[i]]
  PROVE  Fits(k, others, d)
BY DEF Fits, VectorLength, Admitted

-----------------------------------------------------------------------------
(* The invariant of the nodes. *)

\* Parent pointers point at owners, but for nodes that were moved.
OwnersTold(kinds, ch, par, moved) ==
  \A m \in Nodes \ moved : kinds[m] # Free /\ par[m] # Null =>
    \/ m \in NodesIn(ch[par[m]])
    \/ \E o \in Nodes : kinds[o] = "Call" /\ m \in NodesIn(ch[o])

HeapTypes(kinds, ch, par) ==
  /\ kinds \in [Nodes -> Kinds \cup {Free}]
  /\ ch \in [Nodes -> Seq(Nodes \cup {Null})]
  /\ par \in [Nodes -> Nodes \cup {Null}]

AllFit(kinds, ch, par) ==
  \A m \in Nodes : IF kinds[m] # Free THEN Fits(kinds[m], kinds, ch[m])
                   ELSE ch[m] = << >> /\ par[m] = Null

\* The nodes are a forest whose roots the client holds.
HeapOK(kinds, ch, par, held, moved) ==
  /\ HeapTypes(kinds, ch, par)
  /\ AllFit(kinds, ch, par)
  /\ moved \subseteq AliveIn(kinds)
  /\ Forest(KidsIn(ch), AliveIn(kinds), held)
  /\ NoRepeats(ch)
  /\ OwnersTold(kinds, ch, par, moved)

NodeInv ==
  /\ HeapOK(kind, child, parent, hand, stray)
  /\ undefined \in BOOLEAN
  /\ calls \in 0 .. MaxCalls

(* What a call makes of the heap, with the nodes dead still to be left     *)
(* out.                                                                    *)
KidsAfter(ch, dead) == [m \in Nodes |-> IF m \in dead THEN {} ELSE NodesIn(ch[m])]

SoundAfter(kinds, ch, par, held, moved, dead) ==
  /\ HeapTypes(kinds, ch, par)
  /\ \A m \in Nodes \ dead : IF kinds[m] # Free THEN Fits(kinds[m], kinds, ch[m])
                             ELSE ch[m] = << >> /\ par[m] = Null
  /\ \A m \in Nodes \ dead : NodesIn(ch[m]) \cap dead = {}
  /\ \A m \in dead : NodesIn(ch[m]) \subseteq dead
  /\ \A m \in Nodes \ dead : \A i, j \in DOMAIN ch[m] :
       ch[m][i] = ch[m][j] /\ ch[m][i] # Null => i = j
  /\ OwnersTold(kinds, ch, par, moved \cup dead)
  /\ moved \ dead \subseteq AliveIn(kinds)
  /\ Forest(KidsAfter(ch, dead), AliveIn(kinds) \ dead, held \ dead)

LEMMA KidsAfterFacts ==
  ASSUME NEW ch \in [Nodes -> Seq(Nodes \cup {Null})], NEW dead
  PROVE  /\ KidsAfter(ch, dead) \in [Nodes -> SUBSET Nodes]
         /\ \A m \in Nodes : KidsAfter(ch, dead)[m] = IF m \in dead THEN {} ELSE NodesIn(ch[m])
BY NodesInFacts DEF KidsAfter

(* Then what the call leaves behind is sound.                              *)
LEMMA AfterCall ==
  ASSUME NEW kinds, NEW ch, NEW par, NEW held, NEW moved, NEW dead \in SUBSET Nodes,
         SoundAfter(kinds, ch, par, held, moved, dead),
         Becomes(kinds, ch, par, held, moved, dead)
  PROVE  HeapOK(kind', child', parent', hand', stray')
<1> USE DEF SoundAfter
<1>1. /\ kind' = [m \in Nodes |-> IF m \in dead THEN Free ELSE kinds[m]]
      /\ child' = [m \in Nodes |-> IF m \in dead THEN << >> ELSE ch[m]]
      /\ parent' = [m \in Nodes |-> IF m \in dead THEN Null ELSE par[m]]
      /\ hand' = held \ dead /\ stray' = moved \ dead
  BY DEF Becomes
<1>2. HeapTypes(kind', child', parent')
  BY <1>1, NoChildren DEF HeapTypes
<1>3. Free \notin Kinds
  BY HeapAssumption
<1>4. AliveIn(kind') = AliveIn(kinds) \ dead
  BY <1>1 DEF AliveIn
<1>5. AllFit(kind', child', parent')
  <2> SUFFICES ASSUME NEW m \in Nodes
               PROVE  IF kind'[m] # Free THEN Fits(kind'[m], kind', child'[m])
                      ELSE child'[m] = << >> /\ parent'[m] = Null
    BY DEF AllFit
  <2>1. CASE m \in dead
    BY <1>1, <2>1
  <2>2. CASE m \notin dead
    <3>1. kind'[m] = kinds[m] /\ child'[m] = ch[m] /\ parent'[m] = par[m]
      BY <1>1, <2>2
    <3>2. \A i \in DOMAIN ch[m] : ch[m][i] # Null => kind'[ch[m][i]] = kinds[ch[m][i]]
      <4> SUFFICES ASSUME NEW i \in DOMAIN ch[m], ch[m][i] # Null
                   PROVE  kind'[ch[m][i]] = kinds[ch[m][i]]
        OBVIOUS
      <4>1. ch[m] \in Seq(Nodes \cup {Null})
        BY DEF HeapTypes
      <4>2. ch[m][i] \in NodesIn(ch[m]) /\ ch[m][i] \in Nodes
        BY <4>1 DEF NodesIn, Range
      <4>3. QED BY <1>1, <2>2, <4>2
    <3>3. ASSUME kinds[m] # Free PROVE Fits(kinds[m], kind', ch[m])
      <4>1. Fits(kinds[m], kinds, ch[m])
        BY <2>2, <3>3
      <4>2. QED BY <3>2, <4>1, FitsSame
    <3>4. QED BY <2>2, <3>1, <3>3
  <2>3. QED BY <2>1, <2>2
<1>6. stray' \subseteq AliveIn(kind')
  BY <1>1, <1>4
<1>7. \A m \in Nodes : NodesIn(child'[m]) = IF m \in dead THEN {} ELSE NodesIn(ch[m])
  BY <1>1, NoChildren
<1>8. KidsAfter(ch, dead) = KidsIn(child')
  BY <1>7 DEF KidsIn, KidsAfter
<1>9. NoRepeats(child')
  BY <1>1, NoChildren DEF NoRepeats
<1>10. OwnersTold(kind', child', parent', stray')
  <2> SUFFICES ASSUME NEW m \in Nodes, m \notin stray', kind'[m] # Free, parent'[m] # Null
               PROVE  \/ m \in NodesIn(child'[parent'[m]])
                      \/ \E o \in Nodes : kind'[o] = "Call" /\ m \in NodesIn(child'[o])
    BY DEF OwnersTold
  <2>1. m \notin dead /\ m \notin moved /\ kinds[m] # Free /\ par[m] # Null /\ parent'[m] = par[m]
    BY <1>1
  <2>2. par[m] \in Nodes
    BY <2>1 DEF HeapTypes
  <2>3. \A o \in Nodes : m \in NodesIn(ch[o]) =>
          o \notin dead /\ m \in NodesIn(child'[o]) /\ kind'[o] = kinds[o]
    BY <1>1, <1>7, <2>1
  <2>4. \/ m \in NodesIn(ch[par[m]])
        \/ \E o \in Nodes : kinds[o] = "Call" /\ m \in NodesIn(ch[o])
    BY <2>1 DEF OwnersTold
  <2>5. QED BY <2>1, <2>2, <2>3, <2>4
<1>11. QED BY <1>1, <1>2, <1>4, <1>5, <1>6, <1>8, <1>9, <1>10 DEF HeapOK

(* What the invariant says of the nodes as they are. *)
LEMMA HeapFacts ==
  ASSUME NodeInv
  PROVE  /\ kind \in [Nodes -> Kinds \cup {Free}]
         /\ child \in [Nodes -> Seq(Nodes \cup {Null})]
         /\ parent \in [Nodes -> Nodes \cup {Null}]
         /\ Live = AliveIn(kind) /\ Live \in SUBSET Nodes
         /\ \A m \in Live : kind[m] \in Kinds /\ Fits(kind[m], kind, child[m])
         /\ \A m \in Nodes \ Live : child[m] = << >> /\ parent[m] = Null
         /\ KidsIn(child) \in [Nodes -> SUBSET Nodes]
         /\ \A m \in Nodes : KidsIn(child)[m] = NodesIn(child[m]) /\ NodesIn(child[m]) \in SUBSET Live
         /\ \A R : Below(R) = Under(KidsIn(child), R)
         /\ Forest(KidsIn(child), Live, hand)
         /\ hand \in SUBSET Live /\ stray \in SUBSET Live /\ Null \notin Nodes
         /\ \A h \in hand : \A o \in Nodes : h \notin NodesIn(child[o])
         /\ NoRepeats(child) /\ OwnersTold(kind, child, parent, stray)
<1>1. HeapOK(kind, child, parent, hand, stray)
  BY DEF NodeInv
<1>2. /\ kind \in [Nodes -> Kinds \cup {Free}] /\ child \in [Nodes -> Seq(Nodes \cup {Null})]
      /\ parent \in [Nodes -> Nodes \cup {Null}]
  BY <1>1 DEF HeapOK, HeapTypes
<1>3. Live = AliveIn(kind) /\ Live \in SUBSET Nodes
  BY DEF Live, AliveIn
<1>4. Forest(KidsIn(child), Live, hand)
  BY <1>1, <1>3 DEF HeapOK
<1>5. /\ KidsIn(child) \in [Nodes -> SUBSET Nodes]
      /\ \A m \in Nodes : KidsIn(child)[m] = NodesIn(child[m])
      /\ \A R : Below(R) = Under(KidsIn(child), R)
  BY <1>2, KidsFacts DEF Below
<1>6. hand \in SUBSET Live /\ \A m \in Nodes : KidsIn(child)[m] \in SUBSET Live
  BY <1>4, <1>5 DEF Forest
<1>7. stray \in SUBSET Live /\ NoRepeats(child) /\ OwnersTold(kind, child, parent, stray)
  BY <1>1, <1>3 DEF HeapOK
<1>8. /\ \A m \in Live : kind[m] \in Kinds /\ Fits(kind[m], kind, child[m])
      /\ \A m \in Nodes \ Live : child[m] = << >> /\ parent[m] = Null
  BY <1>1, <1>2 DEF HeapOK, AllFit, Live
<1>9. \A h \in hand : \A o \in Nodes : h \notin NodesIn(child[o])
  BY <1>4, <1>5 DEF Forest
<1>10. QED
  BY <1>2, <1>3, <1>4, <1>5, <1>6, <1>7, <1>8, <1>9, HeapAssumption

-----------------------------------------------------------------------------
(* Calls on one node. *)

(* A node gets children c: of those it had, it loses D, and X are given to *)
(* it.                                                                     *)
Exchanged(n, c, D, X) ==
  /\ n \in Live /\ c \in Seq(Nodes \cup {Null})
  /\ D \in SUBSET NodesIn(child[n]) /\ X \in SUBSET hand /\ n \notin Below(X)
  /\ NodesIn(c) = (NodesIn(child[n]) \ D) \cup X
  /\ Fits(kind[n], kind, c)
  /\ \A i, j \in DOMAIN c : c[i] = c[j] /\ c[i] # Null => i = j

(* What it loses may die.                                                  *)
LEMMA EditInv ==
  ASSUME NodeInv, NEW n, NEW c, NEW D, NEW X, Exchanged(n, c, D, X),
         Becomes(kind, [child EXCEPT ![n] = c], parent, hand \ X, stray, Below(D))
  PROVE  HeapOK(kind', child', parent', hand', stray')
<1> DEFINE kid == KidsIn(child)
           dead == Under(kid, D)
           ch == [child EXCEPT ![n] = c]
           next == KidsAfter(ch, dead)
<1>1. /\ n \in Nodes /\ Live \in SUBSET Nodes /\ Live = AliveIn(kind)
      /\ kid \in [Nodes -> SUBSET Nodes] /\ Forest(kid, Live, hand)
      /\ \A m \in Nodes : kid[m] = NodesIn(child[m])
      /\ Below(D) = dead /\ n \notin Under(kid, X)
      /\ D \in SUBSET kid[n] /\ X \in SUBSET hand /\ stray \in SUBSET Live
      /\ n \in Live /\ c \in Seq(Nodes \cup {Null})
      /\ NodesIn(c) = (kid[n] \ D) \cup X /\ Fits(kind[n], kind, c)
      /\ \A i, j \in DOMAIN c : c[i] = c[j] /\ c[i] # Null => i = j
  BY HeapFacts DEF Exchanged
<1>2. /\ HeapTypes(kind, child, parent) /\ AllFit(kind, child, parent)
      /\ NoRepeats(child) /\ OwnersTold(kind, child, parent, stray)
  BY DEF NodeInv, HeapOK
<1>3. ch \in [Nodes -> Seq(Nodes \cup {Null})]
      /\ \A m \in Nodes : ch[m] = IF m = n THEN c ELSE child[m]
  BY <1>1, <1>2 DEF HeapTypes
<1> HIDE DEF ch
<1>4. next \in [Nodes -> SUBSET Nodes]
      /\ \A m \in Nodes : next[m] = IF m \in dead THEN {} ELSE NodesIn(ch[m])
  BY <1>3, KidsAfterFacts
<1>5. \A m \in Nodes : next[m] = IF m \in dead THEN {}
                               ELSE IF m = n THEN (kid[n] \ D) \cup X ELSE kid[m]
  BY <1>1, <1>3, <1>4
<1> HIDE DEF next, kid
<1>6. /\ Forest(next, Live \ dead, hand \ X)
      /\ dead \subseteq Live /\ n \notin dead /\ hand \cap dead = {}
      /\ \A m \in dead : kid[m] \subseteq dead
      /\ \A m \in Live \ dead : next[m] \cap dead = {}
  <2>1. /\ n \in Live /\ D \in SUBSET kid[n] /\ X \in SUBSET hand /\ n \notin Under(kid, X)
        /\ kid \in [Nodes -> SUBSET Nodes] /\ Forest(kid, Live, hand)
        /\ D \in SUBSET Nodes
    BY <1>1 DEF Forest
  <2> HIDE DEF dead
  <2>2. /\ Forest(Replaced(kid, n, D, X), Live \ Under(kid, D), hand \ X)
        /\ Under(kid, D) \subseteq Live
        /\ n \notin Under(kid, D) /\ hand \cap Under(kid, D) = {}
    BY <2>1, ForestReplace
  <2>3. Replaced(kid, n, D, X) = next
    BY <1>1, <1>4, <1>5, <2>2 DEF Replaced, Killed, dead
  <2>4. ClosedUnder(kid, dead)
    BY <2>1, UnderFacts DEF dead
  <2>5. Forest(next, Live \ dead, hand \ X) /\ dead \subseteq Live /\ n \notin dead /\ hand \cap dead = {}
    BY <2>2, <2>3 DEF dead
  <2>6. \A m \in Live \ dead : next[m] \subseteq Live \ dead
    BY <1>1, <1>4, <2>5 DEF Forest
  <2>7. QED BY <2>4, <2>5, <2>6 DEF ClosedUnder
<1>7. D \subseteq dead
  BY <1>1, UnderFacts DEF Forest
<1> HIDE DEF dead
<1>8. HeapTypes(kind, ch, parent)
  BY <1>2, <1>3 DEF HeapTypes
<1>9. \A m \in Nodes \ dead : IF kind[m] # Free THEN Fits(kind[m], kind, ch[m])
                              ELSE ch[m] = << >> /\ parent[m] = Null
  <2>1. kind[n] # Free
    BY <1>1 DEF Live
  <2>2. QED BY <1>1, <1>2, <1>3, <2>1 DEF AllFit
<1>10. \A m \in Nodes \ dead : NodesIn(ch[m]) \cap dead = {}
  <2>1. \A m \in Nodes : m \notin Live => next[m] = {}
    BY <1>4, <1>6 DEF Forest
  <2>2. QED BY <1>4, <1>6, <2>1
<1>11. \A m \in dead : NodesIn(ch[m]) \subseteq dead
  <2>1. \A m \in dead : m \in Nodes /\ m # n
    BY <1>1, <1>6
  <2>2. \A m \in dead : NodesIn(ch[m]) = kid[m]
    BY <1>1, <1>3, <2>1
  <2>3. QED BY <1>6, <2>2
<1>12. \A m \in Nodes \ dead : \A i, j \in DOMAIN ch[m] :
         ch[m][i] = ch[m][j] /\ ch[m][i] # Null => i = j
  BY <1>1, <1>2, <1>3 DEF NoRepeats
<1>13. OwnersTold(kind, ch, parent, stray \cup dead)
  <2> SUFFICES ASSUME NEW m \in Nodes, m \notin stray, m \notin dead,
                      kind[m] # Free, parent[m] # Null
               PROVE  \/ m \in NodesIn(ch[parent[m]])
                      \/ \E o \in Nodes : kind[o] = "Call" /\ m \in NodesIn(ch[o])
    BY DEF OwnersTold
  <2>1. \A o \in Nodes : m \in NodesIn(child[o]) => m \in NodesIn(ch[o])
    BY <1>1, <1>3, <1>7
  <2>2. parent[m] \in Nodes
    BY <1>2 DEF HeapTypes
  <2>3. \/ m \in NodesIn(child[parent[m]])
        \/ \E o \in Nodes : kind[o] = "Call" /\ m \in NodesIn(child[o])
    BY <1>2 DEF OwnersTold
  <2>4. QED BY <2>1, <2>2, <2>3
<1>14. stray \ dead \subseteq AliveIn(kind)
  BY <1>1
<1>15. Forest(next, AliveIn(kind) \ dead, (hand \ X) \ dead)
  <2>1. (hand \ X) \ dead = hand \ X
    BY <1>6
  <2>2. QED BY <1>1, <1>6, <2>1
<1>16. SoundAfter(kind, ch, parent, hand \ X, stray, dead)
  BY <1>8, <1>9, <1>10, <1>11, <1>12, <1>13, <1>14, <1>15 DEF SoundAfter, next
<1>17. Becomes(kind, ch, parent, hand \ X, stray, dead) /\ dead \in SUBSET Nodes
  BY <1>1, <1>6 DEF ch
<1>18. QED BY <1>16, <1>17, AfterCall

(* Or the client takes it.                                                 *)
LEMMA TakeInv ==
  ASSUME NodeInv, NEW n, NEW c, NEW D, Exchanged(n, c, D, {}),
         Becomes(kind, [child EXCEPT ![n] = c], parent, hand \cup D, stray \cup D, {})
  PROVE  HeapOK(kind', child', parent', hand', stray')
<1> DEFINE kid == KidsIn(child)
           ch == [child EXCEPT ![n] = c]
           next == Without(kid, n, D)
<1>1. /\ n \in Nodes /\ Live \in SUBSET Nodes /\ Live = AliveIn(kind)
      /\ kid \in [Nodes -> SUBSET Nodes] /\ Forest(kid, Live, hand)
      /\ \A m \in Nodes : kid[m] = NodesIn(child[m])
      /\ D \in SUBSET kid[n] /\ D \in SUBSET Live /\ stray \in SUBSET Live
      /\ n \in Live /\ c \in Seq(Nodes \cup {Null})
      /\ NodesIn(c) = kid[n] \ D /\ Fits(kind[n], kind, c)
      /\ \A i, j \in DOMAIN c : c[i] = c[j] /\ c[i] # Null => i = j
  BY HeapFacts DEF Exchanged
<1>2. /\ HeapTypes(kind, child, parent) /\ AllFit(kind, child, parent)
      /\ NoRepeats(child) /\ OwnersTold(kind, child, parent, stray)
  BY DEF NodeInv, HeapOK
<1>3. ch \in [Nodes -> Seq(Nodes \cup {Null})]
      /\ \A m \in Nodes : ch[m] = IF m = n THEN c ELSE child[m]
  BY <1>1, <1>2 DEF HeapTypes
<1> HIDE DEF ch, kid
<1>4. next \in [Nodes -> SUBSET Nodes] /\ \A m \in Nodes : next[m] = NodesIn(ch[m])
  BY <1>1, <1>3 DEF Without
<1>5. Forest(next, Live, hand \cup D)
  BY <1>1, ForestDetach
<1> HIDE DEF next
<1>6. HeapTypes(kind, ch, parent)
  BY <1>2, <1>3 DEF HeapTypes
<1>7. \A m \in Nodes : IF kind[m] # Free THEN Fits(kind[m], kind, ch[m])
                       ELSE ch[m] = << >> /\ parent[m] = Null
  <2>1. kind[n] # Free
    BY <1>1 DEF Live
  <2>2. QED BY <1>1, <1>2, <1>3, <2>1 DEF AllFit
<1>8. \A m \in Nodes : \A i, j \in DOMAIN ch[m] :
         ch[m][i] = ch[m][j] /\ ch[m][i] # Null => i = j
  BY <1>1, <1>2, <1>3 DEF NoRepeats
<1>9. OwnersTold(kind, ch, parent, (stray \cup D) \cup {})
  <2> SUFFICES ASSUME NEW m \in Nodes, m \notin stray, m \notin D, kind[m] # Free, parent[m] # Null
               PROVE  \/ m \in NodesIn(ch[parent[m]])
                      \/ \E o \in Nodes : kind[o] = "Call" /\ m \in NodesIn(ch[o])
    BY DEF OwnersTold
  <2>1. \A o \in Nodes : m \in NodesIn(child[o]) => m \in NodesIn(ch[o])
    BY <1>1, <1>3
  <2>2. parent[m] \in Nodes
    BY <1>2 DEF HeapTypes
  <2>3. \/ m \in NodesIn(child[parent[m]])
        \/ \E o \in Nodes : kind[o] = "Call" /\ m \in NodesIn(child[o])
    BY <1>2 DEF OwnersTold
  <2>4. QED BY <2>1, <2>2, <2>3
<1>10. (stray \cup D) \ {} \subseteq AliveIn(kind)
  BY <1>1
<1>11. Forest(KidsAfter(ch, {}), AliveIn(kind) \ {}, (hand \cup D) \ {})
  <2>1. (hand \cup D) \ {} = hand \cup D /\ AliveIn(kind) \ {} = Live
    BY <1>1
  <2>2. KidsAfter(ch, {}) = next
    BY <1>3, <1>4, KidsAfterFacts
  <2>3. QED BY <1>5, <2>1, <2>2
<1>12. SoundAfter(kind, ch, parent, hand \cup D, stray \cup D, {})
  BY <1>6, <1>7, <1>8, <1>9, <1>10, <1>11 DEF SoundAfter
<1>13. Becomes(kind, ch, parent, hand \cup D, stray \cup D, {}) /\ {} \in SUBSET Nodes
  BY DEF ch
<1>14. QED BY <1>12, <1>13, AfterCall

\* No child twice.
Distinct(c) == \A i, j \in DOMAIN c : c[i] = c[j] /\ c[i] # Null => i = j

(* Another child, or none, at one place.                                   *)
LEMMA PutFacts ==
  ASSUME NEW c \in Seq(Nodes \cup {Null}), NEW at \in DOMAIN c, NEW x \in Nodes \cup {Null},
         Distinct(c), x \notin NodesIn(c)
  PROVE  /\ [c EXCEPT ![at] = x] \in Seq(Nodes \cup {Null})
         /\ Distinct([c EXCEPT ![at] = x])
         /\ NodesIn([c EXCEPT ![at] = x])
              = (NodesIn(c) \ ({c[at]} \ {Null})) \cup ({x} \ {Null})
         /\ {c[at]} \ {Null} \in SUBSET NodesIn(c)
<1> DEFINE d == [c EXCEPT ![at] = x]
<1>1. /\ d \in Seq(Nodes \cup {Null}) /\ DOMAIN d = DOMAIN c
      /\ \A i \in DOMAIN c : d[i] = IF i = at THEN x ELSE c[i]
  OBVIOUS
<1> HIDE DEF d
<1>2. Null \notin Nodes
  BY HeapAssumption
<1>3. /\ \A m : m \in NodesIn(c) <=> m \in Nodes /\ \E i \in DOMAIN c : c[i] = m
      /\ \A m : m \in NodesIn(d) <=> m \in Nodes /\ \E i \in DOMAIN c : d[i] = m
  BY <1>1, NodesInFacts
<1>4. Distinct(d)
  <2> SUFFICES ASSUME NEW i \in DOMAIN c, NEW j \in DOMAIN c, d[i] = d[j], d[i] # Null
               PROVE  i = j
    BY <1>1 DEF Distinct
  <2>1. ASSUME NEW k \in DOMAIN c, k # at PROVE d[k] = c[k] /\ (c[k] # Null => c[k] # x)
    BY <1>1, <1>3, <2>1
  <2>2. d[at] = x
    BY <1>1
  <2>3. QED BY <2>1, <2>2 DEF Distinct
<1>5. ASSUME NEW m
      PROVE  m \in NodesIn(d) <=> m \in (NodesIn(c) \ ({c[at]} \ {Null})) \cup ({x} \ {Null})
  <2>1. CASE m = x
    BY <1>1, <1>2, <1>3, <2>1
  <2>2. CASE m # x /\ m = c[at]
    <3>1. m # Null => m \notin NodesIn(d)
      BY <1>1, <1>3, <2>2 DEF Distinct
    <3>2. m = Null => m \notin NodesIn(d) /\ m \notin NodesIn(c)
      BY <1>2, <1>3
    <3>3. QED BY <2>2, <3>1, <3>2
  <2>3. CASE m # x /\ m # c[at]
    BY <1>1, <1>3, <2>3
  <2>4. QED BY <2>1, <2>2, <2>3
<1>6. {c[at]} \ {Null} \in SUBSET NodesIn(c)
  BY <1>3
<1>7. QED BY <1>1, <1>4, <1>5, <1>6 DEF d

(* What is not below any of them is not below all of them.                 *)
LEMMA NotBelow ==
  ASSUME NodeInv, NEW n, NEW X \in SUBSET Nodes, \A x \in X : n \notin Below({x})
  PROVE  n \notin Below(X)
<1>1. KidsIn(child) \in [Nodes -> SUBSET Nodes] /\ \A R : Below(R) = Under(KidsIn(child), R)
  BY HeapFacts
<1>2. QED BY <1>1, UnderEach

LEMMA BelowNothing == NodeInv => Below({}) = {}
BY HeapFacts, UnderNothing

(* A class whose vector can be edited has nothing else.                    *)
LEMMA FitsVector ==
  ASSUME NEW k \in Kinds, Class[k].edit # {}, NEW kinds, NEW c \in Seq(Nodes \cup {Null})
  PROVE  Fits(k, kinds, c) <=>
           \A i \in DOMAIN c : c[i] # Null => kinds[c[i]] \in Class[k].vector
<1>1. Class[k].members = << >> /\ Class[k].vector # {}
  BY ClassFacts DEF ClassOK, GoodClass
<1>2. Len(c) \in Nat /\ DOMAIN c = 1 .. Len(c)
  OBVIOUS
<1>3. VectorLength(k, c) = Len(c)
  BY <1>1, <1>2 DEF VectorLength
<1>4. \A i \in DOMAIN c : Admitted(k, c, i) = Class[k].vector
  BY <1>2, <1>3 DEF Admitted
<1>5. QED BY <1>1, <1>2, <1>3, <1>4 DEF Fits

(* What is offered to a node is nothing, or held and not above the node.   *)
LEMMA OfferedFacts ==
  ASSUME NodeInv, NEW n \in Live, NEW x \in Offered(n)
  PROVE  /\ x \in Nodes \cup {Null} /\ x \notin NodesIn(child[n])
         /\ {x} \ {Null} \in SUBSET hand /\ n \notin Below({x} \ {Null})
         /\ hand \ {x} = hand \ ({x} \ {Null})
<1>1. hand \in SUBSET Nodes /\ Null \notin Nodes /\ n \in Nodes /\ NodesIn(child[n]) \in SUBSET Nodes
      /\ \A h \in hand : h \notin NodesIn(child[n])
  BY HeapFacts
<1>2. CASE x = Null
  <2>1. {x} \ {Null} = {}
    BY <1>2
  <2>2. QED BY <1>1, <1>2, <2>1, BelowNothing
<1>3. CASE x # Null
  <2>1. {x} \ {Null} = {x}
    BY <1>3
  <2>2. x \in hand /\ n \notin Below({x})
    BY <1>3 DEF Offered
  <2>3. QED BY <1>1, <2>1, <2>2
<1>4. QED BY <1>2, <1>3

LEMMA SetMemberInv ==
  ASSUME NodeInv, NEW n \in Live, NEW i \in 1 .. 4, NEW x \in Offered(n), SetMember(n, i, x)
  PROVE  HeapOK(kind', child', parent', hand', stray')
<1> DEFINE at == VectorLength(kind[n], child[n]) + i
           c == [child[n] EXCEPT ![at] = x]
           D == {child[n][at]} \ {Null}
           X == {x} \ {Null}
<1>1. /\ i \in Class[kind[n]].set
      /\ Fits(kind[n], kind, c)
      /\ Becomes(kind, [child EXCEPT ![n] = c], parent, hand \ {x}, stray, Below(D))
  BY DEF SetMember
<1>2. n \in Nodes /\ child[n] \in Seq(Nodes \cup {Null}) /\ Distinct(child[n])
      /\ kind[n] \in Kinds /\ Fits(kind[n], kind, child[n])
  BY HeapFacts DEF NoRepeats, Distinct
<1>3. at \in DOMAIN child[n]
  <2>1. /\ VectorLength(kind[n], child[n]) \in Nat
        /\ Len(child[n]) = VectorLength(kind[n], child[n]) + Len(Class[kind[n]].members)
        /\ DOMAIN child[n] = 1 .. Len(child[n])
        /\ Len(Class[kind[n]].members) \in Nat
        /\ DOMAIN Class[kind[n]].members = 1 .. Len(Class[kind[n]].members)
    BY <1>2, FitsFacts
  <2>2. i \in DOMAIN Class[kind[n]].members
    BY <1>1, <1>2, ClassFacts DEF ClassOK, GoodClass
  <2>3. QED BY <2>1, <2>2
<1>4. /\ x \in Nodes \cup {Null} /\ x \notin NodesIn(child[n])
      /\ X \in SUBSET hand /\ n \notin Below(X) /\ hand \ {x} = hand \ X
  BY OfferedFacts
<1>5. /\ c \in Seq(Nodes \cup {Null}) /\ Distinct(c)
      /\ NodesIn(c) = (NodesIn(child[n]) \ D) \cup X /\ D \in SUBSET NodesIn(child[n])
  BY <1>2, <1>3, <1>4, PutFacts
<1> HIDE DEF at, c, D, X
<1>6. Exchanged(n, c, D, X)
  BY <1>1, <1>4, <1>5 DEF Exchanged, Distinct
<1>7. Becomes(kind, [child EXCEPT ![n] = c], parent, hand \ X, stray, Below(D))
  BY <1>1, <1>4
<1>8. QED BY <1>6, <1>7, EditInv

(* Taking a child out, or deleting it, leaves null where it was.           *)
LEMMA NullPut ==
  ASSUME NodeInv, NEW n \in Live, NEW i \in DOMAIN child[n], child[n][i] # Null
  PROVE  /\ Exchanged(n, [child[n] EXCEPT ![i] = Null], {child[n][i]}, {})
         /\ [child EXCEPT ![n][i] = Null] = [child EXCEPT ![n] = [child[n] EXCEPT ![i] = Null]]
<1> DEFINE c == [child[n] EXCEPT ![i] = Null]
<1>1. n \in Nodes /\ child[n] \in Seq(Nodes \cup {Null}) /\ Distinct(child[n])
      /\ Fits(kind[n], kind, child[n]) /\ Null \notin Nodes
      /\ NodesIn(child[n]) \in SUBSET Nodes
      /\ child \in [Nodes -> Seq(Nodes \cup {Null})]
  BY HeapFacts DEF NoRepeats, Distinct
<1>2. /\ {child[n][i]} \ {Null} = {child[n][i]}
      /\ {Null} \ {Null} = {}
  OBVIOUS
<1>3. /\ c \in Seq(Nodes \cup {Null}) /\ Distinct(c)
      /\ NodesIn(c) = (NodesIn(child[n]) \ {child[n][i]}) \cup {}
      /\ {child[n][i]} \in SUBSET NodesIn(child[n])
  <2> DEFINE old == child[n]
  <2>1. Null \in Nodes \cup {Null} /\ Null \notin NodesIn(old)
    BY <1>1
  <2>2. old \in Seq(Nodes \cup {Null}) /\ Distinct(old) /\ i \in DOMAIN old
    BY <1>1
  <2> HIDE DEF old
  <2>3. /\ [old EXCEPT ![i] = Null] \in Seq(Nodes \cup {Null}) /\ Distinct([old EXCEPT ![i] = Null])
        /\ NodesIn([old EXCEPT ![i] = Null]) = (NodesIn(old) \ ({old[i]} \ {Null})) \cup ({Null} \ {Null})
        /\ {old[i]} \ {Null} \in SUBSET NodesIn(old)
    BY <2>1, <2>2, PutFacts
  <2>4. QED BY <1>2, <2>3 DEF old
<1>4. Fits(kind[n], kind, c)
  <2>1. /\ Len(c) = Len(child[n]) /\ DOMAIN c = DOMAIN child[n]
        /\ \A j \in DOMAIN c : c[j] # Null => child[n][j] # Null /\ kind[c[j]] = kind[child[n][j]]
    BY <1>1
  <2> HIDE DEF c
  <2>2. QED BY <1>1, <2>1, FitsSame
<1>5. [child EXCEPT ![n][i] = Null] = [child EXCEPT ![n] = c]
  BY <1>1
<1> HIDE DEF c
<1>6. Exchanged(n, c, {child[n][i]}, {})
  BY <1>3, <1>4, BelowNothing DEF Exchanged, Distinct
<1>7. QED BY <1>5, <1>6 DEF c

LEMMA TakeMemberInv ==
  ASSUME NodeInv, NEW n \in Live, NEW i \in DOMAIN child[n], TakeMember(n, i)
  PROVE  HeapOK(kind', child', parent', hand', stray')
<1>1. child[n][i] # Null
  BY DEF TakeMember
<1>2. Exchanged(n, [child[n] EXCEPT ![i] = Null], {child[n][i]}, {})
  BY <1>1, NullPut
<1>3. Becomes(kind, [child EXCEPT ![n] = [child[n] EXCEPT ![i] = Null]], parent,
              hand \cup {child[n][i]}, stray \cup {child[n][i]}, {})
  BY <1>1, NullPut DEF TakeMember
<1>4. QED BY <1>2, <1>3, TakeInv

LEMMA NullifyInv ==
  ASSUME NodeInv, NEW n \in Live, NEW i \in DOMAIN child[n], Nullify(n, i)
  PROVE  HeapOK(kind', child', parent', hand', stray')
<1>1. child[n][i] # Null
  BY DEF Nullify
<1>2. Exchanged(n, [child[n] EXCEPT ![i] = Null], {child[n][i]}, {})
  BY <1>1, NullPut
<1>3. hand = hand \ {}
  OBVIOUS
<1>4. Becomes(kind, [child EXCEPT ![n] = [child[n] EXCEPT ![i] = Null]], parent,
              hand \ {}, stray, Below({child[n][i]}))
  BY <1>1, <1>3, NullPut DEF Nullify
<1>5. QED BY <1>2, <1>4, EditInv

(* A child more, in front or at the end.                                   *)
LEMMA InsertInv ==
  ASSUME NodeInv, NEW n \in Live, NEW x \in Offered(n), NEW edit, NEW c,
         c = Append(child[n], x) \/ c = <<x>> \o child[n], Insert(n, x, c, edit)
  PROVE  HeapOK(kind', child', parent', hand', stray')
<1> DEFINE X == {x} \ {Null}
           old == child[n]
<1>1. /\ Fits(kind[n], kind, c)
      /\ Becomes(kind, [child EXCEPT ![n] = c], parent, hand \ {x}, stray, {})
  BY DEF Insert
<1>2. n \in Nodes /\ old \in Seq(Nodes \cup {Null}) /\ Distinct(old)
      /\ Null \notin Nodes
  BY HeapFacts DEF NoRepeats, Distinct
<1>3. /\ x \in Nodes \cup {Null} /\ x \notin NodesIn(old)
      /\ X \in SUBSET hand /\ n \notin Below(X) /\ hand \ {x} = hand \ X
  BY OfferedFacts
<1>4. Len(old) \in Nat /\ DOMAIN old = 1 .. Len(old)
  BY <1>2
<1> HIDE DEF old
<1>5. /\ c \in Seq(Nodes \cup {Null})
      /\ \A i \in DOMAIN c : c[i] = x \/ \E k \in DOMAIN old : c[i] = old[k]
      /\ \E i \in DOMAIN c : c[i] = x
      /\ \A k \in DOMAIN old : \E i \in DOMAIN c : c[i] = old[k]
      /\ Distinct(c)
  <2>1. CASE c = Append(old, x)
    <3>1. /\ c \in Seq(Nodes \cup {Null}) /\ DOMAIN c = 1 .. Len(old) + 1
          /\ \A i \in DOMAIN c : c[i] = IF i = Len(old) + 1 THEN x ELSE old[i]
      BY <1>2, <1>3, <2>1
    <3>2. \A i \in DOMAIN c : i # Len(old) + 1 => i \in DOMAIN old
      BY <1>4, <3>1
    <3>3. Len(old) + 1 \in DOMAIN c /\ \A k \in DOMAIN old : k \in DOMAIN c /\ k # Len(old) + 1
      BY <1>4, <3>1
    <3>4. \A k \in DOMAIN old : old[k] # Null => old[k] # x
      BY <1>3 DEF NodesIn, Range
    <3>5. Distinct(c)
      BY <1>2, <3>1, <3>2, <3>4 DEF Distinct
    <3>6. QED BY <3>1, <3>2, <3>3, <3>5
  <2>2. CASE c = <<x>> \o old
    <3>1. /\ c \in Seq(Nodes \cup {Null}) /\ DOMAIN c = 1 .. Len(old) + 1
          /\ \A i \in DOMAIN c : c[i] = IF i = 1 THEN x ELSE old[i - 1]
      BY <1>2, <1>3, <1>4, <2>2
    <3>2. \A i \in DOMAIN c : i # 1 => i - 1 \in DOMAIN old
      BY <1>4, <3>1
    <3>3. 1 \in DOMAIN c /\ \A k \in DOMAIN old : k + 1 \in DOMAIN c /\ k + 1 # 1 /\ (k + 1) - 1 = k
      BY <1>4, <3>1
    <3>4. \A k \in DOMAIN old : old[k] # Null => old[k] # x
      BY <1>3 DEF NodesIn, Range
    <3>5. Distinct(c)
      <4> SUFFICES ASSUME NEW i \in DOMAIN c, NEW j \in DOMAIN c, c[i] = c[j], c[i] # Null
                   PROVE  i = j
        BY DEF Distinct
      <4>1. (i = 1 <=> j = 1) /\ (i # 1 => i - 1 = j - 1)
        BY <1>2, <3>1, <3>2, <3>4 DEF Distinct
      <4>2. i \in Int /\ j \in Int
        BY <3>1
      <4>3. QED BY <4>1, <4>2
    <3>6. \A k \in DOMAIN old : c[k + 1] = old[k]
      BY <3>1, <3>3
    <3>7. QED BY <3>1, <3>2, <3>3, <3>5, <3>6
  <2>3. QED BY <2>1, <2>2 DEF old
<1>6. NodesIn(c) = (NodesIn(old) \ {}) \cup X
  BY <1>5 DEF NodesIn, Range
<1>7. Exchanged(n, c, {}, X)
  BY <1>1, <1>3, <1>5, <1>6 DEF Exchanged, Distinct, old
<1>8. Becomes(kind, [child EXCEPT ![n] = c], parent, hand \ X, stray, Below({}))
  BY <1>1, <1>3, BelowNothing
<1> HIDE DEF X
<1>9. QED BY <1>7, <1>8, EditInv

LEMMA CompactInv ==
  ASSUME NodeInv, NEW n \in Live, Compact(n)
  PROVE  HeapOK(kind', child', parent', hand', stray')
<1> DEFINE old == child[n]
           K == {i \in DOMAIN old : old[i] # Null}
           c == Picked(old, K)
<1>1. /\ Class[kind[n]].edit # {}
      /\ Becomes(kind, [child EXCEPT ![n] = c], parent, hand, stray, {})
  BY DEF Compact, Compacted
<1>2. n \in Nodes /\ old \in Seq(Nodes \cup {Null}) /\ Distinct(old)
      /\ Null \notin Nodes /\ kind[n] \in Kinds /\ Fits(kind[n], kind, old)
  BY HeapFacts DEF NoRepeats, Distinct
<1>3. Len(old) \in Nat /\ DOMAIN old = 1 .. Len(old)
  BY <1>2
<1> HIDE DEF old
<1>4. /\ c \in Seq(Nodes \cup {Null}) /\ DOMAIN c = 1 .. Cardinality(K)
      /\ \A m \in DOMAIN c : Nth(K, m) \in K /\ c[m] = old[Nth(K, m)]
      /\ \A k \in K : \E m \in DOMAIN c : c[m] = old[k]
  <2>1. K \in SUBSET DOMAIN old
    OBVIOUS
  <2> HIDE DEF K
  <2>2. QED BY <1>2, <2>1, PickedFacts
<1>5. \A m, l \in DOMAIN c : Nth(K, m) = Nth(K, l) => m = l
  <2>1. K \in SUBSET (1 .. Len(old))
    BY <1>3
  <2> HIDE DEF K
  <2>2. \A m \in 1 .. Cardinality(K) : Rank(K, Nth(K, m)) = m
    BY <1>3, <2>1, NthFacts
  <2>3. QED BY <1>4, <2>2
<1>6. Distinct(c)
  BY <1>2, <1>4, <1>5 DEF Distinct
<1>7. \A m \in DOMAIN c : \E k \in DOMAIN old : c[m] = old[k]
  BY <1>4
<1>8. \A k \in DOMAIN old : old[k] # Null => \E m \in DOMAIN c : c[m] = old[k]
  BY <1>4
<1> HIDE DEF K, c
<1>9. NodesIn(c) = (NodesIn(old) \ {}) \cup {}
  BY <1>7, <1>8 DEF NodesIn, Range
<1>10. Fits(kind[n], kind, c)
  <2>1. \A i \in DOMAIN old : old[i] # Null => kind[old[i]] \in Class[kind[n]].vector
    BY <1>1, <1>2, FitsVector
  <2>2. \A i \in DOMAIN c : c[i] # Null => kind[c[i]] \in Class[kind[n]].vector
    BY <1>7, <2>1
  <2>3. c \in Seq(Nodes \cup {Null})
    BY <1>4
  <2>4. QED BY <1>1, <1>2, <2>2, <2>3, FitsVector
<1>11. Exchanged(n, c, {}, {})
  BY <1>4, <1>6, <1>9, <1>10, BelowNothing DEF Exchanged, Distinct, old
<1>12. Becomes(kind, [child EXCEPT ![n] = c], parent, hand \ {}, stray, Below({}))
  <2>1. hand \ {} = hand
    OBVIOUS
  <2>2. QED BY <1>1, <2>1, BelowNothing
<1>13. QED BY <1>11, <1>12, EditInv

LEMMA TakeVectorInv ==
  ASSUME NodeInv, NEW n \in Live, TakeVector(n)
  PROVE  HeapOK(kind', child', parent', hand', stray')
<1> DEFINE D == NodesIn(child[n])
<1>1. /\ Class[kind[n]].edit # {}
      /\ Becomes(kind, [child EXCEPT ![n] = << >>], parent, hand \cup D, stray \cup D, {})
  BY DEF TakeVector
<1>2. n \in Nodes /\ kind[n] \in Kinds
  BY HeapFacts
<1>3. Fits(kind[n], kind, << >>)
  BY <1>1, <1>2, NoChildren, FitsVector
<1>4. Exchanged(n, << >>, D, {})
  BY <1>3, NoChildren, BelowNothing DEF Exchanged
<1> HIDE DEF D
<1>5. QED BY <1>1, <1>4, TakeInv

(* The sequences that a client may give.                                   *)
LEMMA GivenFacts ==
  ASSUME NEW S \in SUBSET Nodes, NEW c \in Given(S)
  PROVE  c \in Seq(Nodes \cup {Null}) /\ NodesIn(c) \in SUBSET S
<1>1. PICK k \in 0 .. MaxVector + 1 : c \in [1 .. k -> {Null} \cup S]
  BY DEF Given
<1>2. k \in Nat
  BY <1>1, HeapAssumption
<1>3. c \in Seq({Null} \cup S)
  BY <1>1, <1>2
<1>4. QED BY <1>3 DEF NodesIn, Range

LEMMA SetVectorInv ==
  ASSUME NodeInv, NEW n \in Live, NEW c \in Given(Offered(n) \ {Null}), SetVector(n, c)
  PROVE  HeapOK(kind', child', parent', hand', stray')
<1> DEFINE D == NodesIn(child[n])
           X == NodesIn(c)
<1>1. /\ Fits(kind[n], kind, c) /\ Distinct(c)
      /\ Becomes(kind, [child EXCEPT ![n] = c], parent, hand \ X, stray, Below(D))
  BY DEF SetVector, Distinct, Placing
<1>2. hand \in SUBSET Nodes
  BY HeapFacts
<1>3. Offered(n) \ {Null} \in SUBSET hand /\ \A x \in Offered(n) \ {Null} : n \notin Below({x})
  BY DEF Offered
<1>4. c \in Seq(Nodes \cup {Null}) /\ X \in SUBSET (Offered(n) \ {Null})
  <2>1. Offered(n) \ {Null} \in SUBSET Nodes
    BY <1>2, <1>3
  <2>2. QED BY <2>1, GivenFacts
<1>5. X \in SUBSET hand /\ n \notin Below(X)
  <2>1. X \in SUBSET Nodes /\ \A x \in X : n \notin Below({x})
    BY <1>2, <1>3, <1>4
  <2>2. QED BY <1>3, <1>4, <2>1, NotBelow
<1>6. X = (D \ D) \cup X
  OBVIOUS
<1>7. Exchanged(n, c, D, X)
  BY <1>1, <1>4, <1>5, <1>6 DEF Exchanged, Distinct
<1> HIDE DEF D, X
<1>8. QED BY <1>1, <1>7, EditInv

-----------------------------------------------------------------------------
(* Calls that make, move and delete nodes. *)

(* Where nothing dies, what the call makes of the heap is what is left.    *)
LEMMA NoneDies ==
  ASSUME NEW kinds, NEW ch, NEW par, NEW held, NEW moved,
         HeapOK(kinds, ch, par, held, moved),
         Becomes(kinds, ch, par, held, moved, {})
  PROVE  HeapOK(kind', child', parent', hand', stray')
<1>1. ch \in [Nodes -> Seq(Nodes \cup {Null})]
  BY DEF HeapOK, HeapTypes
<1>2. KidsAfter(ch, {}) = KidsIn(ch)
  BY DEF KidsAfter, KidsIn
<1>3. moved \cup {} = moved /\ moved \ {} = moved /\ held \ {} = held
      /\ AliveIn(kinds) \ {} = AliveIn(kinds) /\ {} \in SUBSET Nodes /\ Nodes \ {} = Nodes
  OBVIOUS
<1>4. SoundAfter(kinds, ch, par, held, moved, {})
  BY <1>2, <1>3 DEF SoundAfter, HeapOK, AllFit, NoRepeats
<1>5. QED BY <1>3, <1>4, AfterCall

LEMMA UndefinedInv ==
  ASSUME NodeInv, Undefined PROVE HeapOK(kind', child', parent', hand', stray')
BY DEF NodeInv, Undefined, heap

LEMMA DestroyInv ==
  ASSUME NodeInv, NEW x \in hand, Destroy(x)
  PROVE  HeapOK(kind', child', parent', hand', stray')
<1> DEFINE kid == KidsIn(child)
           D == {x}
           dead == Under(kid, D)
<1>1. /\ Live \in SUBSET Nodes /\ Live = AliveIn(kind)
      /\ kid \in [Nodes -> SUBSET Nodes] /\ Forest(kid, Live, hand)
      /\ \A m \in Nodes : kid[m] = NodesIn(child[m])
      /\ Below(D) = dead /\ stray \in SUBSET Live /\ hand \in SUBSET Live
      /\ child \in [Nodes -> Seq(Nodes \cup {Null})]
  BY HeapFacts
<1>2. D \in SUBSET hand /\ D \in SUBSET Live /\ D \in SUBSET Nodes
  BY <1>1
<1> HIDE DEF kid, D
<1>3. Forest(Killed(kid, D), Live \ dead, hand \ D) /\ hand \ D = hand \ dead
  <2>1. Forest(Killed(kid, D), Live \ dead, hand \ D)
    BY <1>1, <1>2, ForestKill
  <2>2. \A h \in hand : h \notin D => h \notin dead
    BY <1>1, <1>2, RootsApart
  <2>3. D \subseteq dead
    BY <1>1, <1>2, UnderFacts
  <2>4. QED BY <2>1, <2>2, <2>3
<1>4. dead \in SUBSET Live /\ ClosedUnder(kid, dead)
  BY <1>1, <1>2, UnderFacts, UnderAlive
<1>5. KidsAfter(child, dead) = Killed(kid, D)
  BY <1>1 DEF KidsAfter, Killed
<1>6. Forest(KidsAfter(child, dead), Live \ dead, hand \ dead)
  BY <1>3, <1>5
<1>7. \A m \in Nodes \ dead : NodesIn(child[m]) \cap dead = {}
  <2>1. \A m \in Nodes : KidsAfter(child, dead)[m] \subseteq Live \ dead
    BY <1>1, <1>6, KidsAfterFacts DEF Forest
  <2>2. QED BY <1>1, <2>1, KidsAfterFacts
<1>8. \A m \in dead : NodesIn(child[m]) \subseteq dead
  BY <1>1, <1>4 DEF ClosedUnder
<1> HIDE DEF dead
<1>9. /\ HeapTypes(kind, child, parent) /\ AllFit(kind, child, parent)
      /\ NoRepeats(child) /\ OwnersTold(kind, child, parent, stray)
  BY DEF NodeInv, HeapOK
<1>10. OwnersTold(kind, child, parent, stray \cup dead)
  BY <1>9 DEF OwnersTold
<1>11. SoundAfter(kind, child, parent, hand, stray, dead)
  BY <1>1, <1>6, <1>7, <1>8, <1>9, <1>10 DEF SoundAfter, AllFit, NoRepeats
<1>12. Becomes(kind, child, parent, hand, stray, dead)
  BY <1>1 DEF Destroy, D
<1>13. dead \in SUBSET Nodes
  BY <1>1, <1>4
<1>14. QED BY <1>11, <1>12, <1>13, AfterCall

LEMMA ConstructInv ==
  ASSUME NodeInv, NEW k \in Kinds, NEW a \in FreeNodes, NEW c \in Given(hand), Construct(k, a, c)
  PROVE  HeapOK(kind', child', parent', hand', stray')
<1> DEFINE kid == KidsIn(child)
           X == NodesIn(c)
           told == IF Class[k].adopts THEN X ELSE {}
           kinds == [kind EXCEPT ![a] = k]
           ch == [child EXCEPT ![a] = c]
           par == [m \in Nodes |-> IF m \in told THEN a ELSE parent[m]]
           held == Placing(c) \cup {a}
           moved == stray \ told
<1>1. /\ a \in Nodes /\ a \notin Live
      /\ Live \in SUBSET Nodes /\ Live = AliveIn(kind)
      /\ kid \in [Nodes -> SUBSET Nodes] /\ Forest(kid, Live, hand)
      /\ \A m \in Nodes : kid[m] = NodesIn(child[m])
      /\ stray \in SUBSET Live /\ hand \in SUBSET Live /\ hand \in SUBSET Nodes
      /\ child[a] = << >> /\ parent[a] = Null
      /\ \A m \in Nodes : NodesIn(child[m]) \in SUBSET Live
      /\ \A h \in hand : \A o \in Nodes : h \notin NodesIn(child[o])
      /\ Null \notin Nodes
  BY HeapFacts DEF FreeNodes
<1>2. /\ HeapTypes(kind, child, parent) /\ AllFit(kind, child, parent)
      /\ NoRepeats(child) /\ OwnersTold(kind, child, parent, stray)
  BY DEF NodeInv, HeapOK
<1>3. c \in Seq(Nodes \cup {Null}) /\ X \in SUBSET hand
  BY <1>1, GivenFacts
<1>4. SUFFICES ASSUME /\ Fits(k, kind, c) /\ Distinct(c)
                      /\ Becomes(kinds, ch, par, held, moved, {})
               PROVE  HeapOK(kind', child', parent', hand', stray')
  BY UndefinedInv DEF Construct, Distinct
<1>5. /\ \A m \in Nodes : kinds[m] = IF m = a THEN k ELSE kind[m]
      /\ \A m \in Nodes : ch[m] = IF m = a THEN c ELSE child[m]
      /\ \A m \in Nodes : par[m] = IF m \in told THEN a ELSE parent[m]
      /\ told \in SUBSET X /\ held = (hand \ X) \cup {a}
      /\ HeapTypes(kinds, ch, par)
  BY <1>1, <1>2, <1>3 DEF HeapTypes, Placing
<1> HIDE DEF kid, X, told, kinds, ch, par, held, moved
<1>6. AliveIn(kinds) = Live \cup {a}
  BY <1>1, <1>5, HeapAssumption DEF AliveIn
<1>7. AllFit(kinds, ch, par)
  <2> SUFFICES ASSUME NEW m \in Nodes
               PROVE  IF kinds[m] # Free THEN Fits(kinds[m], kinds, ch[m])
                      ELSE ch[m] = << >> /\ par[m] = Null
    BY DEF AllFit
  <2>1. CASE m = a
    <3>1. \A i \in DOMAIN c : c[i] # Null => kinds[c[i]] = kind[c[i]]
      <4>1. \A i \in DOMAIN c : c[i] # Null => c[i] \in X
        BY DEF X, NodesIn, Range
      <4>2. QED BY <1>1, <1>3, <1>5, <4>1
    <3>2. Fits(k, kinds, c)
      BY <1>4, <3>1, FitsSame
    <3>3. QED BY <1>5, <2>1, <3>2, HeapAssumption
  <2>2. CASE m # a /\ m \in Live
    <3>1. \A i \in DOMAIN child[m] : child[m][i] # Null => kinds[child[m][i]] = kind[child[m][i]]
      <4>1. \A i \in DOMAIN child[m] : child[m][i] # Null => child[m][i] \in NodesIn(child[m])
        BY DEF NodesIn, Range
      <4>2. QED BY <1>1, <1>5, <4>1
    <3>2. Fits(kind[m], kind, child[m])
      BY <1>2, <2>2 DEF AllFit, Live
    <3>3. Fits(kind[m], kinds, child[m])
      BY <3>1, <3>2, FitsSame
    <3>4. QED BY <1>5, <2>2, <3>3 DEF Live
  <2>3. CASE m # a /\ m \notin Live
    BY <1>1, <1>2, <1>3, <1>5, <2>3 DEF AllFit, Live
  <2>4. QED BY <2>1, <2>2, <2>3
<1>8. moved \subseteq AliveIn(kinds)
  BY <1>1, <1>6 DEF moved
<1>9. Forest(KidsIn(ch), AliveIn(kinds), held)
  <2>1. Forest(kid, Live \cup {a}, hand \cup {a})
    BY <1>1, ForestAdd
  <2>2. a \notin Under(kid, X)
    BY <1>1, <1>3, UnderAlive
  <2>3. X \in SUBSET (hand \cup {a}) /\ a \in Live \cup {a}
    BY <1>3
  <2>4. Forest(With(kid, a, X), Live \cup {a}, (hand \cup {a}) \ X)
    BY <1>1, <2>1, <2>2, <2>3, ForestAttach
  <2>5. (hand \cup {a}) \ X = held
    BY <1>1, <1>3, <1>5
  <2>6. With(kid, a, X) = KidsIn(ch)
    <3>1. kid[a] = {}
      BY <1>1, NoChildren
    <3>2. \A m \in Nodes : NodesIn(ch[m]) = IF m = a THEN kid[a] \cup X ELSE kid[m]
      BY <1>1, <1>5, <3>1 DEF X
    <3>3. QED BY <1>1, <3>2 DEF With, KidsIn
  <2>7. QED BY <1>6, <2>4, <2>5, <2>6
<1>10. NoRepeats(ch)
  BY <1>2, <1>4, <1>5 DEF NoRepeats, Distinct
<1>11. OwnersTold(kinds, ch, par, moved)
  <2> SUFFICES ASSUME NEW m \in Nodes, m \notin moved, kinds[m] # Free, par[m] # Null
               PROVE  \/ m \in NodesIn(ch[par[m]])
                      \/ \E o \in Nodes : kinds[o] = "Call" /\ m \in NodesIn(ch[o])
    BY DEF OwnersTold
  <2>1. CASE m \in told
    BY <1>1, <1>5, <2>1 DEF X
  <2>2. CASE m \notin told
    <3>1. par[m] = parent[m] /\ m # a /\ m \notin stray /\ kind[m] # Free /\ parent[m] \in Nodes
      BY <1>1, <1>2, <1>5, <2>2 DEF moved, HeapTypes
    <3>2. \A o \in Nodes : m \in NodesIn(child[o]) =>
            m \in NodesIn(ch[o]) /\ kinds[o] = kind[o]
      BY <1>1, <1>5, NoChildren
    <3>3. \/ m \in NodesIn(child[parent[m]])
          \/ \E o \in Nodes : kind[o] = "Call" /\ m \in NodesIn(child[o])
      BY <1>2, <3>1 DEF OwnersTold
    <3>4. QED BY <3>1, <3>2, <3>3
  <2>3. QED BY <2>1, <2>2
<1>12. HeapOK(kinds, ch, par, held, moved)
  BY <1>5, <1>7, <1>8, <1>9, <1>10, <1>11 DEF HeapOK
<1>13. QED BY <1>4, <1>12, NoneDies

(* The members of a node, without its vector, fit its class.               *)
LEMMA MembersFacts ==
  ASSUME NodeInv, NEW n \in Live
  PROVE  /\ MembersOf(n) \in Seq(Nodes \cup {Null}) /\ Distinct(MembersOf(n))
         /\ Len(MembersOf(n)) = Len(Class[kind[n]].members)
         /\ DOMAIN MembersOf(n) = 1 .. Len(Class[kind[n]].members)
         /\ \A i \in DOMAIN MembersOf(n) :
              /\ VectorLength(kind[n], child[n]) + i \in DOMAIN child[n]
              /\ MembersOf(n)[i] = child[n][VectorLength(kind[n], child[n]) + i]
         /\ NodesIn(MembersOf(n)) \in SUBSET NodesIn(child[n])
         /\ Fits(kind[n], kind, MembersOf(n))
<1> DEFINE c == MembersOf(n)
           s == child[n]
           V == VectorLength(kind[n], s)
           M == Class[kind[n]].members
<1>1. /\ V \in Nat /\ Len(s) = V + Len(M) /\ Len(M) \in Nat /\ Len(s) \in Nat
      /\ DOMAIN s = 1 .. Len(s)
      /\ s \in Seq(Nodes \cup {Null}) /\ Distinct(s) /\ Fits(kind[n], kind, s)
  BY HeapFacts, FitsFacts DEF NoRepeats, Distinct
<1>2. c = SubSeq(s, V + 1, Len(s))
  BY DEF MembersOf
<1> HIDE DEF c, s, V, M
<1>3. /\ c \in Seq(Nodes \cup {Null}) /\ DOMAIN c = 1 .. Len(M) /\ Len(c) = Len(M)
      /\ \A i \in 1 .. Len(M) : c[i] = s[V + i]
  <2>1. (Len(s) - (V + 1)) + 1 = Len(M)
    BY <1>1
  <2>2. \A i \in 1 .. Len(M) : (V + 1) + i - 1 = V + i /\ V + i \in 1 .. Len(s)
    BY <1>1
  <2>3. c \in Seq(Nodes \cup {Null}) /\ Len(c) = Len(M)
    BY <1>1, <1>2, <2>1
  <2>4. \A i \in 1 .. Len(M) : c[i] = s[V + i]
    BY <1>1, <1>2, <2>1, <2>2
  <2>5. QED BY <1>1, <2>3, <2>4
<1>4. \A i \in 1 .. Len(M) : V + i \in DOMAIN s
  BY <1>1
<1>5. Distinct(c)
  <2> SUFFICES ASSUME NEW i \in 1 .. Len(M), NEW j \in 1 .. Len(M), c[i] = c[j], c[i] # Null
               PROVE  i = j
    BY <1>3 DEF Distinct
  <2>1. V + i = V + j
    BY <1>1, <1>3, <1>4 DEF Distinct
  <2>2. QED BY <1>1, <2>1
<1>6. NodesIn(c) \in SUBSET NodesIn(s)
  BY <1>3, <1>4 DEF NodesIn, Range
<1>7. Fits(kind[n], kind, c)
  <2>1. VectorLength(kind[n], c) = 0
    BY <1>1, <1>3 DEF VectorLength, M
  <2>2. \A i \in DOMAIN c : Admitted(kind[n], c, i) = M[i]
    BY <1>3, <2>1 DEF Admitted, M
  <2>3. \A i \in 1 .. Len(M) : Admitted(kind[n], s, V + i) = M[i]
    <3> SUFFICES ASSUME NEW i \in 1 .. Len(M) PROVE Admitted(kind[n], s, V + i) = M[i]
      OBVIOUS
    <3>1. ~ (V + i <= V) /\ (V + i) - V = i
      BY <1>1
    <3>2. QED BY <3>1 DEF Admitted, V, M
  <2>4. \A i \in DOMAIN c : c[i] # Null => kind[c[i]] \in M[i]
    <3>1. \A i \in 1 .. Len(M) : s[V + i] # Null => kind[s[V + i]] \in Admitted(kind[n], s, V + i)
      BY <1>1, <1>4 DEF Fits
    <3>2. QED BY <1>3, <2>3, <3>1
  <2>5. QED BY <2>1, <2>2, <2>4 DEF Fits
<1>8. QED BY <1>3, <1>4, <1>5, <1>6, <1>7 DEF c, s, V, M

(* What is left of a node whose content was moved fits its class.          *)
LEMMA MovedFacts ==
  ASSUME NodeInv, NEW n \in Live, NEW kinds
  PROVE  /\ MovedFrom(n) \in Seq(Nodes \cup {Null}) /\ NodesIn(MovedFrom(n)) = {}
         /\ Distinct(MovedFrom(n)) /\ Fits(kind[n], kinds, MovedFrom(n))
<1> DEFINE c == MovedFrom(n)
           d == MembersOf(n)
<1>1. /\ d \in Seq(Nodes \cup {Null}) /\ Fits(kind[n], kind, d)
  BY MembersFacts
<1>2. c = [i \in DOMAIN d |-> Null]
  BY DEF MovedFrom
<1> HIDE DEF c, d
<1>3. Len(d) \in Nat /\ DOMAIN d = 1 .. Len(d)
  BY <1>1
<1>4. /\ c \in Seq(Nodes \cup {Null}) /\ Len(c) = Len(d) /\ DOMAIN c = DOMAIN d
      /\ \A i \in DOMAIN c : c[i] = Null
  BY <1>2, <1>3
<1>5. NodesIn(c) = {} /\ Distinct(c)
  BY <1>4 DEF NodesIn, Range, Distinct
<1>6. Fits(kind[n], kinds, c)
  BY <1>1, <1>4, FitsSame
<1>7. QED BY <1>4, <1>5, <1>6 DEF c

LEMMA MoveConstructInv ==
  ASSUME NodeInv, NEW n \in Live, NEW a \in FreeNodes, MoveConstruct(n, a)
  PROVE  HeapOK(kind', child', parent', hand', stray')
<1> DEFINE kid == KidsIn(child)
           X == NodesIn(child[n])
           kinds == [kind EXCEPT ![a] = kind[n]]
           ch == [child EXCEPT ![a] = child[n], ![n] = MovedFrom(n)]
           held == hand \cup {a}
           moved == stray \cup X
<1>1. /\ a \in Nodes /\ a \notin Live /\ n \in Nodes
      /\ Live \in SUBSET Nodes /\ Live = AliveIn(kind)
      /\ kid \in [Nodes -> SUBSET Nodes] /\ Forest(kid, Live, hand)
      /\ \A m \in Nodes : kid[m] = NodesIn(child[m])
      /\ stray \in SUBSET Live /\ hand \in SUBSET Live /\ hand \in SUBSET Nodes
      /\ child[a] = << >> /\ parent[a] = Null
      /\ \A m \in Nodes : NodesIn(child[m]) \in SUBSET Live
      /\ \A h \in hand : \A o \in Nodes : h \notin NodesIn(child[o])
      /\ Null \notin Nodes /\ kind[n] \in Kinds
  BY HeapFacts DEF FreeNodes
<1>2. /\ HeapTypes(kind, child, parent) /\ AllFit(kind, child, parent)
      /\ NoRepeats(child) /\ OwnersTold(kind, child, parent, stray)
  BY DEF NodeInv, HeapOK
<1>3. /\ MovedFrom(n) \in Seq(Nodes \cup {Null}) /\ NodesIn(MovedFrom(n)) = {}
      /\ Distinct(MovedFrom(n)) /\ \A others : Fits(kind[n], others, MovedFrom(n))
  BY MovedFacts
<1>4. Becomes(kinds, ch, parent, held, moved, {})
  BY DEF MoveConstruct
<1>5. /\ \A m \in Nodes : kinds[m] = IF m = a THEN kind[n] ELSE kind[m]
      /\ \A m \in Nodes : ch[m] = IF m = n THEN MovedFrom(n) ELSE IF m = a THEN child[n] ELSE child[m]
      /\ HeapTypes(kinds, ch, parent)
  BY <1>1, <1>2, <1>3 DEF HeapTypes
<1> HIDE DEF kid, X, kinds, ch, held, moved
<1>6. AliveIn(kinds) = Live \cup {a}
  BY <1>1, <1>5, HeapAssumption DEF AliveIn
<1>7. AllFit(kinds, ch, parent)
  <2> SUFFICES ASSUME NEW m \in Nodes
               PROVE  IF kinds[m] # Free THEN Fits(kinds[m], kinds, ch[m])
                      ELSE ch[m] = << >> /\ parent[m] = Null
    BY DEF AllFit
  <2>1. ASSUME NEW o \in Live PROVE Fits(kind[o], kinds, child[o])
    <3>1. \A i \in DOMAIN child[o] : child[o][i] # Null => kinds[child[o][i]] = kind[child[o][i]]
      <4>1. \A i \in DOMAIN child[o] : child[o][i] # Null => child[o][i] \in NodesIn(child[o])
        BY DEF NodesIn, Range
      <4>2. QED BY <1>1, <1>5, <4>1
    <3>2. Fits(kind[o], kind, child[o])
      BY <1>1, <1>2 DEF AllFit, Live
    <3>3. QED BY <3>1, <3>2, FitsSame
  <2>2. CASE m \in Live \cup {a}
    <3>1. kind[n] # Free
      BY DEF Live
    <3>2. kinds[m] # Free
      BY <1>5, <2>2, <3>1 DEF Live
    <3>3. CASE m = n
      BY <1>1, <1>3, <1>5, <3>2, <3>3
    <3>4. CASE m # n
      BY <1>1, <1>5, <2>1, <2>2, <3>2, <3>4
    <3>5. QED BY <3>3, <3>4
  <2>3. CASE m \notin Live \cup {a}
    BY <1>1, <1>2, <1>5, <2>3 DEF AllFit, Live
  <2>4. QED BY <2>2, <2>3
<1>8. moved \subseteq AliveIn(kinds)
  BY <1>1, <1>6 DEF moved, X
<1>9. Forest(KidsIn(ch), AliveIn(kinds), held)
  <2> DEFINE bare == Without(kid, n, X)
  <2>1. X \in SUBSET kid[n] /\ X \in SUBSET Live /\ kid[n] = X
    BY <1>1 DEF X
  <2>2. bare \in [Nodes -> SUBSET Nodes]
        /\ \A m \in Nodes : bare[m] = IF m = n THEN {} ELSE kid[m]
    BY <1>1, <2>1 DEF Without
  <2>3. Forest(bare, Live, hand \cup X)
    BY <1>1, <2>1, ForestDetach
  <2> HIDE DEF bare
  <2>4. Forest(bare, Live \cup {a}, (hand \cup X) \cup {a})
    BY <1>1, <2>2, <2>3, ForestAdd
  <2>5. a \notin Under(bare, X)
    BY <1>1, <2>1, <2>2, <2>3, UnderAlive
  <2>6. X \in SUBSET ((hand \cup X) \cup {a}) /\ a \in Live \cup {a}
    OBVIOUS
  <2>7. Forest(With(bare, a, X), Live \cup {a}, ((hand \cup X) \cup {a}) \ X)
    BY <2>2, <2>4, <2>5, <2>6, ForestAttach
  <2>8. ((hand \cup X) \cup {a}) \ X = held
    BY <1>1, <2>1 DEF held, X
  <2>9. With(bare, a, X) = KidsIn(ch)
    <3>1. bare[a] = {}
      BY <1>1, <2>2, NoChildren
    <3>2. \A m \in Nodes : NodesIn(ch[m]) = IF m = a THEN bare[a] \cup X ELSE bare[m]
      BY <1>1, <1>3, <1>5, <2>2, <3>1 DEF X
    <3>3. QED BY <2>2, <3>2 DEF With, KidsIn
  <2>10. QED BY <1>6, <2>7, <2>8, <2>9
<1>10. NoRepeats(ch)
  <2>1. \A m \in Nodes : Distinct(child[m])
    BY <1>2 DEF NoRepeats, Distinct
  <2>2. \A m \in Nodes : Distinct(ch[m])
    BY <1>1, <1>3, <1>5, <2>1
  <2>3. QED BY <2>2 DEF NoRepeats, Distinct
<1>11. OwnersTold(kinds, ch, parent, moved)
  <2> SUFFICES ASSUME NEW m \in Nodes, m \notin moved, kinds[m] # Free, parent[m] # Null
               PROVE  \/ m \in NodesIn(ch[parent[m]])
                      \/ \E o \in Nodes : kinds[o] = "Call" /\ m \in NodesIn(ch[o])
    BY DEF OwnersTold
  <2>1. m # a /\ m \notin stray /\ kind[m] # Free /\ parent[m] \in Nodes
    BY <1>1, <1>2, <1>5 DEF moved, HeapTypes
  <2>2. \A o \in Nodes : m \in NodesIn(child[o]) =>
          m \in NodesIn(ch[o]) /\ kinds[o] = kind[o]
    BY <1>1, <1>5, NoChildren DEF moved, X
  <2>3. \/ m \in NodesIn(child[parent[m]])
        \/ \E o \in Nodes : kind[o] = "Call" /\ m \in NodesIn(child[o])
    BY <1>2, <2>1 DEF OwnersTold
  <2>4. QED BY <2>1, <2>2, <2>3
<1>12. HeapOK(kinds, ch, parent, held, moved)
  BY <1>5, <1>7, <1>8, <1>9, <1>10, <1>11 DEF HeapOK
<1>13. QED BY <1>4, <1>12, NoneDies

LEMMA MoveAssignInv ==
  ASSUME NodeInv, NEW a \in Live, NEW b \in Live, MoveAssign(a, b)
  PROVE  HeapOK(kind', child', parent', hand', stray')
<1> DEFINE kid == KidsIn(child)
           D == NodesIn(child[a])
           X == NodesIn(child[b])
           based == IF Class[kind[a]].bases THEN {a} ELSE {}
           ch == [child EXCEPT ![a] = child[b], ![b] = MovedFrom(b)]
           par == [m \in Nodes |-> IF m \in based THEN parent[b] ELSE parent[m]]
           moved == stray \cup X \cup based
           dead == Under(kid, D)
<1>1. /\ a \in Nodes /\ b \in Nodes
      /\ Live \in SUBSET Nodes /\ Live = AliveIn(kind)
      /\ kid \in [Nodes -> SUBSET Nodes] /\ Forest(kid, Live, hand)
      /\ \A m \in Nodes : kid[m] = NodesIn(child[m])
      /\ stray \in SUBSET Live /\ hand \in SUBSET Live
      /\ \A m \in Nodes : NodesIn(child[m]) \in SUBSET Live
      /\ \A h \in hand : \A o \in Nodes : h \notin NodesIn(child[o])
      /\ \A R : Below(R) = Under(kid, R)
      /\ kind[b] # Free
  BY HeapFacts DEF Live
<1>2. /\ HeapTypes(kind, child, parent) /\ AllFit(kind, child, parent)
      /\ NoRepeats(child) /\ OwnersTold(kind, child, parent, stray)
  BY DEF NodeInv, HeapOK
<1>3. /\ MovedFrom(b) \in Seq(Nodes \cup {Null}) /\ NodesIn(MovedFrom(b)) = {}
      /\ Distinct(MovedFrom(b)) /\ Fits(kind[b], kind, MovedFrom(b))
  BY MovedFacts
<1>4. /\ kind[a] = kind[b] /\ a \notin Under(kid, {b}) /\ b \notin Under(kid, {a})
      /\ Becomes(kind, ch, par, hand, moved, dead)
  BY <1>1 DEF MoveAssign, Apart
<1>5. a # b /\ D \in SUBSET kid[a] /\ X \in SUBSET kid[b] /\ D = kid[a] /\ X = kid[b]
      /\ D \in SUBSET Live /\ X \in SUBSET Live /\ D \in SUBSET Nodes /\ X \in SUBSET Nodes
  <2>1. b \in Under(kid, {b})
    BY <1>1, UnderFacts
  <2>2. QED BY <1>1, <1>4, <2>1
<1>6. /\ \A m \in Nodes : ch[m] = IF m = b THEN MovedFrom(b) ELSE IF m = a THEN child[b] ELSE child[m]
      /\ \A m \in Nodes : par[m] = IF m \in based THEN parent[b] ELSE parent[m]
      /\ based \in SUBSET {a}
      /\ HeapTypes(kind, ch, par)
  BY <1>1, <1>2, <1>3, <1>5 DEF HeapTypes
<1> HIDE DEF kid, D, X, based, ch, par, moved, dead
<1>7. dead \in SUBSET Live /\ ClosedUnder(kid, dead) /\ D \subseteq dead /\ a \notin dead /\ b \notin dead
  <2>1. dead \in SUBSET Live /\ ClosedUnder(kid, dead) /\ D \subseteq dead
    BY <1>1, <1>5, UnderFacts, UnderAlive DEF dead
  <2>2. a \notin dead
    BY <1>1, <1>5, OwnerAbove DEF dead
  <2>3. dead \subseteq Under(kid, {a})
    <3>1. /\ Under(kid, {a}) \in SUBSET Nodes /\ a \in Under(kid, {a})
          /\ ClosedUnder(kid, Under(kid, {a}))
      BY <1>1, UnderFacts
    <3>2. D \subseteq Under(kid, {a})
      BY <1>5, <3>1 DEF ClosedUnder
    <3>3. QED BY <1>1, <1>5, <3>1, <3>2, UnderFacts DEF dead
  <2>4. QED BY <1>4, <2>1, <2>2, <2>3
<1>8. Forest(KidsAfter(ch, dead), Live \ dead, hand)
  <2> DEFINE bare == Without(kid, b, X)
  <2>1. bare \in [Nodes -> SUBSET Nodes]
        /\ \A m \in Nodes : bare[m] = IF m = b THEN {} ELSE kid[m]
    BY <1>1, <1>5 DEF Without
  <2>2. Forest(bare, Live, hand \cup X)
    BY <1>1, <1>5, ForestDetach
  <2> HIDE DEF bare
  <2>3. a \notin Under(bare, X)
    <3>1. /\ Under(kid, {b}) \in SUBSET Nodes /\ b \in Under(kid, {b})
          /\ ClosedUnder(kid, Under(kid, {b}))
      BY <1>1, UnderFacts
    <3>2. X \in SUBSET Under(kid, {b})
      BY <1>5, <3>1 DEF ClosedUnder
    <3>3. \A m \in Under(kid, {b}) : bare[m] \subseteq kid[m]
      BY <2>1, <3>1
    <3>4. {b} \in SUBSET Nodes
      BY <1>1
    <3>5. Under(bare, X) \subseteq Under(kid, {b})
      BY <1>1, <2>1, <3>2, <3>3, <3>4, UnderLess
    <3>6. QED BY <1>4, <3>5
  <2>4. Under(bare, D) = dead
    <3>1. \A m \in Under(kid, D) : bare[m] = kid[m]
      BY <1>1, <1>7, <2>1 DEF dead
    <3>2. QED BY <1>1, <1>5, <2>1, <3>1, UnderAgrees DEF dead
  <2>5. D \in SUBSET bare[a] /\ X \in SUBSET (hand \cup X)
    BY <1>1, <1>5, <2>1
  <2>6. Forest(Replaced(bare, a, D, X), Live \ Under(bare, D), (hand \cup X) \ X)
    BY <2>1, <2>2, <2>3, <2>5, ForestReplace
  <2>7. (hand \cup X) \ X = hand
    BY <1>1, <1>5
  <2>8. Replaced(bare, a, D, X) = KidsAfter(ch, dead)
    <3>1. \A m \in Nodes : KidsAfter(ch, dead)[m] = IF m \in dead THEN {} ELSE NodesIn(ch[m])
      BY DEF KidsAfter
    <3>2. \A m \in Nodes : Replaced(bare, a, D, X)[m] =
             IF m = a THEN (bare[a] \ D) \cup X ELSE IF m \in dead THEN {} ELSE bare[m]
      BY <1>1, <2>1, <2>4 DEF Replaced, Killed
    <3>3. \A m \in Nodes : Replaced(bare, a, D, X)[m] = KidsAfter(ch, dead)[m]
      <4> SUFFICES ASSUME NEW m \in Nodes
                   PROVE  Replaced(bare, a, D, X)[m] = KidsAfter(ch, dead)[m]
        OBVIOUS
      <4>1. CASE m = a
        <5>1. Replaced(bare, a, D, X)[m] = X
          BY <1>1, <1>5, <2>1, <3>2, <4>1
        <5>2. KidsAfter(ch, dead)[m] = X
          BY <1>1, <1>5, <1>6, <1>7, <3>1, <4>1
        <5>3. QED BY <5>1, <5>2
      <4>2. CASE m # a
        <5>1. Replaced(bare, a, D, X)[m] = IF m \in dead THEN {} ELSE bare[m]
          BY <3>2, <4>2
        <5>2. m \notin dead => bare[m] = NodesIn(ch[m])
          BY <1>1, <1>3, <1>6, <1>7, <2>1, <4>2
        <5>3. QED BY <3>1, <5>1, <5>2
      <4>3. QED BY <4>1, <4>2
    <3>4. /\ Replaced(bare, a, D, X) = [m \in Nodes |-> Replaced(bare, a, D, X)[m]]
          /\ KidsAfter(ch, dead) = [m \in Nodes |-> KidsAfter(ch, dead)[m]]
      BY <2>1 DEF Replaced, Killed, KidsAfter
    <3>5. QED BY <3>3, <3>4
  <2>9. QED BY <2>4, <2>6, <2>7, <2>8
<1>9. \A m \in Nodes \ dead : IF kind[m] # Free THEN Fits(kind[m], kind, ch[m])
                              ELSE ch[m] = << >> /\ par[m] = Null
  <2>1. kind[a] # Free
    BY <1>1, <1>4
  <2>2. QED BY <1>1, <1>2, <1>3, <1>4, <1>6, <2>1 DEF AllFit
<1>10. \A m \in Nodes \ dead : NodesIn(ch[m]) \cap dead = {}
  <2>1. ch \in [Nodes -> Seq(Nodes \cup {Null})]
    BY <1>6 DEF HeapTypes
  <2>2. \A m \in Nodes : KidsAfter(ch, dead)[m] \subseteq Live \ dead
    BY <1>8, <2>1, KidsAfterFacts DEF Forest
  <2>3. QED BY <2>1, <2>2, KidsAfterFacts
<1>11. \A m \in dead : NodesIn(ch[m]) \subseteq dead
  BY <1>1, <1>6, <1>7 DEF ClosedUnder
<1>12. \A m \in Nodes \ dead : \A i, j \in DOMAIN ch[m] :
         ch[m][i] = ch[m][j] /\ ch[m][i] # Null => i = j
  <2>1. \A m \in Nodes : Distinct(child[m])
    BY <1>2 DEF NoRepeats, Distinct
  <2>2. \A m \in Nodes : Distinct(ch[m])
    BY <1>1, <1>3, <1>6, <2>1
  <2>3. QED BY <2>2 DEF Distinct
<1>13. OwnersTold(kind, ch, par, moved \cup dead)
  <2> SUFFICES ASSUME NEW m \in Nodes, m \notin moved, m \notin dead, kind[m] # Free, par[m] # Null
               PROVE  \/ m \in NodesIn(ch[par[m]])
                      \/ \E o \in Nodes : kind[o] = "Call" /\ m \in NodesIn(ch[o])
    BY DEF OwnersTold
  <2>1. m \notin stray /\ par[m] = parent[m] /\ parent[m] \in Nodes
    BY <1>2, <1>6 DEF moved, HeapTypes
  <2>2. \A o \in Nodes : m \in NodesIn(child[o]) => m \in NodesIn(ch[o])
    BY <1>5, <1>6, <1>7, <1>1 DEF moved
  <2>3. \/ m \in NodesIn(child[parent[m]])
        \/ \E o \in Nodes : kind[o] = "Call" /\ m \in NodesIn(child[o])
    BY <1>2, <2>1 DEF OwnersTold
  <2>4. QED BY <2>1, <2>2, <2>3
<1>14. moved \ dead \subseteq AliveIn(kind)
  BY <1>1, <1>5, <1>6 DEF moved
<1>15. Forest(KidsAfter(ch, dead), AliveIn(kind) \ dead, hand \ dead)
  <2>1. hand \ dead = hand
    <3>1. \A h \in hand : h \notin D
      BY <1>1, <1>5
    <3>2. \A h \in hand : h \notin dead
      BY <1>1, <1>5, <3>1, RootsApart DEF dead
    <3>3. QED BY <3>2
  <2>2. QED BY <1>1, <1>8, <2>1
<1>16. SoundAfter(kind, ch, par, hand, moved, dead)
  BY <1>6, <1>9, <1>10, <1>11, <1>12, <1>13, <1>14, <1>15 DEF SoundAfter
<1>17. dead \in SUBSET Nodes
  BY <1>1, <1>7
<1>18. QED BY <1>4, <1>16, <1>17, AfterCall

-----------------------------------------------------------------------------
(* Calls that copy nodes. *)

\* d lists the copies of what c lists.
IsCopy(d, f, c) ==
  /\ d \in Seq(Nodes \cup {Null}) /\ Distinct(d)
  /\ NodesIn(d) = {f[z] : z \in NodesIn(c)}
  /\ Len(d) = Len(c) /\ DOMAIN d = DOMAIN c
  /\ \A i \in DOMAIN c : d[i] # Null =>
       c[i] # Null /\ c[i] \in NodesIn(c) /\ d[i] = f[c[i]]

(* The children of a copy are the copies of the children.                  *)
LEMMA CopyOfFacts ==
  ASSUME NEW B \in SUBSET Nodes, NEW f \in [B -> Nodes],
         \A m, z \in B : f[m] = f[z] => m = z,
         NEW c \in Seq(Nodes \cup {Null}), NodesIn(c) \in SUBSET B, Distinct(c)
  PROVE  IsCopy(CopyOf(f, c), f, c)
<1> DEFINE d == CopyOf(f, c)
<1>1. Len(c) \in Nat /\ DOMAIN c = 1 .. Len(c) /\ Null \notin Nodes
  BY HeapAssumption
<1>2. \A i \in DOMAIN c : c[i] = Null \/ (c[i] # Null /\ c[i] \in NodesIn(c) /\ c[i] \in B)
  BY DEF NodesIn, Range
<1>3. d = [i \in 1 .. Len(c) |-> IF c[i] = Null THEN Null ELSE f[c[i]]]
  BY <1>1 DEF CopyOf
<1> HIDE DEF d
<1>4. d \in Seq(Nodes \cup {Null}) /\ Len(d) = Len(c) /\ DOMAIN d = DOMAIN c
  BY <1>1, <1>2, <1>3
<1>5. \A i \in DOMAIN c : d[i] = IF c[i] = Null THEN Null ELSE f[c[i]]
  BY <1>1, <1>3
<1>6. \A i \in DOMAIN c : d[i] # Null <=> c[i] # Null
  BY <1>1, <1>2, <1>5
<1>7. Distinct(d)
  BY <1>2, <1>4, <1>5, <1>6 DEF Distinct
<1>8. NodesIn(d) = {f[z] : z \in NodesIn(c)}
  <2>1. \A y : y \in NodesIn(d) <=> y # Null /\ \E i \in DOMAIN c : d[i] = y
    BY <1>4 DEF NodesIn, Range
  <2>2. \A z : z \in NodesIn(c) <=> z # Null /\ \E i \in DOMAIN c : c[i] = z
    BY DEF NodesIn, Range
  <2>3. \A z \in NodesIn(c) : f[z] \in NodesIn(d)
    BY <1>5, <1>6, <2>1, <2>2
  <2>4. \A y \in NodesIn(d) : \E z \in NodesIn(c) : y = f[z]
    BY <1>2, <1>5, <1>6, <2>1
  <2>5. QED BY <2>3, <2>4
<1>9. \A i \in DOMAIN c : d[i] # Null => c[i] # Null /\ c[i] \in NodesIn(c) /\ d[i] = f[c[i]]
  BY <1>2, <1>5, <1>6
<1>10. IsCopy(d, f, c)
  BY <1>4, <1>7, <1>8, <1>9 DEF IsCopy
<1>11. QED BY <1>10 DEF d

(* The parts of a heap with copies.                                        *)
LEMMA CopyParts ==
  ASSUME NodeInv, NEW R \in SUBSET Live, NEW f \in Copies(KidsIn(child), R, FreeNodes)
  PROVE  /\ f \in [Below(R) -> FreeNodes] /\ Below(R) \in SUBSET Live /\ R \subseteq Below(R)
         /\ f \in [Below(R) -> Nodes] /\ \A m \in Below(R) : f[m] \in Nodes \ Live
         /\ Range(f) = {f[m] : m \in Below(R)}
         /\ \A m, z \in Below(R) : f[m] = f[z] => m = z
         /\ \A m \in Below(R) : Original(f, f[m]) = m
         /\ \A m \in Below(R) : NodesIn(child[m]) \in SUBSET Below(R)
<1> DEFINE kid == KidsIn(child)
           B == Below(R)
<1>1. /\ Live \in SUBSET Nodes /\ kid \in [Nodes -> SUBSET Nodes] /\ Forest(kid, Live, hand)
      /\ \A m \in Nodes : kid[m] = NodesIn(child[m])
      /\ B = Under(kid, R) /\ R \in SUBSET Nodes
  BY HeapFacts
<1> HIDE DEF kid, B
<1>2. B \in SUBSET Live /\ R \subseteq B /\ ClosedUnder(kid, B)
  BY <1>1, UnderFacts, UnderAlive
<1>3. f \in [B -> FreeNodes] /\ \A m, z \in B : f[m] = f[z] => m = z
  BY <1>1 DEF Copies, kid
<1>4. \A m \in B : f[m] \in Nodes \ Live
  BY <1>3 DEF FreeNodes
<1>5. f \in [B -> Nodes]
  BY <1>3, <1>4
<1>6. Range(f) = {f[m] : m \in B}
  BY <1>3 DEF Range
<1>7. \A m \in B : Original(f, f[m]) = m
  BY <1>3 DEF Original
<1>8. \A m \in B : NodesIn(child[m]) \in SUBSET B
  BY <1>1, <1>2 DEF ClosedUnder
<1>9. QED BY <1>2, <1>3, <1>4, <1>5, <1>6, <1>7, <1>8 DEF B

LEMMA CopyPlaces ==
  ASSUME NodeInv, NEW R \in SUBSET Live, NEW f \in Copies(KidsIn(child), R, FreeNodes)
  PROVE  /\ DOMAIN KindsWith(f) = Nodes /\ DOMAIN ChildrenWith(f) = Nodes
         /\ \A m \in Below(R) : /\ KindsWith(f)[f[m]] = kind[m]
                                /\ ChildrenWith(f)[f[m]] = CopyOf(f, child[m])
         /\ \A m \in Nodes \ Range(f) : KindsWith(f)[m] = kind[m] /\ ChildrenWith(f)[m] = child[m]
         /\ Live \cap Range(f) = {}
<1>1. /\ \A m \in Below(R) : f[m] \in Nodes \ Live /\ f[m] \in Range(f) /\ Original(f, f[m]) = m
      /\ Range(f) = {f[m] : m \in Below(R)}
  BY CopyParts
<1>2. /\ \A m \in Nodes : KindsWith(f)[m] = IF m \in Range(f) THEN kind[Original(f, m)] ELSE kind[m]
      /\ \A m \in Nodes : ChildrenWith(f)[m] =
            IF m \in Range(f) THEN CopyOf(f, child[Original(f, m)]) ELSE child[m]
      /\ DOMAIN KindsWith(f) = Nodes /\ DOMAIN ChildrenWith(f) = Nodes
  BY DEF KindsWith, ChildrenWith
<1>3. QED BY <1>1, <1>2

(* The topmost copies have the parent top, the others the copies of their  *)
(* owners.                                                                 *)
LEMMA CopyParents ==
  ASSUME NodeInv, NEW R \in SUBSET Live, NEW f \in Copies(KidsIn(child), R, FreeNodes),
         Topmost(KidsIn(child), R), NEW top
  PROVE  /\ DOMAIN ParentsWith(f, top) = Nodes
         /\ \A m \in Nodes \ Range(f) : ParentsWith(f, top)[m] = parent[m]
         /\ \A r \in R : ParentsWith(f, top)[f[r]] = top
         /\ \A m \in Below(R) \ R : \E o \in Below(R) :
              m \in NodesIn(child[o]) /\ ParentsWith(f, top)[f[m]] = f[o]
<1> DEFINE kid == KidsIn(child)
           B == Below(R)
           p == ParentsWith(f, top)
<1>1. /\ Live \in SUBSET Nodes /\ kid \in [Nodes -> SUBSET Nodes]
      /\ \A m \in Nodes : kid[m] = NodesIn(child[m])
      /\ B = Under(kid, R) /\ R \in SUBSET Nodes
  BY HeapFacts
<1>2. /\ B \in SUBSET Live /\ R \subseteq B /\ DOMAIN f = B
      /\ \A m \in B : f[m] \in Nodes /\ f[m] \in Range(f) /\ Original(f, f[m]) = m
  BY CopyParts
<1>3. /\ DOMAIN p = Nodes
      /\ \A m \in Nodes \ Range(f) : p[m] = parent[m]
      /\ \A m \in Nodes : m \in Range(f) => p[m] =
           IF Owners(Original(f, m)) \cap DOMAIN f = {} THEN top
           ELSE f[CHOOSE o \in Owners(Original(f, m)) : o \in DOMAIN f]
  BY DEF ParentsWith
<1>4. \A m \in B : p[f[m]] = IF Owners(m) \cap B = {} THEN top
                             ELSE f[CHOOSE o \in Owners(m) : o \in B]
  BY <1>2, <1>3
<1>5. \A r \in R : Owners(r) \cap B = {}
  <2>1. \A m \in B : \A r \in R : r \notin kid[m]
    BY <1>1 DEF Topmost
  <2>2. QED BY <1>1, <1>2, <2>1 DEF Owners
<1>6. \A m \in B \ R : Owners(m) \cap B # {}
  <2> SUFFICES ASSUME NEW m \in B \ R PROVE Owners(m) \cap B # {}
    OBVIOUS
  <2>1. PICK o \in Under(kid, R) : m \in kid[o]
    BY <1>1, UnderIsOwned
  <2>2. o \in Owners(m)
    BY <1>1, <1>2, <2>1 DEF Owners
  <2>3. QED BY <1>1, <2>1, <2>2
<1> HIDE DEF p, B
<1>7. \A m \in B \ R : \E o \in B : m \in NodesIn(child[o]) /\ p[f[m]] = f[o]
  <2> SUFFICES ASSUME NEW m \in B \ R
               PROVE  \E o \in B : m \in NodesIn(child[o]) /\ p[f[m]] = f[o]
    OBVIOUS
  <2> DEFINE o == CHOOSE o \in Owners(m) : o \in B
  <2>1. o \in Owners(m) /\ o \in B
    BY <1>6
  <2>2. p[f[m]] = f[o]
    BY <1>4, <1>6
  <2>3. m \in NodesIn(child[o])
    BY <2>1 DEF Owners
  <2> HIDE DEF o
  <2>4. QED BY <2>1, <2>2, <2>3
<1>8. \A r \in R : p[f[r]] = top
  BY <1>2, <1>4, <1>5
<1>9. QED BY <1>3, <1>7, <1>8 DEF p, B

(* What copies make of the heap: their topmost are not owned yet.          *)
LEMMA CopySound ==
  ASSUME NodeInv, NEW R \in SUBSET Live, NEW f \in Copies(KidsIn(child), R, FreeNodes),
         Topmost(KidsIn(child), R), NEW top \in Nodes \cup {Null}
  PROVE  /\ HeapTypes(KindsWith(f), ChildrenWith(f), ParentsWith(f, top))
         /\ AllFit(KindsWith(f), ChildrenWith(f), ParentsWith(f, top))
         /\ NoRepeats(ChildrenWith(f))
         /\ AliveIn(KindsWith(f)) = Live \cup Range(f)
         /\ Forest(KidsIn(ChildrenWith(f)), Live \cup Range(f), hand \cup Images(f, R))
<1> DEFINE kid == KidsIn(child)
           B == Below(R)
           C == Range(f)
           kinds == KindsWith(f)
           ch == ChildrenWith(f)
           par == ParentsWith(f, top)
<1>1. /\ Live \in SUBSET Nodes /\ kid \in [Nodes -> SUBSET Nodes] /\ Forest(kid, Live, hand)
      /\ \A m \in Nodes : kid[m] = NodesIn(child[m])
      /\ B = Under(kid, R)
      /\ \A m \in Nodes : NodesIn(child[m]) \in SUBSET Live
      /\ \A m \in Live : kind[m] \in Kinds /\ Fits(kind[m], kind, child[m])
      /\ \A m \in Nodes \ Live : child[m] = << >> /\ parent[m] = Null /\ kind[m] = Free
  BY HeapFacts DEF Live
<1>2. /\ HeapTypes(kind, child, parent) /\ \A m \in Nodes : Distinct(child[m])
  BY DEF NodeInv, HeapOK, NoRepeats, Distinct
<1>3. /\ B \in SUBSET Live /\ R \subseteq B /\ f \in [B -> Nodes]
      /\ \A m \in B : f[m] \in Nodes \ Live
      /\ C = {f[m] : m \in B}
      /\ \A m, z \in B : f[m] = f[z] => m = z
      /\ \A m \in B : NodesIn(child[m]) \in SUBSET B
  BY CopyParts
<1>4. /\ DOMAIN kinds = Nodes /\ DOMAIN ch = Nodes
      /\ \A m \in B : kinds[f[m]] = kind[m] /\ ch[f[m]] = CopyOf(f, child[m])
      /\ \A m \in Nodes \ C : kinds[m] = kind[m] /\ ch[m] = child[m]
      /\ Live \cap C = {}
  BY CopyPlaces
<1>5. /\ DOMAIN par = Nodes
      /\ \A m \in Nodes \ C : par[m] = parent[m]
      /\ \A r \in R : par[f[r]] = top
      /\ \A m \in B \ R : \E o \in B : m \in NodesIn(child[o]) /\ par[f[m]] = f[o]
  BY CopyParents
<1>6. \A m \in B : /\ CopyOf(f, child[m]) \in Seq(Nodes \cup {Null}) /\ Distinct(CopyOf(f, child[m]))
                   /\ NodesIn(CopyOf(f, child[m])) = {f[z] : z \in NodesIn(child[m])}
                   /\ Len(CopyOf(f, child[m])) = Len(child[m])
                   /\ DOMAIN CopyOf(f, child[m]) = DOMAIN child[m]
                   /\ \A i \in DOMAIN child[m] : CopyOf(f, child[m])[i] # Null =>
                        /\ child[m][i] # Null /\ child[m][i] \in NodesIn(child[m])
                        /\ CopyOf(f, child[m])[i] = f[child[m][i]]
  <2> SUFFICES ASSUME NEW m \in B
               PROVE  /\ CopyOf(f, child[m]) \in Seq(Nodes \cup {Null}) /\ Distinct(CopyOf(f, child[m]))
                      /\ NodesIn(CopyOf(f, child[m])) = {f[z] : z \in NodesIn(child[m])}
                      /\ Len(CopyOf(f, child[m])) = Len(child[m])
                      /\ DOMAIN CopyOf(f, child[m]) = DOMAIN child[m]
                      /\ \A i \in DOMAIN child[m] : CopyOf(f, child[m])[i] # Null =>
                           /\ child[m][i] # Null /\ child[m][i] \in NodesIn(child[m])
                           /\ CopyOf(f, child[m])[i] = f[child[m][i]]
    OBVIOUS
  <2> DEFINE c == child[m]
  <2>1. c \in Seq(Nodes \cup {Null}) /\ NodesIn(c) \in SUBSET B /\ Distinct(c) /\ B \in SUBSET Nodes
    BY <1>1, <1>2, <1>3 DEF HeapTypes
  <2> HIDE DEF c, B
  <2>2. f \in [B -> Nodes] /\ \A k, z \in B : f[k] = f[z] => k = z
    BY <1>3
  <2>3. IsCopy(CopyOf(f, c), f, c)
    BY <2>1, <2>2, CopyOfFacts
  <2>4. QED BY <2>3 DEF IsCopy, c
<1> HIDE DEF kid, B, C, kinds, ch, par
<1>7. HeapTypes(kinds, ch, par)
  <2>1. \A m \in Nodes : kinds[m] \in Kinds \cup {Free}
    <3>1. \A m \in C : kinds[m] \in Kinds
      BY <1>1, <1>3, <1>4
    <3>2. QED BY <1>2, <1>4, <3>1 DEF HeapTypes
  <2>2. \A m \in Nodes : ch[m] \in Seq(Nodes \cup {Null})
    <3>1. \A m \in C : ch[m] \in Seq(Nodes \cup {Null})
      BY <1>3, <1>4, <1>6
    <3>2. QED BY <1>2, <1>4, <3>1 DEF HeapTypes
  <2>3. \A m \in Nodes : par[m] \in Nodes \cup {Null}
    <3>1. \A m \in C : par[m] \in Nodes \cup {Null}
      BY <1>3, <1>5
    <3>2. QED BY <1>2, <1>5, <3>1 DEF HeapTypes
  <2>4. /\ kinds = [m \in Nodes |-> kinds[m]] /\ ch = [m \in Nodes |-> ch[m]]
        /\ par = [m \in Nodes |-> par[m]]
    BY DEF kinds, ch, par, KindsWith, ChildrenWith, ParentsWith
  <2>5. kinds \in [Nodes -> Kinds \cup {Free}]
    BY <2>1, <2>4
  <2>6. ch \in [Nodes -> Seq(Nodes \cup {Null})]
    BY <2>2, <2>4
  <2>7. par \in [Nodes -> Nodes \cup {Null}]
    BY <2>3, <2>4
  <2>8. QED BY <2>5, <2>6, <2>7 DEF HeapTypes
<1>8. AliveIn(kinds) = Live \cup C
  <2>1. C \in SUBSET Nodes
    BY <1>3
  <2>2. \A m \in C : kinds[m] # Free
    BY <1>1, <1>3, <1>4, HeapAssumption
  <2>3. \A m \in Nodes \ C : kinds[m] # Free <=> m \in Live
    BY <1>1, <1>4, HeapAssumption
  <2>4. QED BY <1>1, <2>1, <2>2, <2>3 DEF AliveIn
<1>9. \A m \in Live : kinds[m] = kind[m] /\ ch[m] = child[m]
  BY <1>1, <1>4
<1>10. AllFit(kinds, ch, par)
  <2> SUFFICES ASSUME NEW m \in Nodes
               PROVE  IF kinds[m] # Free THEN Fits(kinds[m], kinds, ch[m])
                      ELSE ch[m] = << >> /\ par[m] = Null
    BY DEF AllFit
  <2>1. CASE m \in Live
    <3>1. \A i \in DOMAIN child[m] : child[m][i] # Null => kinds[child[m][i]] = kind[child[m][i]]
      <4>1. \A i \in DOMAIN child[m] : child[m][i] # Null => child[m][i] \in NodesIn(child[m])
        BY DEF NodesIn, Range
      <4>2. QED BY <1>1, <1>9, <4>1
    <3>2. Fits(kind[m], kind, child[m])
      BY <1>1, <2>1
    <3>3. Fits(kind[m], kinds, child[m])
      BY <3>1, <3>2, FitsSame
    <3>4. kind[m] # Free
      BY <2>1 DEF Live
    <3>5. QED BY <1>9, <2>1, <3>3, <3>4
  <2>2. CASE m \in C
    <3>1. PICK z \in B : m = f[z]
      BY <1>3, <2>2
    <3>2. kinds[m] = kind[z] /\ ch[m] = CopyOf(f, child[z]) /\ z \in Live
      BY <1>3, <1>4, <3>1
    <3>3. /\ Len(ch[m]) = Len(child[z]) /\ DOMAIN ch[m] = DOMAIN child[z]
          /\ \A i \in DOMAIN ch[m] : ch[m][i] # Null =>
               child[z][i] # Null /\ kinds[ch[m][i]] = kind[child[z][i]]
      BY <1>3, <1>4, <1>6, <3>2
    <3>4. Fits(kind[z], kind, child[z])
      BY <1>1, <3>2
    <3>5. Fits(kind[z], kinds, ch[m])
      BY <3>3, <3>4, FitsSame
    <3>6. kind[z] # Free
      BY <3>2 DEF Live
    <3>7. QED BY <3>2, <3>5, <3>6
  <2>3. CASE m \notin Live \cup C
    BY <1>1, <1>4, <1>5, <2>3
  <2>4. QED BY <2>1, <2>2, <2>3
<1>11. NoRepeats(ch)
  <2>1. \A m \in C : Distinct(ch[m])
    BY <1>3, <1>4, <1>6
  <2>2. \A m \in Nodes : Distinct(ch[m])
    BY <1>2, <1>4, <2>1
  <2>3. QED BY <2>2 DEF NoRepeats, Distinct
<1>12. KidsIn(ch) = Copied(kid, f)
  <2>1. \A m \in Nodes : NodesIn(ch[m]) =
          IF \E z \in B : f[z] = m THEN Images(f, kid[CHOOSE z \in B : f[z] = m]) ELSE kid[m]
    <3> SUFFICES ASSUME NEW m \in Nodes
                 PROVE  NodesIn(ch[m]) = IF \E z \in B : f[z] = m
                          THEN Images(f, kid[CHOOSE z \in B : f[z] = m]) ELSE kid[m]
      OBVIOUS
    <3>1. ASSUME NEW z \in B, f[z] = m
          PROVE  NodesIn(ch[m]) = Images(f, kid[CHOOSE y \in B : f[y] = m])
      <4>1. (CHOOSE y \in B : f[y] = m) = z
        BY <1>3, <3>1
      <4>2. z \in Nodes /\ kid[z] = NodesIn(child[z])
        BY <1>1, <1>3
      <4>3. NodesIn(ch[m]) = Images(f, NodesIn(child[z]))
        BY <1>4, <1>6, <3>1 DEF Images
      <4>4. QED BY <4>1, <4>2, <4>3
    <3>2. ASSUME ~ \E z \in B : f[z] = m PROVE NodesIn(ch[m]) = kid[m]
      BY <1>1, <1>3, <1>4, <3>2
    <3>3. QED BY <3>1, <3>2
  <2>2. DOMAIN f = B /\ DOMAIN kid = Nodes
    BY <1>1, <1>3
  <2>3. \A m \in Nodes : Copied(kid, f)[m] = NodesIn(ch[m])
    BY <2>1, <2>2 DEF Copied
  <2>4. Copied(kid, f) = [m \in Nodes |-> Copied(kid, f)[m]]
    BY <2>2 DEF Copied
  <2>5. QED BY <2>3, <2>4 DEF KidsIn
<1>13. Forest(KidsIn(ch), Live \cup C, hand \cup Images(f, R))
  <2>1. f \in Copies(kid, R, Nodes \ Live) /\ Topmost(kid, R)
    BY DEF kid, FreeNodes
  <2>2. Forest(Copied(kid, f), Live \cup Images(f, Under(kid, R)), hand \cup Images(f, R))
    BY <1>1, <2>1, ForestCopy
  <2>3. C = Images(f, Under(kid, R))
    BY <1>1, <1>3 DEF Images
  <2>4. QED BY <1>12, <2>2, <2>3
<1>14. QED BY <1>7, <1>8, <1>10, <1>11, <1>13 DEF kinds, ch, par, C

LEMMA CloneInv ==
  ASSUME NodeInv, NEW n \in Live, NEW f \in Injection(Below({n}), FreeNodes), Clone(n, f)
  PROVE  HeapOK(kind', child', parent', hand', stray')
<1> DEFINE kid == KidsIn(child)
           R == {n}
           kinds == KindsWith(f)
           ch == ChildrenWith(f)
           par == ParentsWith(f, Null)
<1>1. /\ n \in Nodes /\ kid \in [Nodes -> SUBSET Nodes] /\ Forest(kid, Live, hand)
      /\ Below(R) = Under(kid, R) /\ R \in SUBSET Live /\ R \in SUBSET Nodes
      /\ \A m \in Nodes : kid[m] = NodesIn(child[m])
      /\ stray \in SUBSET Live /\ Live \in SUBSET Nodes
      /\ \A m \in Nodes \ Live : child[m] = << >> /\ parent[m] = Null
      /\ parent \in [Nodes -> Nodes \cup {Null}] /\ Null \notin Nodes
      /\ OwnersTold(kind, child, parent, stray)
  BY HeapFacts
<1> HIDE DEF kid, R
<1>2. f \in Copies(kid, R, FreeNodes)
  <2>1. f \in [Below({n}) -> FreeNodes] /\ IsInjective(f)
    BY DEF Injection
  <2>2. f \in [Under(kid, R) -> FreeNodes] /\ DOMAIN f = Under(kid, R)
    BY <1>1, <2>1 DEF R
  <2>3. \A m, z \in Under(kid, R) : f[m] = f[z] => m = z
    BY <2>1, <2>2 DEF IsInjective
  <2>4. QED BY <2>2, <2>3 DEF Copies
<1>3. Topmost(kid, R)
  <2> SUFFICES ASSUME NEW m \in Under(kid, R), n \in kid[m] PROVE FALSE
    BY DEF Topmost, R
  <2>1. m \in Nodes
    BY <1>1, UnderFacts
  <2>2. R \in SUBSET kid[m]
    BY DEF R
  <2>3. QED BY <1>1, <2>1, <2>2, OwnerAbove
<1>4. /\ HeapTypes(kinds, ch, par) /\ AllFit(kinds, ch, par) /\ NoRepeats(ch)
      /\ AliveIn(kinds) = Live \cup Range(f)
      /\ Forest(KidsIn(ch), Live \cup Range(f), hand \cup Images(f, R))
  BY <1>1, <1>2, <1>3, CopySound DEF kid
<1>5. /\ \A m \in Below(R) : kinds[f[m]] = kind[m] /\ ch[f[m]] = CopyOf(f, child[m])
      /\ \A m \in Nodes \ Range(f) : kinds[m] = kind[m] /\ ch[m] = child[m]
      /\ Live \cap Range(f) = {}
  BY <1>1, <1>2, CopyPlaces DEF kid
<1>6. /\ \A m \in Nodes \ Range(f) : par[m] = parent[m]
      /\ \A r \in R : par[f[r]] = Null
      /\ \A m \in Below(R) \ R : \E o \in Below(R) :
           m \in NodesIn(child[o]) /\ par[f[m]] = f[o]
  BY <1>1, <1>2, <1>3, CopyParents DEF kid
<1>7. /\ Range(f) = {f[m] : m \in Below(R)} /\ f \in [Below(R) -> Nodes]
      /\ \A m \in Below(R) : f[m] \in Nodes \ Live
      /\ \A m, z \in Below(R) : f[m] = f[z] => m = z
      /\ \A m \in Below(R) : NodesIn(child[m]) \in SUBSET Below(R)
      /\ Below(R) \in SUBSET Live
  BY <1>1, <1>2, CopyParts DEF kid
<1>8. \A m \in Below(R) : \A z \in NodesIn(child[m]) : f[z] \in NodesIn(ch[f[m]])
  <2> SUFFICES ASSUME NEW m \in Below(R), NEW z \in NodesIn(child[m])
               PROVE  f[z] \in NodesIn(CopyOf(f, child[m]))
    BY <1>5
  <2>1. PICK i \in DOMAIN child[m] : child[m][i] = z /\ z # Null
    BY DEF NodesIn, Range
  <2>2. i \in DOMAIN CopyOf(f, child[m]) /\ CopyOf(f, child[m])[i] = f[z] /\ f[z] \in Nodes
    BY <1>7, <2>1 DEF CopyOf
  <2>3. QED BY <1>1, <2>2 DEF NodesIn, Range
<1> HIDE DEF kinds, ch, par
<1>9. OwnersTold(kinds, ch, par, stray)
  <2> SUFFICES ASSUME NEW m \in Nodes, m \notin stray, kinds[m] # Free, par[m] # Null
               PROVE  \/ m \in NodesIn(ch[par[m]])
                      \/ \E o \in Nodes : kinds[o] = "Call" /\ m \in NodesIn(ch[o])
    BY DEF OwnersTold
  <2>1. CASE m \in Range(f)
    <3>1. PICK z \in Below(R) : m = f[z]
      BY <1>7, <2>1
    <3>2. z \notin R
      BY <1>6, <3>1
    <3>3. PICK o \in Below(R) : z \in NodesIn(child[o]) /\ par[m] = f[o]
      BY <1>6, <3>1, <3>2
    <3>4. QED BY <1>8, <3>1, <3>3
  <2>2. CASE m \notin Range(f)
    <3>1. kind[m] # Free /\ par[m] = parent[m] /\ parent[m] \in Nodes
      BY <1>1, <1>5, <1>6, <2>2
    <3>2. \A o \in Nodes : m \in NodesIn(child[o]) => kinds[o] = kind[o] /\ ch[o] = child[o]
      <4> SUFFICES ASSUME NEW o \in Nodes, m \in NodesIn(child[o]), o \in Range(f) PROVE FALSE
        BY <1>5
      <4>1. o \notin Live
        BY <1>5
      <4>2. QED BY <1>1, <4>1, NoChildren
    <3>3. \/ m \in NodesIn(child[parent[m]])
          \/ \E o \in Nodes : kind[o] = "Call" /\ m \in NodesIn(child[o])
      BY <1>1, <3>1 DEF OwnersTold
    <3>4. QED BY <3>1, <3>2, <3>3
  <2>3. QED BY <2>1, <2>2
<1>10. HeapOK(kinds, ch, par, hand \cup {f[n]}, stray)
  <2>1. Images(f, R) = {f[n]}
    BY DEF Images, R
  <2>2. stray \subseteq AliveIn(kinds)
    BY <1>1, <1>4
  <2>3. QED BY <1>4, <1>9, <2>1, <2>2 DEF HeapOK
<1>11. CASE Bodiless(Below({n}))
  BY <1>11, UndefinedInv DEF Clone
<1>12. CASE ~ Bodiless(Below({n}))
  <2>1. Becomes(kinds, ch, par, hand \cup {f[n]}, stray, {})
    BY <1>12 DEF Clone, kinds, ch, par
  <2>2. QED BY <1>10, <2>1, NoneDies
<1>13. QED BY <1>11, <1>12

(* The children that operator= copies.                                     *)
LEMMA SourceFacts ==
  ASSUME NodeInv, NEW a, NEW b \in Live
  PROVE  /\ SourceOf(a, b) \in Seq(Nodes \cup {Null}) /\ Distinct(SourceOf(a, b))
         /\ NodesIn(SourceOf(a, b)) \in SUBSET NodesIn(child[b])
         /\ Fits(kind[b], kind, SourceOf(a, b))
<1>1. /\ child[b] \in Seq(Nodes \cup {Null}) /\ Distinct(child[b])
      /\ Fits(kind[b], kind, child[b])
  BY HeapFacts DEF NoRepeats, Distinct
<1>2. QED BY <1>1, MembersFacts DEF SourceOf

LEMMA CopyAssignInv ==
  ASSUME NodeInv, NEW a \in Live, NEW b \in Live,
         NEW f \in Injection(Below(NodesIn(SourceOf(a, b))), FreeNodes), CopyAssign(a, b, f)
  PROVE  HeapOK(kind', child', parent', hand', stray')
<1> DEFINE kid == KidsIn(child)
           s == SourceOf(a, b)
           R == NodesIn(s)
           D == NodesIn(child[a])
           c == CopyOf(f, s)
           X == Images(f, R)
           based == IF Class[kind[a]].bases THEN {a} \ {b} ELSE {}
           copied == ParentsWith(f, a)
           kinds == KindsWith(f)
           mid == ChildrenWith(f)
           ch == [mid EXCEPT ![a] = c]
           par == [m \in Nodes |-> IF m \in based THEN parent[b] ELSE copied[m]]
           moved == stray \cup based
           dead == Below(D)
<1>1. /\ a \in Nodes /\ b \in Nodes /\ kid \in [Nodes -> SUBSET Nodes] /\ Forest(kid, Live, hand)
      /\ \A Q : Below(Q) = Under(kid, Q)
      /\ \A m \in Nodes : kid[m] = NodesIn(child[m])
      /\ \A m \in Nodes : NodesIn(child[m]) \in SUBSET Live
      /\ stray \in SUBSET Live /\ hand \in SUBSET Live /\ Live \in SUBSET Nodes
      /\ \A m \in Nodes \ Live : child[m] = << >> /\ parent[m] = Null
      /\ parent \in [Nodes -> Nodes \cup {Null}] /\ Null \notin Nodes
      /\ child \in [Nodes -> Seq(Nodes \cup {Null})]
      /\ OwnersTold(kind, child, parent, stray)
      /\ \A h \in hand : \A o \in Nodes : h \notin NodesIn(child[o])
      /\ \A m \in Live : kind[m] # Free
  BY HeapFacts DEF Live
<1>2. /\ s \in Seq(Nodes \cup {Null}) /\ Distinct(s) /\ R \in SUBSET kid[b]
      /\ Fits(kind[b], kind, s) /\ kind[a] = kind[b]
      /\ R \in SUBSET Live /\ R \in SUBSET Nodes
      /\ D = kid[a] /\ D \in SUBSET kid[a] /\ D \in SUBSET Live /\ D \in SUBSET Nodes
  <2>1. R \in SUBSET NodesIn(child[b])
    BY SourceFacts
  <2>2. QED BY <1>1, <2>1, SourceFacts DEF CopyAssign
<1>3. SUFFICES ASSUME Becomes(kinds, ch, par, hand, moved, dead)
               PROVE  HeapOK(kind', child', parent', hand', stray')
  BY UndefinedInv DEF CopyAssign
<1> HIDE DEF kid, s, R, D
<1>4. f \in Copies(kid, R, FreeNodes)
  BY <1>1 DEF Injection, IsInjective, Copies, R, s
<1>5. Topmost(kid, R)
  <2> SUFFICES ASSUME NEW m \in Under(kid, R), NEW r \in R, r \in kid[m] PROVE FALSE
    BY DEF Topmost
  <2>1. m \in Nodes
    BY <1>1, <1>2, UnderFacts
  <2>2. m = b
    BY <1>1, <1>2, <2>1 DEF Forest
  <2>3. QED BY <1>1, <1>2, <2>2, OwnerAbove
<1>6. /\ HeapTypes(kinds, mid, copied) /\ AllFit(kinds, mid, copied) /\ NoRepeats(mid)
      /\ AliveIn(kinds) = Live \cup Range(f)
      /\ Forest(KidsIn(mid), Live \cup Range(f), hand \cup X)
  BY <1>1, <1>2, <1>4, <1>5, CopySound DEF kid
<1>7. /\ \A m \in Below(R) : kinds[f[m]] = kind[m] /\ mid[f[m]] = CopyOf(f, child[m])
      /\ \A m \in Nodes \ Range(f) : kinds[m] = kind[m] /\ mid[m] = child[m]
      /\ Live \cap Range(f) = {}
  BY <1>2, <1>4, CopyPlaces DEF kid
<1>8. /\ \A m \in Nodes \ Range(f) : copied[m] = parent[m]
      /\ \A r \in R : copied[f[r]] = a
      /\ \A m \in Below(R) \ R : \E o \in Below(R) :
           m \in NodesIn(child[o]) /\ copied[f[m]] = f[o]
  BY <1>2, <1>4, <1>5, CopyParents DEF kid
<1>9. /\ Range(f) = {f[m] : m \in Below(R)} /\ f \in [Below(R) -> Nodes]
      /\ \A m \in Below(R) : f[m] \in Nodes \ Live
      /\ \A m, z \in Below(R) : f[m] = f[z] => m = z
      /\ \A m \in Below(R) : NodesIn(child[m]) \in SUBSET Below(R)
      /\ Below(R) \in SUBSET Live /\ R \subseteq Below(R)
  BY <1>2, <1>4, CopyParts DEF kid
<1>10. \A m \in Below(R) : \A z \in NodesIn(child[m]) : f[z] \in NodesIn(mid[f[m]])
  <2> SUFFICES ASSUME NEW m \in Below(R), NEW z \in NodesIn(child[m])
               PROVE  f[z] \in NodesIn(CopyOf(f, child[m]))
    BY <1>7
  <2>1. PICK i \in DOMAIN child[m] : child[m][i] = z /\ z # Null
    BY DEF NodesIn, Range
  <2>2. i \in DOMAIN CopyOf(f, child[m]) /\ CopyOf(f, child[m])[i] = f[z] /\ f[z] \in Nodes
    BY <1>9, <2>1 DEF CopyOf
  <2>3. QED BY <1>1, <2>2 DEF NodesIn, Range
<1>11. /\ c \in Seq(Nodes \cup {Null}) /\ Distinct(c) /\ NodesIn(c) = X
       /\ Len(c) = Len(s) /\ DOMAIN c = DOMAIN s
       /\ \A i \in DOMAIN s : c[i] # Null => s[i] # Null /\ s[i] \in R /\ c[i] = f[s[i]]
  <2> DEFINE B == Below(R)
  <2>1. B \in SUBSET Nodes /\ R \in SUBSET B /\ f \in [B -> Nodes] /\ \A m, z \in B : f[m] = f[z] => m = z
    BY <1>1, <1>9
  <2> HIDE DEF B
  <2>2. NodesIn(s) = R
    BY DEF R
  <2>3. s \in Seq(Nodes \cup {Null}) /\ Distinct(s) /\ NodesIn(s) \in SUBSET B
    BY <1>2, <2>1, <2>2
  <2> HIDE DEF c
  <2>4. IsCopy(CopyOf(f, s), f, s)
    BY <2>1, <2>3, CopyOfFacts
  <2>5. IsCopy(c, f, s)
    BY <2>4 DEF c
  <2>6. QED BY <2>2, <2>5 DEF IsCopy, Images
<1>12. /\ \A m \in Nodes : ch[m] = IF m = a THEN c ELSE mid[m]
       /\ \A m \in Nodes : par[m] = IF m \in based THEN parent[b] ELSE copied[m]
       /\ based \in SUBSET {a}
       /\ HeapTypes(kinds, ch, par)
  BY <1>1, <1>6, <1>11 DEF HeapTypes
<1> HIDE DEF c, X, based, copied, kinds, mid, ch, par, moved, dead
<1>13. /\ dead = Under(kid, D) /\ dead \in SUBSET Live /\ ClosedUnder(kid, dead) /\ D \subseteq dead
       /\ a \notin dead /\ X \in SUBSET Range(f) /\ Range(f) \in SUBSET Nodes
  <2>1. dead = Under(kid, D)
    BY <1>1 DEF dead
  <2>2. dead \in SUBSET Live /\ ClosedUnder(kid, dead) /\ D \subseteq dead /\ a \notin dead
    <3>1. Under(kid, D) \subseteq Live
      BY <1>1, <1>2, UnderAlive
    <3>2. ClosedUnder(kid, Under(kid, D)) /\ D \subseteq Under(kid, D)
      <4> DEFINE kids == kid  lost == D
      <4>1. kids \in [Nodes -> SUBSET Nodes] /\ lost \in SUBSET Nodes
        BY <1>1, <1>2
      <4> HIDE DEF kids, lost
      <4>2. ClosedUnder(kids, Under(kids, lost)) /\ lost \subseteq Under(kids, lost)
        BY <4>1, UnderFacts
      <4>3. QED BY <4>2 DEF kids, lost
    <3>3. a \notin Under(kid, D)
      BY <1>1, <1>2, OwnerAbove
    <3>4. QED BY <2>1, <3>1, <3>2, <3>3
  <2>3. QED BY <1>9, <2>1, <2>2 DEF X, Images
<1>14. Forest(KidsAfter(ch, dead), (Live \cup Range(f)) \ dead, hand)
  <2> DEFINE k == KidsIn(mid)
  <2>1. /\ k \in [Nodes -> SUBSET Nodes] /\ \A m \in Nodes : k[m] = NodesIn(mid[m])
        /\ Forest(k, Live \cup Range(f), hand \cup X)
    BY <1>6, KidsFacts DEF HeapTypes
  <2> HIDE DEF k
  <2>2. \A m \in Live : k[m] = kid[m]
    BY <1>1, <1>7, <2>1
  <2>3. Under(k, D) = dead
    <3>1. \A m \in Under(kid, D) : k[m] = kid[m]
      BY <1>13, <2>2
    <3>2. /\ kid \in [Nodes -> SUBSET Nodes] /\ k \in [Nodes -> SUBSET Nodes]
          /\ D \in SUBSET Nodes
      BY <1>1, <1>2, <2>1
    <3>3. Under(k, D) = Under(kid, D)
      BY <3>1, <3>2, UnderAgrees
    <3>4. QED BY <1>13, <3>3
  <2>4. a \notin Under(k, X)
    <3>1. ClosedUnder(k, Range(f))
      <4> SUFFICES ASSUME NEW m \in Range(f), NEW y \in k[m] PROVE y \in Range(f)
        BY DEF ClosedUnder
      <4>1. PICK z \in Below(R) : m = f[z]
        BY <1>9
      <4>2. y \in NodesIn(CopyOf(f, child[z]))
        BY <1>7, <1>13, <2>1, <4>1
      <4>3. PICK i \in DOMAIN child[z] : y = CopyOf(f, child[z])[i] /\ y # Null
        BY <4>2 DEF NodesIn, Range, CopyOf
      <4>4. child[z][i] # Null /\ y = f[child[z][i]]
        BY <4>3 DEF CopyOf
      <4>5. child[z][i] \in Below(R)
        BY <1>9, <4>4 DEF NodesIn, Range
      <4>6. QED BY <1>9, <4>4, <4>5
    <3>2. X \in SUBSET Nodes
      BY <1>13
    <3>3. Under(k, X) \subseteq Range(f)
      BY <1>13, <2>1, <3>1, <3>2, UnderFacts
    <3>4. QED BY <1>7, <3>3
  <2>5. /\ a \in Live \cup Range(f) /\ D \in SUBSET k[a] /\ X \in SUBSET (hand \cup X)
    BY <1>2, <2>2
  <2>6. Forest(Replaced(k, a, D, X), (Live \cup Range(f)) \ Under(k, D), (hand \cup X) \ X)
    BY <2>1, <2>4, <2>5, ForestReplace
  <2>7. (hand \cup X) \ X = hand
    BY <1>1, <1>7, <1>13
  <2>8. Replaced(k, a, D, X) = KidsAfter(ch, dead)
    <3>1. \A m \in Nodes : KidsAfter(ch, dead)[m] = IF m \in dead THEN {} ELSE NodesIn(ch[m])
      BY DEF KidsAfter
    <3>2. \A m \in Nodes : Replaced(k, a, D, X)[m] =
             IF m = a THEN (k[a] \ D) \cup X ELSE IF m \in dead THEN {} ELSE k[m]
      BY <1>1, <2>1, <2>3 DEF Replaced, Killed
    <3>3. k[a] \ D = {}
      BY <1>2, <2>2
    <3>4. \A m \in Nodes : Replaced(k, a, D, X)[m] = KidsAfter(ch, dead)[m]
      <4> SUFFICES ASSUME NEW m \in Nodes
                   PROVE  Replaced(k, a, D, X)[m] = KidsAfter(ch, dead)[m]
        OBVIOUS
      <4>1. CASE m = a
        <5>1. Replaced(k, a, D, X)[m] = X
          BY <3>2, <3>3, <4>1
        <5>2. KidsAfter(ch, dead)[m] = X
          BY <1>11, <1>12, <1>13, <3>1, <4>1
        <5>3. QED BY <5>1, <5>2
      <4>2. CASE m # a
        <5>1. Replaced(k, a, D, X)[m] = IF m \in dead THEN {} ELSE k[m]
          BY <3>2, <4>2
        <5>2. KidsAfter(ch, dead)[m] = IF m \in dead THEN {} ELSE k[m]
          BY <1>12, <2>1, <3>1, <4>2
        <5>3. QED BY <5>1, <5>2
      <4>3. QED BY <4>1, <4>2
    <3>5. /\ Replaced(k, a, D, X) = [m \in Nodes |-> Replaced(k, a, D, X)[m]]
          /\ KidsAfter(ch, dead) = [m \in Nodes |-> KidsAfter(ch, dead)[m]]
      BY <2>1 DEF Replaced, Killed, KidsAfter
    <3>6. QED BY <3>4, <3>5
  <2>9. QED BY <2>3, <2>6, <2>7, <2>8
<1>15. \A m \in Nodes \ dead : IF kinds[m] # Free THEN Fits(kinds[m], kinds, ch[m])
                               ELSE ch[m] = << >> /\ par[m] = Null
  <2>1. Fits(kinds[a], kinds, c)
    <3>1. \A i \in DOMAIN c : c[i] # Null => s[i] # Null /\ kinds[c[i]] = kind[s[i]]
      BY <1>7, <1>9, <1>11
    <3>2. Fits(kind[b], kinds, c)
      BY <1>2, <1>11, <3>1, FitsSame
    <3>3. kinds[a] = kind[b]
      BY <1>1, <1>2, <1>7
    <3>4. QED BY <3>2, <3>3
  <2>2. kinds[a] # Free
    BY <1>1, <1>7
  <2>3. QED BY <1>6, <1>12, <2>1, <2>2 DEF AllFit
<1>16. \A m \in Nodes \ dead : NodesIn(ch[m]) \cap dead = {}
  <2>1. ch \in [Nodes -> Seq(Nodes \cup {Null})]
    BY <1>12 DEF HeapTypes
  <2>2. \A m \in Nodes : KidsAfter(ch, dead)[m] \subseteq (Live \cup Range(f)) \ dead
    BY <1>14, <2>1, KidsAfterFacts DEF Forest
  <2>3. QED BY <2>1, <2>2, KidsAfterFacts
<1>17. \A m \in dead : NodesIn(ch[m]) \subseteq dead
  BY <1>1, <1>7, <1>12, <1>13 DEF ClosedUnder
<1>18. \A m \in Nodes \ dead : \A i, j \in DOMAIN ch[m] :
         ch[m][i] = ch[m][j] /\ ch[m][i] # Null => i = j
  <2>1. \A m \in Nodes : Distinct(mid[m])
    BY <1>6 DEF NoRepeats, Distinct
  <2>2. \A m \in Nodes : Distinct(ch[m])
    BY <1>11, <1>12, <2>1
  <2>3. QED BY <2>2 DEF Distinct
<1>19. OwnersTold(kinds, ch, par, moved \cup dead)
  <2> SUFFICES ASSUME NEW m \in Nodes, m \notin moved, m \notin dead, kinds[m] # Free, par[m] # Null
               PROVE  \/ m \in NodesIn(ch[par[m]])
                      \/ \E o \in Nodes : kinds[o] = "Call" /\ m \in NodesIn(ch[o])
    BY DEF OwnersTold
  <2>1. m \notin stray /\ par[m] = copied[m]
    BY <1>12 DEF moved
  <2>2. CASE m \in Range(f)
    <3>1. PICK z \in Below(R) : m = f[z]
      BY <1>9, <2>2
    <3>2. CASE z \in R
      <4>1. par[m] = a /\ m \in X
        BY <1>8, <2>1, <3>1, <3>2 DEF X, Images
      <4>2. QED BY <1>1, <1>11, <1>12, <4>1
    <3>3. CASE z \notin R
      <4>1. PICK o \in Below(R) : z \in NodesIn(child[o]) /\ copied[m] = f[o]
        BY <1>8, <3>1, <3>3
      <4>2. f[o] \in Nodes /\ f[o] # a
        BY <1>9
      <4>3. QED BY <1>10, <1>12, <2>1, <3>1, <4>1, <4>2
    <3>4. QED BY <3>2, <3>3
  <2>3. CASE m \notin Range(f)
    <3>1. kind[m] # Free /\ par[m] = parent[m] /\ parent[m] \in Nodes
      BY <1>1, <1>7, <1>8, <2>1, <2>3
    <3>2. \A o \in Nodes : m \in NodesIn(child[o]) => kinds[o] = kind[o] /\ m \in NodesIn(ch[o])
      <4> SUFFICES ASSUME NEW o \in Nodes, m \in NodesIn(child[o])
                   PROVE  kinds[o] = kind[o] /\ m \in NodesIn(ch[o])
        OBVIOUS
      <4>1. o \in Live
        BY <1>1, NoChildren
      <4>2. o # a
        BY <1>13 DEF D
      <4>3. QED BY <1>7, <1>12, <4>1, <4>2
    <3>3. \/ m \in NodesIn(child[parent[m]])
          \/ \E o \in Nodes : kind[o] = "Call" /\ m \in NodesIn(child[o])
      BY <1>1, <2>1, <3>1 DEF OwnersTold
    <3>4. QED BY <3>1, <3>2, <3>3
  <2>4. QED BY <2>2, <2>3
<1>20. moved \ dead \subseteq AliveIn(kinds)
  BY <1>1, <1>6, <1>12 DEF moved
<1>21. Forest(KidsAfter(ch, dead), AliveIn(kinds) \ dead, hand \ dead)
  <2>1. hand \ dead = hand
    <3>1. \A h \in hand : h \notin D
      BY <1>1 DEF D
    <3>2. \A h \in hand : h \notin dead
      BY <1>1, <1>2, <1>13, <3>1, RootsApart
    <3>3. QED BY <3>2
  <2>2. QED BY <1>6, <1>14, <2>1
<1>22. SoundAfter(kinds, ch, par, hand, moved, dead)
  BY <1>12, <1>15, <1>16, <1>17, <1>18, <1>19, <1>20, <1>21 DEF SoundAfter
<1>23. dead \in SUBSET Nodes
  BY <1>1, <1>13
<1>24. QED BY <1>3, <1>22, <1>23, AfterCall

-----------------------------------------------------------------------------
(* The client starts with trees.                                           *)
LEMMA InitInv ==
  ASSUME NodeInit PROVE NodeInv
<1>1. PICK h \in Heaps : kind = h.kind /\ child = h.child /\ calls = h.calls
  BY DEF NodeInit
<1>2. /\ kind \in [Nodes -> Kinds \cup {Free}]
      /\ child \in [Nodes -> Seq(Nodes \cup {Null})]
      /\ IsTree(kind, child) /\ calls \in 0 .. MaxCalls
      /\ Null \notin Nodes /\ Free \notin Kinds
  BY <1>1, HeapAssumption
<1>3. /\ \A m \in Nodes : IF kind[m] = Free THEN child[m] = << >>
                          ELSE Fits(kind[m], kind, child[m])
      /\ \A o, q \in Nodes : \A i \in DOMAIN child[o], j \in DOMAIN child[q] :
           child[o][i] = child[q][j] /\ child[o][i] # Null => o = q /\ i = j
  BY <1>2 DEF IsTree
<1>5. \A o \in Nodes : \A m \in NodesIn(child[o]) : m \in Live /\ o \in Live
  <2> SUFFICES ASSUME NEW o \in Nodes, NEW m \in NodesIn(child[o]) PROVE m \in Live /\ o \in Live
    OBVIOUS
  <2>1. PICK i \in DOMAIN child[o] : child[o][i] = m /\ m # Null /\ m \in Nodes
    BY <1>2, NodesInFacts DEF NodesIn
  <2>2. kind[o] # Free
    BY <1>3, <2>1, NoChildren
  <2>3. kind[m] \in Kinds
    BY <1>2, <1>3, <2>1, <2>2, FitsFacts
  <2>4. QED BY <1>2, <2>1, <2>2, <2>3 DEF Live
<1>6. /\ parent \in [Nodes -> Nodes \cup {Null}]
      /\ \A m \in Nodes : parent[m] # Null => m \in NodesIn(child[parent[m]])
  <2>1. parent = [m \in Nodes |->
          IF \E o \in Nodes : m \in AdoptedIn(kind, child, o)
          THEN CHOOSE o \in Nodes : m \in AdoptedIn(kind, child, o) ELSE Null]
    BY DEF NodeInit
  <2>2. \A m \in Nodes : /\ parent[m] \in Nodes \cup {Null}
                         /\ parent[m] # Null => m \in AdoptedIn(kind, child, parent[m])
    BY <2>1
  <2>3. \A m \in Nodes : parent[m] # Null => m \in NodesIn(child[parent[m]])
    BY <2>2 DEF AdoptedIn
  <2>4. QED BY <2>1, <2>2, <2>3
<1>7. HeapTypes(kind, child, parent) /\ Live = AliveIn(kind)
  BY <1>2, <1>6 DEF HeapTypes, Live, AliveIn
<1>8. AllFit(kind, child, parent)
  <2> SUFFICES ASSUME NEW m \in Nodes, kind[m] = Free PROVE parent[m] = Null
    BY <1>3 DEF AllFit
  <2>1. m \notin Live
    BY DEF Live
  <2>2. parent[m] # Null => parent[m] \in Nodes
    BY <1>6
  <2>3. QED BY <1>5, <1>6, <2>1, <2>2
<1>9. NoRepeats(child)
  BY <1>3 DEF NoRepeats
<1>10. OwnersTold(kind, child, parent, stray)
  BY <1>6 DEF OwnersTold
<1>11. Forest(KidsIn(child), Live, hand)
  <2> DEFINE kid == KidsIn(child)
  <2>1. /\ kid \in [Nodes -> SUBSET Nodes] /\ \A m \in Nodes : kid[m] = NodesIn(child[m])
        /\ BelowIn(child, hand) = Under(kid, hand)
    BY <1>2, KidsFacts
  <2> HIDE DEF kid
  <2>2. Live \subseteq Nodes /\ \A o \in Nodes : kid[o] \subseteq Live /\ (o \notin Live => kid[o] = {})
    BY <1>5, <2>1 DEF Live
  <2>3. \A o, q \in Nodes : \A m \in kid[o] : m \in kid[q] => o = q
    <3> SUFFICES ASSUME NEW o \in Nodes, NEW q \in Nodes, NEW m \in kid[o], m \in kid[q]
                 PROVE  o = q
      OBVIOUS
    <3>1. PICK i \in DOMAIN child[o] : child[o][i] = m /\ m # Null
      BY <2>1 DEF NodesIn, Range
    <3>2. PICK j \in DOMAIN child[q] : child[q][j] = m
      BY <2>1 DEF NodesIn, Range
    <3>3. QED BY <1>3, <3>1, <3>2
  <2>4. hand = {m \in Live : \A o \in Nodes : m \notin kid[o]}
    BY <1>5, <2>1 DEF NodeInit, Owners, Live
  <2>5. hand = {r \in Nodes : kind[r] # Free /\ \A o \in Nodes : r \notin NodesIn(child[o])}
    BY <2>1, <2>4 DEF Live
  <2>6. Live \subseteq Under(kid, hand)
    BY <1>2, <2>1, <2>5 DEF IsTree, Live
  <2>7. QED BY <2>1, <2>2, <2>3, <2>4, <2>6 DEF Forest, kid
<1>12. stray = {} /\ undefined = FALSE
  BY DEF NodeInit
<1>13. QED
  BY <1>2, <1>7, <1>8, <1>9, <1>10, <1>11, <1>12 DEF NodeInv, HeapOK

(* Every call keeps the heap sound.                                        *)
LEMMA NodeStep ==
  ASSUME NodeInv, NodeNext PROVE NodeInv'
<1>1. calls' \in 0 .. MaxCalls
  <2>1. calls < MaxCalls /\ calls' = calls + 1
    BY DEF NodeNext, Build, Edit, Copy, Move, Delete, Called
  <2>2. calls \in 0 .. MaxCalls /\ MaxCalls \in Nat
    BY HeapAssumption DEF NodeInv
  <2>3. QED BY <2>1, <2>2
<1>2. undefined \in BOOLEAN
  BY DEF NodeInv
<1>3. HeapOK(kind', child', parent', hand', stray') /\ undefined' \in BOOLEAN
  <2>1. CASE Build
    <3>1. PICK k \in Built, a \in FreeNodes, c \in Given(hand) : Construct(k, a, c)
      BY <2>1 DEF Build
    <3>2. k \in Kinds
      BY HeapAssumption
    <3>3. undefined' \in BOOLEAN
      BY <1>2, <3>1 DEF Construct, Becomes, Undefined
    <3>4. QED BY <3>1, <3>2, <3>3, ConstructInv
  <2>2. CASE Edit
    <3>1. PICK n \in Live :
            \/ \E i \in 1 .. 4, x \in Offered(n) : SetMember(n, i, x)
            \/ \E i \in DOMAIN child[n] : TakeMember(n, i) \/ Nullify(n, i)
            \/ \E x \in Offered(n) : AppendChild(n, x) \/ PrependChild(n, x)
            \/ Compact(n)
            \/ TakeVector(n)
            \/ \E c \in Given(Offered(n) \ {Null}) : SetVector(n, c)
      BY <2>2 DEF Edit
    <3>2. CASE \E i \in 1 .. 4, x \in Offered(n) : SetMember(n, i, x)
      <4>1. PICK i \in 1 .. 4, x \in Offered(n) : SetMember(n, i, x)
        BY <3>2
      <4>2. undefined' \in BOOLEAN
        BY <1>2, <4>1 DEF SetMember, Becomes
      <4>3. QED BY <4>1, <4>2, SetMemberInv
    <3>3. CASE \E i \in DOMAIN child[n] : TakeMember(n, i)
      <4>1. PICK i \in DOMAIN child[n] : TakeMember(n, i)
        BY <3>3
      <4>2. undefined' \in BOOLEAN
        BY <1>2, <4>1 DEF TakeMember, Becomes
      <4>3. QED BY <4>1, <4>2, TakeMemberInv
    <3>4. CASE \E i \in DOMAIN child[n] : Nullify(n, i)
      <4>1. PICK i \in DOMAIN child[n] : Nullify(n, i)
        BY <3>4
      <4>2. undefined' \in BOOLEAN
        BY <1>2, <4>1 DEF Nullify, Becomes
      <4>3. QED BY <4>1, <4>2, NullifyInv
    <3>5. CASE \E x \in Offered(n) : AppendChild(n, x) \/ PrependChild(n, x)
      <4>1. PICK x \in Offered(n) : AppendChild(n, x) \/ PrependChild(n, x)
        BY <3>5
      <4>2. PICK c, edit : /\ c = Append(child[n], x) \/ c = <<x>> \o child[n]
                           /\ Insert(n, x, c, edit)
        BY <4>1 DEF AppendChild, PrependChild
      <4>3. undefined' \in BOOLEAN
        BY <1>2, <4>2 DEF Insert, Becomes
      <4>4. QED BY <4>2, <4>3, InsertInv
    <3>6. CASE Compact(n)
      <4>1. undefined' \in BOOLEAN
        BY <1>2, <3>6 DEF Compact, Becomes
      <4>2. QED BY <3>6, <4>1, CompactInv
    <3>7. CASE TakeVector(n)
      <4>1. undefined' \in BOOLEAN
        BY <1>2, <3>7 DEF TakeVector, Becomes
      <4>2. QED BY <3>7, <4>1, TakeVectorInv
    <3>8. CASE \E c \in Given(Offered(n) \ {Null}) : SetVector(n, c)
      <4>1. PICK c \in Given(Offered(n) \ {Null}) : SetVector(n, c)
        BY <3>8
      <4>2. undefined' \in BOOLEAN
        BY <1>2, <4>1 DEF SetVector, Becomes
      <4>3. QED BY <4>1, <4>2, SetVectorInv
    <3>9. QED BY <3>1, <3>2, <3>3, <3>4, <3>5, <3>6, <3>7, <3>8
  <2>3. CASE Copy
    <3>1. PICK n \in Live :
            \/ \E f \in Injection(Below({n}), FreeNodes) : Clone(n, f)
            \/ \E b \in Live : \E f \in Injection(Below(NodesIn(SourceOf(n, b))), FreeNodes) :
                 CopyAssign(n, b, f)
      BY <2>3 DEF Copy
    <3>2. CASE \E f \in Injection(Below({n}), FreeNodes) : Clone(n, f)
      <4>1. PICK f \in Injection(Below({n}), FreeNodes) : Clone(n, f)
        BY <3>2
      <4>2. undefined' \in BOOLEAN
        BY <1>2, <4>1 DEF Clone, Becomes, Undefined
      <4>3. QED BY <4>1, <4>2, CloneInv
    <3>3. CASE \E b \in Live : \E f \in Injection(Below(NodesIn(SourceOf(n, b))), FreeNodes) :
                 CopyAssign(n, b, f)
      <4>1. PICK b \in Live :
              \E f \in Injection(Below(NodesIn(SourceOf(n, b))), FreeNodes) : CopyAssign(n, b, f)
        BY <3>3
      <4>2. PICK f \in Injection(Below(NodesIn(SourceOf(n, b))), FreeNodes) : CopyAssign(n, b, f)
        BY <4>1
      <4>3. undefined' \in BOOLEAN
        BY <1>2, <4>2 DEF CopyAssign, Becomes, Undefined
      <4>4. QED BY <4>2, <4>3, CopyAssignInv
    <3>4. QED BY <3>1, <3>2, <3>3
  <2>4. CASE Move
    <3>1. PICK n \in Live :
            (\E a \in FreeNodes : MoveConstruct(n, a)) \/ (\E b \in Live : MoveAssign(n, b))
      BY <2>4 DEF Move
    <3>2. CASE \E a \in FreeNodes : MoveConstruct(n, a)
      <4>1. PICK a \in FreeNodes : MoveConstruct(n, a)
        BY <3>2
      <4>2. undefined' \in BOOLEAN
        BY <1>2, <4>1 DEF MoveConstruct, Becomes
      <4>3. QED BY <4>1, <4>2, MoveConstructInv
    <3>3. CASE \E b \in Live : MoveAssign(n, b)
      <4>1. PICK b \in Live : MoveAssign(n, b)
        BY <3>3
      <4>2. undefined' \in BOOLEAN
        BY <1>2, <4>1 DEF MoveAssign, Becomes
      <4>3. QED BY <4>1, <4>2, MoveAssignInv
    <3>4. QED BY <3>1, <3>2, <3>3
  <2>5. CASE Delete
    <3>1. PICK x \in hand : Destroy(x)
      BY <2>5 DEF Delete
    <3>2. undefined' \in BOOLEAN
      BY <1>2, <3>1 DEF Destroy, Becomes
    <3>3. QED BY <3>1, <3>2, DestroyInv
  <2>6. QED BY <2>1, <2>2, <2>3, <2>4, <2>5 DEF NodeNext
<1>4. QED BY <1>1, <1>3 DEF NodeInv

-----------------------------------------------------------------------------
(* What the invariant says in the terms of the properties.                 *)
LEMMA InvNodesOK == NodeInv => NodesOK
<1> SUFFICES ASSUME NodeInv PROVE NodesOK
  OBVIOUS
<1>1. undefined \in BOOLEAN /\ calls \in 0 .. MaxCalls
  BY DEF NodeInv
<1>2. QED BY <1>1, HeapFacts DEF NodesOK

LEMMA InvSoleOwner == NodeInv => SoleOwner
<1> SUFFICES ASSUME NodeInv PROVE SoleOwner
  OBVIOUS
<1>1. /\ Live \in SUBSET Nodes /\ Null \notin Nodes
      /\ KidsIn(child) \in [Nodes -> SUBSET Nodes]
      /\ \A m \in Nodes : KidsIn(child)[m] = NodesIn(child[m])
      /\ Below(hand) = Under(KidsIn(child), hand)
      /\ Forest(KidsIn(child), Live, hand) /\ NoRepeats(child)
  BY HeapFacts
<1>2. Live \subseteq Below(hand)
  BY <1>1 DEF Forest
<1>3. \A m : \A p \in Places(m) : \E o \in Nodes : \E i \in DOMAIN child[o] :
        p = <<o, i>> /\ child[o][i] = m
  BY DEF Places
<1>4. \A m \in Live : \A o \in Nodes : \A i \in DOMAIN child[o] :
        child[o][i] = m => m \in KidsIn(child)[o]
  BY <1>1 DEF NodesIn, Range
<1>5. ASSUME NEW m \in Live
      PROVE  IF m \in hand THEN Places(m) = {} ELSE \E p \in Places(m) : Places(m) = {p}
  <2>1. CASE m \in hand
    <3>1. \A o \in Nodes : m \notin KidsIn(child)[o]
      BY <1>1, <2>1 DEF Forest
    <3>2. Places(m) = {}
      BY <1>3, <1>4, <3>1
    <3>3. QED BY <2>1, <3>2
  <2>2. CASE m \notin hand
    <3>1. PICK o \in Nodes : m \in KidsIn(child)[o]
      BY <1>1, <2>2 DEF Forest
    <3>2. PICK i \in DOMAIN child[o] : child[o][i] = m /\ m # Null
      BY <1>1, <3>1 DEF NodesIn, Range
    <3>3. <<o, i>> \in Places(m)
      BY <3>2 DEF Places
    <3>4. \A p \in Places(m) : p = <<o, i>>
      <4> SUFFICES ASSUME NEW p \in Places(m) PROVE p = <<o, i>>
        OBVIOUS
      <4>1. PICK q \in Nodes : \E j \in DOMAIN child[q] : p = <<q, j>> /\ child[q][j] = m
        BY <1>3
      <4>2. PICK j \in DOMAIN child[q] : p = <<q, j>> /\ child[q][j] = m
        BY <4>1
      <4>3. q = o
        BY <1>1, <1>4, <3>1, <4>2 DEF Forest
      <4>4. j = i
        BY <1>1, <3>2, <4>2, <4>3 DEF NoRepeats
      <4>5. QED BY <4>2, <4>3, <4>4
    <3>5. Places(m) = {<<o, i>>}
      BY <3>3, <3>4
    <3>6. QED BY <2>2, <3>3, <3>5
  <2>3. QED BY <2>1, <2>2
<1>6. QED BY <1>2, <1>5 DEF SoleOwner

LEMMA InvParentIsOwner == NodeInv => ParentIsOwner
<1> SUFFICES ASSUME NodeInv, NEW m \in Live, m \notin stray, parent[m] # Null
             PROVE  \/ m \in NodesIn(child[parent[m]])
                    \/ \E o \in Owners(m) : kind[o] = "Call"
  BY DEF ParentIsOwner
<1>1. OwnersTold(kind, child, parent, stray) /\ m \in Nodes /\ kind[m] # Free
  BY HeapFacts DEF Live
<1>2. "Call" # Free
  BY HeapAssumption DEF Kinds, Expressions
<1>3. QED BY <1>1, <1>2 DEF OwnersTold, Owners, Live

(* Whatever calls a client makes on nodes, without any visit: the heap     *)
(* stays well-typed, and every live node has one owner (the rule of the    *)
(* std::unique_ptr members of the AST classes).                            *)
THEOREM NodesSound == NodeSpec => [](NodesOK /\ SoleOwner)
<1>1. NodeInit => NodeInv
  BY InitInv
<1>2. NodeInv /\ [NodeNext]_nodeVars => NodeInv'
  <2> SUFFICES ASSUME NodeInv, [NodeNext]_nodeVars PROVE NodeInv'
    OBVIOUS
  <2>1. CASE NodeNext
    BY <2>1, NodeStep
  <2>2. CASE UNCHANGED nodeVars
    BY <2>2 DEF NodeInv, nodeVars, heap
  <2>3. QED BY <2>1, <2>2
<1>3. NodeInv => NodesOK /\ SoleOwner
  BY InvNodesOK, InvSoleOwner
<1>4. QED BY <1>1, <1>2, <1>3, PTL DEF NodeSpec

-----------------------------------------------------------------------------
(* Iterators over members. *)

(* Which kinds of node have no vector, and how many members.               *)
LEMMA MemberKinds ==
  \A k \in Kinds : Class[k].vector = {} =>
    \/ k = "For" /\ Len(Class[k].members) = 4
    \/ k \in {"If", "TernaryOperator"} /\ Len(Class[k].members) = 3
    \/ /\ k \in {"Assignment", "VariableDeclaration", "BinaryExpression", "IndexAccess"}
       /\ Len(Class[k].members) = 2
    \/ k \in {"Return", "UnaryExpression"} /\ Len(Class[k].members) = 1
    \/ k \in {"Variable", "FunctionParameter", "Literal"} /\ Len(Class[k].members) = 0
<1>1. Statements # {} /\ Expressions # {}
  BY DEF Statements, Expressions, Targets
<1>2. /\ Class["Block"].vector # {} /\ Class["Function"].vector # {}
      /\ Class["OperatorExpression"].vector # {} /\ Class["Call"].vector # {}
      /\ Class["ExpressionList"].vector # {}
  BY <1>1 DEF Class, VectorOf, Block, Function, OperatorExpression, Call, ExpressionList
<1>3. Class["For"].members = <<{"Block"}, Expressions, {"Block"}, {"Block"}>>
  BY DEF Class, Of, For
<1>4. /\ Class["If"].members = <<Expressions, {"Block"}, {"Block"}>>
      /\ Class["TernaryOperator"].members = <<Expressions, Expressions, Expressions>>
  BY DEF Class, Of, If, TernaryOperator
<1>5. /\ Class["Assignment"].members = <<Targets, Expressions>>
      /\ Class["VariableDeclaration"].members = <<{"Variable"}, Expressions>>
      /\ Class["BinaryExpression"].members = <<Expressions, Expressions>>
      /\ Class["IndexAccess"].members = <<Targets, Expressions>>
  BY DEF Class, Of, Assignment, VariableDeclaration, BinaryExpression, IndexAccess
<1>6. /\ Class["Return"].members = <<Expressions>>
      /\ Class["UnaryExpression"].members = <<Expressions>>
  BY DEF Class, Of, Return, UnaryExpression
<1>7. /\ Class["Variable"].members = << >> /\ Class["FunctionParameter"].members = << >>
      /\ Class["Literal"].members = << >>
  BY DEF Class, Of, Variable, FunctionParameter, Literal
<1>8. /\ \A a, b, c, d : Len(<<a, b, c, d>>) = 4
      /\ \A a, b, c : Len(<<a, b, c>>) = 3
      /\ \A a, b : Len(<<a, b>>) = 2
      /\ \A a : Len(<<a>>) = 1
      /\ Len(<< >>) = 0
  OBVIOUS
<1>9. /\ Len(Class["For"].members) = 4
      /\ Len(Class["If"].members) = 3 /\ Len(Class["TernaryOperator"].members) = 3
      /\ Len(Class["Assignment"].members) = 2 /\ Len(Class["VariableDeclaration"].members) = 2
      /\ Len(Class["BinaryExpression"].members) = 2 /\ Len(Class["IndexAccess"].members) = 2
      /\ Len(Class["Return"].members) = 1 /\ Len(Class["UnaryExpression"].members) = 1
      /\ Len(Class["Variable"].members) = 0 /\ Len(Class["FunctionParameter"].members) = 0
      /\ Len(Class["Literal"].members) = 0
  BY <1>3, <1>4, <1>5, <1>6, <1>7, <1>8
<1>10. SUFFICES ASSUME NEW k \in Kinds, Class[k].vector = {}
                PROVE  \/ k = "For" /\ Len(Class[k].members) = 4
                       \/ k \in {"If", "TernaryOperator"} /\ Len(Class[k].members) = 3
                       \/ /\ k \in {"Assignment", "VariableDeclaration", "BinaryExpression", "IndexAccess"}
                          /\ Len(Class[k].members) = 2
                       \/ k \in {"Return", "UnaryExpression"} /\ Len(Class[k].members) = 1
                       \/ /\ k \in {"Variable", "FunctionParameter", "Literal"}
                          /\ Len(Class[k].members) = 0
  OBVIOUS
<1>11. k \in {"For", "If", "TernaryOperator", "Assignment", "VariableDeclaration",
              "BinaryExpression", "IndexAccess", "Return", "UnaryExpression", "Variable",
              "FunctionParameter", "Literal"}
  BY <1>2, <1>10 DEF Kinds, Statements, Expressions, Targets
<1>12. QED BY <1>9, <1>11

(* The first member that is not null, or the end.                          *)
NoneAmong(c, is) == \A k \in DOMAIN is : c[is[k]] = Null

FirstAt(c, is, k) ==
  k \in DOMAIN is /\ c[is[k]] # Null /\ \A l \in 1 .. k - 1 : c[is[l]] = Null

\* One sequence of indices is another without its first.
IsRest(rest, is, n) ==
  DOMAIN is = 1 .. n + 1 /\ DOMAIN rest = 1 .. n /\ \A k \in 1 .. n : rest[k] = is[k + 1]

LEMMA FirstOfAt ==
  ASSUME NEW c, NEW is, NEW n \in Nat, DOMAIN is = 1 .. n, NEW k, FirstAt(c, is, k)
  PROVE  FirstOf(c, is) = c[is[k]]
<1> DEFINE present == {l \in DOMAIN is : c[is[l]] # Null}
           least == CHOOSE l \in present : \A m \in present : l <= m
<1>1. FirstOf(c, is) = IF present = {} THEN PastEnd ELSE c[is[least]]
  BY DEF FirstOf
<1>2. k \in present /\ \A l \in present : k <= l
  BY DEF FirstAt
<1>3. least \in present /\ \A l \in present : least <= l
  BY <1>2
<1>4. least \in 1 .. n /\ k \in 1 .. n /\ least <= k /\ k <= least
  BY <1>2, <1>3
<1>5. least = k
  BY <1>4
<1>6. QED BY <1>1, <1>2, <1>5

LEMMA FirstOfNobody ==
  ASSUME NEW c, NEW is, NoneAmong(c, is) PROVE FirstOf(c, is) = PastEnd
BY DEF FirstOf, NoneAmong

LEMMA FirstOfNone ==
  ASSUME NEW c PROVE FirstOf(c, << >>) = PastEnd
<1>1. DOMAIN << >> = 1 .. 0
  OBVIOUS
<1>2. NoneAmong(c, << >>)
  BY <1>1 DEF NoneAmong
<1>3. QED BY <1>2, FirstOfNobody

(* Otherwise it is the first index, or the first of the rest.              *)
LEMMA FirstOfNext ==
  ASSUME NEW c, NEW n \in Nat, NEW is, NEW rest, IsRest(rest, is, n)
  PROVE  FirstOf(c, is) = IF c[is[1]] # Null THEN c[is[1]] ELSE FirstOf(c, rest)
<1> DEFINE K == {k \in 1 .. n : c[rest[k]] # Null}
<1>1. \A k \in 1 .. n + 1 : k = 1 \/ (k - 1 \in 1 .. n /\ is[k] = rest[k - 1])
  <2> SUFFICES ASSUME NEW k \in 1 .. n + 1, k # 1 PROVE k - 1 \in 1 .. n /\ is[k] = rest[k - 1]
    OBVIOUS
  <2>1. k - 1 \in 1 .. n /\ (k - 1) + 1 = k
    OBVIOUS
  <2>2. QED BY <2>1 DEF IsRest
<1>2. n + 1 \in Nat /\ DOMAIN is = 1 .. n + 1 /\ DOMAIN rest = 1 .. n
  BY DEF IsRest
<1>3. CASE c[is[1]] # Null
  <2>1. FirstAt(c, is, 1)
    BY <1>2, <1>3 DEF FirstAt
  <2>2. FirstOf(c, is) = c[is[1]]
    BY <1>2, <2>1, FirstOfAt
  <2>3. QED BY <1>3, <2>2
<1>4. CASE c[is[1]] = Null /\ K = {}
  <2>1. NoneAmong(c, rest)
    BY <1>2, <1>4 DEF NoneAmong
  <2>2. NoneAmong(c, is)
    BY <1>1, <1>2, <1>4, <2>1 DEF NoneAmong
  <2>3. FirstOf(c, rest) = PastEnd
    BY <2>1, FirstOfNobody
  <2>4. FirstOf(c, is) = PastEnd
    BY <2>2, FirstOfNobody
  <2>5. QED BY <1>4, <2>3, <2>4
<1>5. CASE c[is[1]] = Null /\ K # {}
  <2>1. K \in SUBSET (1 .. n)
    OBVIOUS
  <2>2. PICK k \in K : \A l \in K : k <= l
    BY <1>5, <2>1, LeastIndex
  <2>3. k \in 1 .. n /\ c[rest[k]] # Null /\ \A l \in 1 .. k - 1 : c[rest[l]] = Null
    <3>1. \A l \in 1 .. k - 1 : l \in 1 .. n /\ ~ k <= l
      BY <2>1
    <3>2. QED BY <2>2, <3>1
  <2>4. FirstOf(c, rest) = c[rest[k]]
    <3>1. FirstAt(c, rest, k)
      BY <1>2, <2>3 DEF FirstAt
    <3>2. QED BY <1>2, <3>1, FirstOfAt
  <2>5. k + 1 \in 1 .. n + 1 /\ is[k + 1] = rest[k] /\ (k + 1) - 1 = k
    <3>1. k + 1 \in 1 .. n + 1 /\ (k + 1) - 1 = k
      BY <2>3
    <3>2. \A l \in 1 .. n : rest[l] = is[l + 1]
      BY DEF IsRest
    <3>3. is[k + 1] = rest[k]
      BY <2>3, <3>2
    <3>4. QED BY <3>1, <3>3
  <2>6. \A l \in 1 .. k : c[is[l]] = Null
    <3> SUFFICES ASSUME NEW l \in 1 .. k, l # 1 PROVE c[is[l]] = Null
      BY <1>5
    <3>1. l \in 1 .. n + 1 /\ l - 1 \in 1 .. k - 1
      BY <2>3
    <3>2. is[l] = rest[l - 1]
      BY <1>1, <3>1
    <3>3. QED BY <2>3, <3>1, <3>2
  <2>7. FirstOf(c, is) = c[is[k + 1]]
    <3>1. FirstAt(c, is, k + 1)
      BY <1>2, <2>3, <2>5, <2>6 DEF FirstAt
    <3>2. QED BY <1>2, <3>1, FirstOfAt
  <2>8. QED BY <1>5, <2>4, <2>5, <2>7
<1>6. QED BY <1>3, <1>4, <1>5

LEMMA FirstOfFour ==
  ASSUME NEW c
  PROVE  /\ \A p : FirstOf(c, <<p>>) = IF c[p] # Null THEN c[p] ELSE PastEnd
         /\ \A p, q : FirstOf(c, <<p, q>>) = IF c[p] # Null THEN c[p] ELSE FirstOf(c, <<q>>)
         /\ \A p, q, r : FirstOf(c, <<p, q, r>>) =
                           IF c[p] # Null THEN c[p] ELSE FirstOf(c, <<q, r>>)
         /\ \A p, q, r, s : FirstOf(c, <<p, q, r, s>>) =
                              IF c[p] # Null THEN c[p] ELSE FirstOf(c, <<q, r, s>>)
<1>1. ASSUME NEW p PROVE FirstOf(c, <<p>>) = IF c[p] # Null THEN c[p] ELSE PastEnd
  <2> DEFINE is == <<p>>
             rest == << >>
  <2>1. IsRest(rest, is, 0) /\ is[1] = p
    BY DEF IsRest
  <2> HIDE DEF is, rest
  <2>2. FirstOf(c, is) = IF c[is[1]] # Null THEN c[is[1]] ELSE FirstOf(c, rest)
    BY <2>1, FirstOfNext
  <2>3. QED BY <2>1, <2>2, FirstOfNone DEF is, rest
<1>2. ASSUME NEW p, NEW q
      PROVE  FirstOf(c, <<p, q>>) = IF c[p] # Null THEN c[p] ELSE FirstOf(c, <<q>>)
  <2> DEFINE is == <<p, q>>
             rest == <<q>>
  <2>1. IsRest(rest, is, 1) /\ is[1] = p
    BY DEF IsRest
  <2> HIDE DEF is, rest
  <2>2. FirstOf(c, is) = IF c[is[1]] # Null THEN c[is[1]] ELSE FirstOf(c, rest)
    BY <2>1, FirstOfNext
  <2>3. QED BY <2>1, <2>2 DEF is, rest
<1>3. ASSUME NEW p, NEW q, NEW r
      PROVE  FirstOf(c, <<p, q, r>>) = IF c[p] # Null THEN c[p] ELSE FirstOf(c, <<q, r>>)
  <2> DEFINE is == <<p, q, r>>
             rest == <<q, r>>
  <2>1. IsRest(rest, is, 2) /\ is[1] = p
    BY DEF IsRest
  <2> HIDE DEF is, rest
  <2>2. FirstOf(c, is) = IF c[is[1]] # Null THEN c[is[1]] ELSE FirstOf(c, rest)
    BY <2>1, FirstOfNext
  <2>3. QED BY <2>1, <2>2 DEF is, rest
<1>4. ASSUME NEW p, NEW q, NEW r, NEW s
      PROVE  FirstOf(c, <<p, q, r, s>>) = IF c[p] # Null THEN c[p] ELSE FirstOf(c, <<q, r, s>>)
  <2> DEFINE is == <<p, q, r, s>>
             rest == <<q, r, s>>
  <2>1. IsRest(rest, is, 3) /\ is[1] = p
    BY DEF IsRest
  <2> HIDE DEF is, rest
  <2>2. FirstOf(c, is) = IF c[is[1]] # Null THEN c[is[1]] ELSE FirstOf(c, rest)
    BY <2>1, FirstOfNext
  <2>3. QED BY <2>1, <2>2 DEF is, rest
<1>5. QED BY <1>1, <1>2, <1>3, <1>4

\* How many of the first n are not null.
Count(c, n) == Cardinality({i \in 1 .. n : c[i] # Null})

LEMMA CountFacts ==
  ASSUME NEW c
  PROVE  /\ Count(c, 0) = 0
         /\ \A n \in Nat : /\ Count(c, n) \in Nat
                           /\ Count(c, n + 1) = Count(c, n) + IF c[n + 1] # Null THEN 1 ELSE 0
<1> DEFINE S(n) == {i \in 1 .. n : c[i] # Null}
<1>1. S(0) = {}
  OBVIOUS
<1>2. Count(c, 0) = 0
  BY <1>1, FS_EmptySet DEF Count
<1>3. ASSUME NEW n \in Nat
      PROVE  /\ Count(c, n) \in Nat
             /\ Count(c, n + 1) = Count(c, n) + IF c[n + 1] # Null THEN 1 ELSE 0
  <2>1. IsFiniteSet(1 .. n)
    BY FS_Interval
  <2>2. IsFiniteSet(S(n))
    <3>1. S(n) \in SUBSET (1 .. n)
      OBVIOUS
    <3> HIDE DEF S
    <3>2. QED BY <2>1, <3>1, FS_Subset
  <2>3. Cardinality(S(n)) \in Nat
    BY <2>2, FS_CardinalityType
  <2>4. CASE c[n + 1] # Null
    <3>1. S(n + 1) = S(n) \cup {n + 1} /\ n + 1 \notin S(n)
      BY <2>4
    <3>2. Cardinality(S(n) \cup {n + 1}) = Cardinality(S(n)) + 1
      <4> HIDE DEF S
      <4>1. QED BY <2>2, <3>1, FS_AddElement
    <3>3. QED BY <2>3, <2>4, <3>1, <3>2 DEF Count
  <2>5. CASE c[n + 1] = Null
    <3>1. S(n + 1) = S(n)
      BY <2>5
    <3>2. QED BY <2>3, <2>5, <3>1 DEF Count
  <2>6. QED BY <2>4, <2>5
<1>4. QED BY <1>2, <1>3

LEMMA CountFour ==
  ASSUME NEW c
  PROVE  LET one(i) == IF c[i] # Null THEN 1 ELSE 0
         IN  /\ Count(c, 0) = 0 /\ Count(c, 1) = one(1)
             /\ Count(c, 2) = one(1) + one(2)
             /\ Count(c, 3) = one(1) + one(2) + one(3)
             /\ Count(c, 4) = one(1) + one(2) + one(3) + one(4)
<1>1. Count(c, 0) = 0
  BY CountFacts
<1>2. /\ Count(c, 0 + 1) = Count(c, 0) + IF c[0 + 1] # Null THEN 1 ELSE 0
      /\ Count(c, 1 + 1) = Count(c, 1) + IF c[1 + 1] # Null THEN 1 ELSE 0
      /\ Count(c, 2 + 1) = Count(c, 2) + IF c[2 + 1] # Null THEN 1 ELSE 0
      /\ Count(c, 3 + 1) = Count(c, 3) + IF c[3 + 1] # Null THEN 1 ELSE 0
  BY CountFacts
<1>3. 0 + 1 = 1 /\ 1 + 1 = 2 /\ 2 + 1 = 3 /\ 3 + 1 = 4
  OBVIOUS
<1>4. QED BY <1>1, <1>2, <1>3

\* What an iterator gives at the first n positions is what there is, and nothing else.
Enumerates(given, c, n) ==
  /\ \A p \in 0 .. n - 1 : given[p] \in NodesIn(c)
  /\ \A m \in NodesIn(c) : \E p \in 0 .. n - 1 : given[p] = m

(* For at most four children, one after the other.                         *)
LEMMA EnumeratesFour ==
  ASSUME NEW c, NEW given, NEW n \in 0 .. 4, NEW l \in 0 .. 4, DOMAIN c = 1 .. l,
         \A p \in 0 .. 3 : p < n => \E i \in 1 .. 4 : i <= l /\ c[i] # Null /\ given[p] = c[i],
         \A i \in 1 .. 4 : i <= l /\ c[i] # Null =>
           \E p \in 0 .. 3 : p < n /\ given[p] = c[i]
  PROVE  Enumerates(given, c, n)
<1>1. ASSUME NEW p \in 0 .. n - 1 PROVE given[p] \in NodesIn(c)
  <2>1. p \in 0 .. 3 /\ p < n
    OBVIOUS
  <2>2. PICK i \in 1 .. 4 : i <= l /\ c[i] # Null /\ given[p] = c[i]
    BY <2>1
  <2>3. i \in DOMAIN c
    BY <2>2
  <2>4. QED BY <2>2, <2>3 DEF NodesIn, Range
<1>2. ASSUME NEW m \in NodesIn(c) PROVE \E p \in 0 .. n - 1 : given[p] = m
  <2>1. PICK i \in DOMAIN c : c[i] = m /\ m # Null
    BY DEF NodesIn, Range
  <2>2. i \in 1 .. 4 /\ i <= l
    BY <2>1
  <2>3. PICK p \in 0 .. 3 : p < n /\ given[p] = c[i]
    BY <2>1, <2>2
  <2>4. p \in 0 .. n - 1
    BY <2>3
  <2>5. QED BY <2>1, <2>3, <2>4
<1>3. QED BY <1>1, <1>2 DEF Enumerates

LEMMA ForEnumerates ==
  ASSUME NEW c, DOMAIN c = 1 .. 4
  PROVE  Enumerates([p \in 0 .. 3 |-> ForDeref(c, p)], c, Count(c, 4))
<1> DEFINE given == [p \in 0 .. 3 |-> ForDeref(c, p)]
           n == Count(c, 4)
           h1 == c[1] # Null
           h2 == c[2] # Null
           h3 == c[3] # Null
           h4 == c[4] # Null
           f4 == IF h4 THEN c[4] ELSE PastEnd
           f3 == IF h3 THEN c[3] ELSE f4
           f2 == IF h2 THEN c[2] ELSE f3
           f1 == IF h1 THEN c[1] ELSE f2
<1>1. /\ FirstOf(c, <<4>>) = f4 /\ FirstOf(c, <<3, 4>>) = f3
      /\ FirstOf(c, <<2, 3, 4>>) = f2 /\ FirstOf(c, <<1, 2, 3, 4>>) = f1
  BY FirstOfFour
<1>2. given[0] = f1 /\ given[1] = ForDeref(c, 1) /\ given[2] = ForDeref(c, 2)
      /\ given[3] = ForDeref(c, 3)
  BY <1>1 DEF ForDeref
<1>3. ForDeref(c, 1) = IF h1 THEN f2 ELSE IF h2 THEN f3 ELSE IF h3 THEN f4 ELSE PastEnd
  BY <1>1 DEF ForDeref
<1>4. ForDeref(c, 2) = IF h1 /\ h2 THEN f3 ELSE IF (h1 \/ h2) /\ h3 THEN f4 ELSE PastEnd
  BY <1>1 DEF ForDeref
<1>5. ForDeref(c, 3) = IF h1 /\ h2 /\ h3 THEN f4 ELSE PastEnd
  BY <1>1 DEF ForDeref
<1>6. n = (IF h1 THEN 1 ELSE 0) + (IF h2 THEN 1 ELSE 0) + (IF h3 THEN 1 ELSE 0)
          + (IF h4 THEN 1 ELSE 0)
  BY CountFour
<1> HIDE DEF given, n
<1>7. n \in 0 .. 4
  BY <1>6
<1>8. \A p \in 0 .. 3 : p < n => \E i \in 1 .. 4 : i <= 4 /\ c[i] # Null /\ given[p] = c[i]
  BY <1>2, <1>3, <1>4, <1>5, <1>6
<1>9. \A i \in 1 .. 4 : i <= 4 /\ c[i] # Null => \E p \in 0 .. 3 : p < n /\ given[p] = c[i]
  BY <1>2, <1>3, <1>4, <1>5, <1>6
<1>10. QED BY <1>7, <1>8, <1>9, EnumeratesFour DEF given, n

LEMMA ThreeEnumerate ==
  ASSUME NEW c, DOMAIN c = 1 .. 3
  PROVE  /\ Enumerates([p \in 0 .. 3 |-> IfDeref(c, p)], c, Count(c, 3))
         /\ Enumerates([p \in 0 .. 3 |-> TernaryDeref(c, p)], c, Count(c, 3))
<1> DEFINE given == [p \in 0 .. 3 |-> IfDeref(c, p)]
           n == Count(c, 3)
           h1 == c[1] # Null
           h2 == c[2] # Null
           h3 == c[3] # Null
           f3 == IF h3 THEN c[3] ELSE PastEnd
           f2 == IF h2 THEN c[2] ELSE f3
           f1 == IF h1 THEN c[1] ELSE f2
<1>1. FirstOf(c, <<3>>) = f3 /\ FirstOf(c, <<2, 3>>) = f2 /\ FirstOf(c, <<1, 2, 3>>) = f1
  BY FirstOfFour
<1>2. /\ given[0] = f1
      /\ given[1] = IF h1 THEN f2 ELSE f3
      /\ given[2] = IF h1 /\ h2 THEN f3 ELSE PastEnd
  BY <1>1 DEF IfDeref
<1>3. \A p \in 0 .. 3 : TernaryDeref(c, p) = IfDeref(c, p)
  BY DEF TernaryDeref, IfDeref
<1>4. [p \in 0 .. 3 |-> TernaryDeref(c, p)] = given
  BY <1>3
<1>5. n = (IF h1 THEN 1 ELSE 0) + (IF h2 THEN 1 ELSE 0) + (IF h3 THEN 1 ELSE 0)
  BY CountFour
<1> HIDE DEF given, n
<1>6. n \in 0 .. 4
  BY <1>5
<1>7. \A p \in 0 .. 3 : p < n => \E i \in 1 .. 4 : i <= 3 /\ c[i] # Null /\ given[p] = c[i]
  BY <1>2, <1>5
<1>8. \A i \in 1 .. 4 : i <= 3 /\ c[i] # Null => \E p \in 0 .. 3 : p < n /\ given[p] = c[i]
  BY <1>2, <1>5
<1>9. Enumerates(given, c, n)
  BY <1>6, <1>7, <1>8, EnumeratesFour
<1>10. QED BY <1>4, <1>9 DEF given, n

LEMMA PairEnumerates ==
  ASSUME NEW c, DOMAIN c = 1 .. 2
  PROVE  Enumerates([p \in 0 .. 3 |-> PairDeref(c, p)], c, Count(c, 2))
<1> DEFINE given == [p \in 0 .. 3 |-> PairDeref(c, p)]
           n == Count(c, 2)
           h1 == c[1] # Null
           h2 == c[2] # Null
           f2 == IF h2 THEN c[2] ELSE PastEnd
           f1 == IF h1 THEN c[1] ELSE f2
<1>1. FirstOf(c, <<2>>) = f2 /\ FirstOf(c, <<1, 2>>) = f1
  BY FirstOfFour
<1>2. given[0] = f1 /\ given[1] = IF h1 THEN f2 ELSE PastEnd
  BY <1>1 DEF PairDeref
<1>3. n = (IF h1 THEN 1 ELSE 0) + (IF h2 THEN 1 ELSE 0)
  BY CountFour
<1> HIDE DEF given, n
<1>4. n \in 0 .. 4
  BY <1>3
<1>5. \A p \in 0 .. 3 : p < n => \E i \in 1 .. 4 : i <= 2 /\ c[i] # Null /\ given[p] = c[i]
  BY <1>2, <1>3
<1>6. \A i \in 1 .. 4 : i <= 2 /\ c[i] # Null => \E p \in 0 .. 3 : p < n /\ given[p] = c[i]
  BY <1>2, <1>3
<1>7. QED BY <1>4, <1>5, <1>6, EnumeratesFour DEF given, n

LEMMA SingleEnumerates ==
  ASSUME NEW c, DOMAIN c = 1 .. 1
  PROVE  Enumerates([p \in 0 .. 3 |-> SingleDeref(c, p)], c, Count(c, 1))
<1> DEFINE given == [p \in 0 .. 3 |-> SingleDeref(c, p)]
           n == Count(c, 1)
<1>1. given[0] = IF c[1] # Null THEN c[1] ELSE PastEnd
  BY FirstOfFour DEF SingleDeref
<1>2. n = IF c[1] # Null THEN 1 ELSE 0
  BY CountFour
<1> HIDE DEF given, n
<1>3. n \in 0 .. 4
  BY <1>2
<1>4. \A p \in 0 .. 3 : p < n => \E i \in 1 .. 4 : i <= 1 /\ c[i] # Null /\ given[p] = c[i]
  BY <1>1, <1>2
<1>5. \A i \in 1 .. 4 : i <= 1 /\ c[i] # Null => \E p \in 0 .. 3 : p < n /\ given[p] = c[i]
  BY <1>1, <1>2
<1>6. QED BY <1>3, <1>4, <1>5, EnumeratesFour DEF given, n

LEMMA NothingEnumerates ==
  ASSUME NEW c, DOMAIN c = 1 .. 0, NEW given
  PROVE  Enumerates(given, c, Count(c, 0))
<1>1. Count(c, 0) = 0 /\ NodesIn(c) = {}
  BY CountFour DEF NodesIn, Range
<1>2. 0 .. 0 - 1 = {}
  OBVIOUS
<1>3. QED BY <1>1, <1>2 DEF Enumerates

\* The iterator of a node without a vector at a position, and what it gives there.
AtPlace(p) == [at |-> p, beyond |-> 0]

GivenBy(n) == [p \in 0 .. 3 |-> Deref(n, AtPlace(p))]

(* A node without a vector: its iterator goes once through the children    *)
(* there are, whichever members are null.                                  *)
LEMMA MembersListed ==
  ASSUME NodeInv, NEW n \in Live, ~ IteratesVector(n)
  PROVE  Present(n) \in 0 .. 4 /\ Enumerates(GivenBy(n), child[n], Present(n))
<1> DEFINE c == child[n]
           k == kind[n]
           l == Len(Class[k].members)
<1>1. k \in Kinds /\ Class[k].vector = {} /\ c \in Seq(Nodes \cup {Null})
      /\ Fits(k, kind, c)
  BY HeapFacts DEF IteratesVector
<1>2. DOMAIN c = 1 .. l /\ l \in Nat
  BY <1>1, FitsFacts
<1>3. Present(n) = Count(c, l)
  BY <1>2 DEF Present, Count
<1>4. /\ IteratesVector(n) = FALSE
      /\ \A p \in 0 .. 3 : GivenBy(n)[p] = Deref(n, AtPlace(p)) /\ AtPlace(p).at = p
  BY DEF AtPlace, GivenBy, IteratesVector
<1>5. DOMAIN GivenBy(n) = 0 .. 3 /\ GivenBy(n) = [p \in 0 .. 3 |-> GivenBy(n)[p]]
  BY DEF GivenBy
<1> HIDE DEF l
<1>6. \A m \in 0 .. 4 : Count(c, m) \in 0 .. 4
  <2>1. /\ Count(c, 0) \in 0 .. 4 /\ Count(c, 1) \in 0 .. 4 /\ Count(c, 2) \in 0 .. 4
        /\ Count(c, 3) \in 0 .. 4 /\ Count(c, 4) \in 0 .. 4
    BY CountFour
  <2>2. \A m \in 0 .. 4 : m = 0 \/ m = 1 \/ m = 2 \/ m = 3 \/ m = 4
    OBVIOUS
  <2>3. QED BY <2>1, <2>2
<1>7. CASE k = "For" /\ l = 4
  <2>1. \A p \in 0 .. 3 : GivenBy(n)[p] = ForDeref(c, p)
    BY <1>4, <1>7 DEF Deref
  <2>2. GivenBy(n) = [p \in 0 .. 3 |-> ForDeref(c, p)]
    BY <1>5, <2>1
  <2>3. Enumerates([p \in 0 .. 3 |-> ForDeref(c, p)], c, Count(c, 4))
    BY <1>2, <1>7, ForEnumerates
  <2>4. QED BY <1>3, <1>6, <1>7, <2>2, <2>3
<1>8. CASE k \in {"If", "TernaryOperator"} /\ l = 3
  <2>1. /\ Enumerates([p \in 0 .. 3 |-> IfDeref(c, p)], c, Count(c, 3))
        /\ Enumerates([p \in 0 .. 3 |-> TernaryDeref(c, p)], c, Count(c, 3))
    BY <1>2, <1>8, ThreeEnumerate
  <2>2. CASE k = "If"
    <3>1. \A p \in 0 .. 3 : GivenBy(n)[p] = IfDeref(c, p)
      BY <1>4, <2>2 DEF Deref
    <3>2. GivenBy(n) = [p \in 0 .. 3 |-> IfDeref(c, p)]
      BY <1>5, <3>1
    <3>3. QED BY <1>3, <1>6, <1>8, <2>1, <3>2
  <2>3. CASE k = "TernaryOperator"
    <3>1. \A p \in 0 .. 3 : GivenBy(n)[p] = TernaryDeref(c, p)
      BY <1>4, <2>3 DEF Deref
    <3>2. GivenBy(n) = [p \in 0 .. 3 |-> TernaryDeref(c, p)]
      BY <1>5, <3>1
    <3>3. QED BY <1>3, <1>6, <1>8, <2>1, <3>2
  <2>4. QED BY <1>8, <2>2, <2>3
<1>9. CASE /\ k \in {"Assignment", "VariableDeclaration", "BinaryExpression", "IndexAccess"}
           /\ l = 2
  <2>1. \A p \in 0 .. 3 : GivenBy(n)[p] = PairDeref(c, p)
    BY <1>4, <1>9 DEF Deref
  <2>2. GivenBy(n) = [p \in 0 .. 3 |-> PairDeref(c, p)]
    BY <1>5, <2>1
  <2>3. Enumerates([p \in 0 .. 3 |-> PairDeref(c, p)], c, Count(c, 2))
    BY <1>2, <1>9, PairEnumerates
  <2>4. QED BY <1>3, <1>6, <1>9, <2>2, <2>3
<1>10. CASE k \in {"Return", "UnaryExpression"} /\ l = 1
  <2>1. \A p \in 0 .. 3 : GivenBy(n)[p] = SingleDeref(c, p)
    BY <1>4, <1>10 DEF Deref
  <2>2. GivenBy(n) = [p \in 0 .. 3 |-> SingleDeref(c, p)]
    BY <1>5, <2>1
  <2>3. Enumerates([p \in 0 .. 3 |-> SingleDeref(c, p)], c, Count(c, 1))
    BY <1>2, <1>10, SingleEnumerates
  <2>4. QED BY <1>3, <1>6, <1>10, <2>2, <2>3
<1>11. CASE k \in {"Variable", "FunctionParameter", "Literal"} /\ l = 0
  <2>1. Enumerates(GivenBy(n), c, Count(c, 0))
    BY <1>2, <1>11, NothingEnumerates
  <2>2. QED BY <1>3, <1>6, <1>11, <2>1
<1>12. QED BY <1>1, <1>7, <1>8, <1>9, <1>10, <1>11, MemberKinds DEF l

-----------------------------------------------------------------------------
(* Iterators. *)

\* What the iterator of a Function counts when it gets to the end of the parameters.
Ended(n) == IF kind[n] = "Function" /\ Length(n) # 0 THEN 1 ELSE 0

\* Where an iterator may be: only at the first index may there be no child.
IterOK(n, it) ==
  /\ it \in [at : Nat, beyond : Nat]
  /\ IF IteratesVector(n)
     THEN \/ it.at \in 1 .. Length(n) /\ it.beyond = 0 /\ (it.at = 1 \/ child[n][it.at] # Null)
          \/ it.at = Length(n) + 1 /\ it.beyond \in Ended(n) .. End(n).beyond
     ELSE it.at \in 0 .. Present(n) /\ it.beyond = 0

\* What an iterator gave on its way to where it is.
PassedBy(n, it) ==
  IF IteratesVector(n)
  THEN {child[n][i] : i \in 1 .. it.at - 1}
       \cup (IF it.at = Length(n) + 1 /\ it.beyond > Ended(n) THEN {MembersOf(n)[1]} ELSE {})
  ELSE {GivenBy(n)[p] : p \in 0 .. it.at - 1}

(* No class with a vector has an iterator over members.                    *)
LEMMA VectorKinds ==
  \A k \in Kinds : Class[k].vector # {} =>
    k \notin {"For", "If", "TernaryOperator", "Return", "UnaryExpression", "Assignment",
              "VariableDeclaration", "BinaryExpression", "IndexAccess"}
<1>1. /\ Class["For"].vector = {} /\ Class["If"].vector = {}
      /\ Class["TernaryOperator"].vector = {}
  BY DEF Class, Of, For, If, TernaryOperator
<1>2. Class["Return"].vector = {} /\ Class["UnaryExpression"].vector = {}
  BY DEF Class, Of, Return, UnaryExpression
<1>3. /\ Class["Assignment"].vector = {} /\ Class["VariableDeclaration"].vector = {}
      /\ Class["BinaryExpression"].vector = {} /\ Class["IndexAccess"].vector = {}
  BY DEF Class, Of, Assignment, VariableDeclaration, BinaryExpression, IndexAccess
<1>4. QED BY <1>1, <1>2, <1>3

(* A node with a vector; only that of a Function has a member, too.        *)
LEMMA VectorFacts ==
  ASSUME NodeInv, NEW n \in Live, IteratesVector(n)
  PROVE  /\ Length(n) \in Nat
         /\ DOMAIN child[n] = 1 .. Length(n) + (IF kind[n] = "Function" THEN 1 ELSE 0)
         /\ kind[n] # "Function" => MembersOf(n) = << >> /\ End(n).beyond = 0
         /\ kind[n] = "Function" =>
              /\ MembersOf(n) # << >> /\ MembersOf(n)[1] = child[n][Length(n) + 1]
              /\ End(n).beyond = Ended(n) + (IF child[n][Length(n) + 1] = Null THEN 0 ELSE 1)
         /\ End(n).at = Length(n) + 1 /\ End(n).beyond \in Nat /\ Ended(n) \in {0, 1}
         /\ Ended(n) <= End(n).beyond
         /\ kind[n] # "Function" => Ended(n) = 0
<1> DEFINE k == kind[n]
           l == Len(Class[k].members)
           c == child[n]
           m == MembersOf(n)
<1>1. /\ k \in Kinds /\ Class[k].vector # {} /\ c \in Seq(Nodes \cup {Null})
      /\ Fits(k, kind, c)
  BY HeapFacts DEF IteratesVector
<1>2. l = IF k = "Function" THEN 1 ELSE 0
  BY <1>1, ClassFacts DEF ClassOK, GoodClass
<1>3. Length(n) \in Nat /\ Len(c) = Length(n) + l /\ DOMAIN c = 1 .. Len(c)
  BY <1>1, FitsFacts DEF Length
<1>4. /\ m \in Seq(Nodes \cup {Null}) /\ Len(m) = l /\ DOMAIN m = 1 .. l
      /\ \A i \in DOMAIN m : m[i] = c[Length(n) + i]
  BY MembersFacts DEF Length
<1>5. End(n).at = Length(n) + 1
  BY DEF End, IteratesVector
<1>6. Ended(n) \in {0, 1} /\ (k # "Function" => Ended(n) = 0)
  BY DEF Ended
<1>7. CASE k # "Function"
  <2>1. m = << >>
    BY <1>2, <1>4, <1>7
  <2>2. End(n).beyond = 0 /\ Ended(n) = 0
    BY <1>6, <1>7 DEF End
  <2>3. QED BY <1>2, <1>3, <1>5, <1>6, <1>7, <2>1, <2>2
<1>8. CASE k = "Function"
  <2>1. /\ m # << >> /\ 1 \in DOMAIN m /\ m[1] = c[Length(n) + 1]
        /\ DOMAIN m = {1}
    <3>1. l = 1
      BY <1>2, <1>8
    <3>2. DOMAIN m = 1 .. 1 /\ Len(m) = 1
      BY <1>4, <3>1
    <3>3. 1 .. 1 = {1}
      OBVIOUS
    <3>4. m[1] = c[Length(n) + 1]
      BY <1>4, <3>2, <3>3
    <3>5. m # << >>
      BY <3>2
    <3>6. QED BY <3>2, <3>3, <3>4, <3>5
  <2>2. Range(m) = {c[Length(n) + 1]}
    BY <2>1 DEF Range
  <2>3. HasBody(n) = IF c[Length(n) + 1] = Null THEN 0 ELSE 1
    BY <2>2 DEF HasBody
  <2>4. End(n).beyond = HasBody(n) + (IF Length(n) = 0 THEN 0 ELSE 1)
    BY <1>8 DEF End
  <2>5. Ended(n) = IF Length(n) = 0 THEN 0 ELSE 1
    BY <1>8 DEF Ended
  <2>6. QED BY <1>2, <1>3, <1>5, <1>6, <1>8, <2>1, <2>3, <2>4, <2>5
<1>9. QED BY <1>7, <1>8

(* A visit starts in front of every child.                                 *)
LEMMA BeginFacts ==
  ASSUME NodeInv, NEW n \in Live
  PROVE  IterOK(n, Begin(n)) /\ PassedBy(n, Begin(n)) = {}
<1>1. CASE IteratesVector(n)
  <2>1. Begin(n) = [at |-> 1, beyond |-> 0]
    BY <1>1 DEF Begin
  <2>2. Length(n) \in Nat /\ Ended(n) <= End(n).beyond /\ End(n).beyond \in Nat
        /\ Ended(n) \in {0, 1} /\ (Length(n) = 0 => Ended(n) = 0)
    BY <1>1, VectorFacts DEF Ended
  <2>3. IterOK(n, Begin(n))
    BY <1>1, <2>1, <2>2 DEF IterOK
  <2>4. PassedBy(n, Begin(n)) = {}
    BY <1>1, <2>1, <2>2 DEF PassedBy
  <2>5. QED BY <2>3, <2>4
<1>2. CASE ~ IteratesVector(n)
  <2>1. Begin(n) = [at |-> 0, beyond |-> 0]
    BY <1>2 DEF Begin
  <2>2. Present(n) \in 0 .. 4
    BY <1>2, MembersListed
  <2>3. 0 \in 0 .. Present(n) /\ 0 .. 0 - 1 = {}
    BY <2>2
  <2>4. IterOK(n, Begin(n))
    BY <1>2, <2>1, <2>3 DEF IterOK
  <2>5. PassedBy(n, Begin(n)) = {}
    BY <1>2, <2>1, <2>3 DEF PassedBy
  <2>6. QED BY <2>4, <2>5
<1>3. QED BY <1>1, <1>2

(* At the end it passed all of them.                                       *)
LEMMA EndFacts ==
  ASSUME NodeInv, NEW n \in Live
  PROVE  NodesIn(child[n]) \subseteq PassedBy(n, End(n))
<1> SUFFICES ASSUME NEW m \in NodesIn(child[n]) PROVE m \in PassedBy(n, End(n))
  OBVIOUS
<1>1. CASE IteratesVector(n)
  <2>1. PICK i \in DOMAIN child[n] : child[n][i] = m /\ m # Null
    BY DEF NodesIn, Range
  <2>2. End(n).at = Length(n) + 1 /\ Length(n) \in Nat
    BY <1>1, VectorFacts
  <2>3. CASE i <= Length(n)
    <3>1. i \in 1 .. End(n).at - 1
      BY <1>1, <2>1, <2>2, <2>3, VectorFacts
    <3>2. QED BY <1>1, <2>1, <3>1 DEF PassedBy
  <2>4. CASE ~ i <= Length(n)
    <3>1. kind[n] = "Function" /\ i = Length(n) + 1
      BY <1>1, <2>1, <2>2, <2>4, VectorFacts
    <3>2. MembersOf(n)[1] = m /\ End(n).beyond = Ended(n) + 1 /\ Ended(n) \in {0, 1}
      BY <1>1, <2>1, <3>1, VectorFacts
    <3>3. End(n).beyond > Ended(n)
      BY <3>2
    <3>4. QED BY <1>1, <2>2, <3>2, <3>3 DEF PassedBy
  <2>5. QED BY <2>3, <2>4
<1>2. CASE ~ IteratesVector(n)
  <2>1. PICK p \in 0 .. Present(n) - 1 : GivenBy(n)[p] = m
    BY <1>2, MembersListed DEF Enumerates
  <2>2. End(n).at = Present(n)
    BY <1>2 DEF End
  <2>3. QED BY <1>2, <2>1, <2>2 DEF PassedBy
<1>3. QED BY <1>1, <1>2

(* What it gives in a vector, and after it.                                *)
LEMMA DerefVector ==
  ASSUME NodeInv, NEW n \in Live, IteratesVector(n), NEW it, it.at \in Nat
  PROVE  /\ it.at <= Length(n) => Deref(n, it) = child[n][it.at]
         /\ it.at > Length(n) /\ MembersOf(n) # << >> => Deref(n, it) = MembersOf(n)[1]
<1>1. kind[n] \notin {"For", "If", "TernaryOperator", "Return", "UnaryExpression", "Assignment",
                     "VariableDeclaration", "BinaryExpression", "IndexAccess"}
  BY HeapFacts, VectorKinds DEF IteratesVector
<1>2. ASSUME it.at <= Length(n) PROVE Deref(n, it) = child[n][it.at]
  <2>1. ~ it.at > Length(n)
    BY <1>2, VectorFacts
  <2>2. QED BY <1>1, <1>2, <2>1 DEF Deref
<1>3. ASSUME it.at > Length(n), MembersOf(n) # << >>
      PROVE  Deref(n, it) = MembersOf(n)[1]
  <2>1. ~ it.at <= Length(n)
    BY <1>3, VectorFacts
  <2>2. QED BY <1>1, <1>3, <2>1 DEF Deref
<1>4. QED BY <1>2, <1>3

(* Before the end it gives a child, or the null pointer in front of a      *)
(* vector.                                                                 *)
LEMMA DerefFacts ==
  ASSUME NodeInv, NEW n \in Live, NEW it, IterOK(n, it), it # End(n)
  PROVE  \/ Deref(n, it) \in NodesIn(child[n])
         \/ /\ Deref(n, it) = Null /\ IteratesVector(n)
            /\ Length(n) > 0 /\ child[n][1] = Null
<1>0. it \in [at : Nat, beyond : Nat] /\ it = [at |-> it.at, beyond |-> it.beyond]
  BY DEF IterOK
<1>1. CASE IteratesVector(n) /\ it.at \in 1 .. Length(n)
  <2>1. Length(n) \in Nat /\ it.at \in DOMAIN child[n] /\ it.at <= Length(n)
    BY <1>1, VectorFacts
  <2>2. Deref(n, it) = child[n][it.at]
    BY <1>0, <1>1, <2>1, DerefVector
  <2>3. CASE child[n][it.at] # Null
    BY <2>1, <2>2, <2>3 DEF NodesIn, Range
  <2>4. CASE child[n][it.at] = Null
    <3>1. it.at = 1
      BY <1>1, <2>1, <2>4 DEF IterOK
    <3>2. QED BY <1>1, <2>1, <2>2, <2>4, <3>1
  <2>5. QED BY <2>3, <2>4
<1>2. CASE IteratesVector(n) /\ it.at \notin 1 .. Length(n)
  <2>1. it.at = Length(n) + 1 /\ it.beyond \in Ended(n) .. End(n).beyond
    BY <1>2 DEF IterOK
  <2>2. /\ Length(n) \in Nat /\ End(n).at = Length(n) + 1 /\ End(n).beyond \in Nat
        /\ Ended(n) \in {0, 1}
    BY <1>2, VectorFacts
  <2>3. it.beyond # End(n).beyond
    <3>1. End(n) = [at |-> End(n).at, beyond |-> End(n).beyond]
      BY DEF End
    <3>2. QED BY <1>0, <2>1, <2>2, <3>1
  <2>4. Ended(n) < End(n).beyond
    BY <2>1, <2>2, <2>3
  <2>5. kind[n] = "Function"
    BY <1>2, <2>2, <2>4, VectorFacts
  <2>6. /\ MembersOf(n) # << >> /\ MembersOf(n)[1] = child[n][Length(n) + 1]
        /\ child[n][Length(n) + 1] # Null
        /\ Length(n) + 1 \in DOMAIN child[n]
    BY <1>2, <2>2, <2>4, <2>5, VectorFacts
  <2>7. ~ it.at <= Length(n) /\ it.at > Length(n)
    BY <2>1, <2>2
  <2>8. Deref(n, it) = child[n][Length(n) + 1]
    BY <1>0, <1>2, <2>6, <2>7, DerefVector
  <2>9. QED BY <2>6, <2>8 DEF NodesIn, Range
<1>3. CASE ~ IteratesVector(n)
  <2>1. it.at \in 0 .. Present(n) /\ it.beyond = 0 /\ Present(n) \in 0 .. 4
    BY <1>3, MembersListed DEF IterOK
  <2>2. End(n) = [at |-> Present(n), beyond |-> 0]
    <3>1. kind[n] # "Function"
      BY <1>3 DEF IteratesVector, Class, Function, VectorOf
    <3>2. QED BY <1>3, <3>1 DEF End
  <2>3. it.at # Present(n)
    BY <1>0, <2>1, <2>2
  <2>4. it.at \in 0 .. Present(n) - 1 /\ it.at \in 0 .. 3
    BY <2>1, <2>3
  <2>5. it = AtPlace(it.at)
    BY <1>0, <2>1 DEF AtPlace
  <2>6. Deref(n, it) = GivenBy(n)[it.at]
    BY <2>4, <2>5 DEF GivenBy
  <2>7. QED BY <1>3, <2>4, <2>6, MembersListed DEF Enumerates
<1>4. QED BY <1>1, <1>2, <1>3

(* An iterator of a vector goes on to the next child there is.             *)
LEMMA NextFacts ==
  ASSUME NodeInv, NEW n \in Live, IteratesVector(n), NEW i \in 1 .. Length(n)
  PROVE  /\ NextPresent(n, i) \in i + 1 .. Length(n) + 1
         /\ NextPresent(n, i) = Length(n) + 1 \/ child[n][NextPresent(n, i)] # Null
         /\ \A l \in i + 1 .. NextPresent(n, i) - 1 : child[n][l] = Null
<1> DEFINE L == Length(n)
           Good(k) == /\ k = L + 1 \/ child[n][k] # Null
                      /\ \A l \in i + 1 .. k - 1 : child[n][l] = Null
           K == {k \in 1 .. L + 1 : k > i /\ (k = L + 1 \/ child[n][k] # Null)}
<1>1. L \in Nat /\ L + 1 \in Nat /\ i \in Nat
  BY VectorFacts
<1> HIDE DEF L
<1>2. K \in SUBSET (1 .. L + 1) /\ L + 1 \in K
  <2>1. L + 1 \in 1 .. L + 1 /\ L + 1 > i
    BY <1>1 DEF L
  <2>2. QED BY <2>1
<1>3. PICK k \in K : \A l \in K : k <= l
  BY <1>1, <1>2, LeastIndex
<1>4. k \in i + 1 .. L + 1
  BY <1>1, <1>3
<1>5. \A l \in i + 1 .. k - 1 : child[n][l] = Null
  <2> SUFFICES ASSUME NEW l \in i + 1 .. k - 1, child[n][l] # Null PROVE FALSE
    OBVIOUS
  <2>1. l \in 1 .. L + 1 /\ l > i /\ ~ k <= l
    BY <1>1, <1>4
  <2>2. l \in K
    BY <2>1
  <2>3. QED BY <1>3, <2>1, <2>2
<1>6. Good(k)
  BY <1>3, <1>5
<1>7. NextPresent(n, i) = CHOOSE m \in i + 1 .. L + 1 : Good(m)
  BY DEF NextPresent, L
<1> HIDE DEF Good
<1>8. NextPresent(n, i) \in i + 1 .. L + 1 /\ Good(NextPresent(n, i))
  BY <1>4, <1>6, <1>7
<1>9. QED BY <1>8 DEF Good, L

\* Of the children, an iterator passed only what it gave.
GoesOn(n, it, next) ==
  \A m \in NodesIn(child[n]) : m \in PassedBy(n, next) => m \in PassedBy(n, it) \/ m = Deref(n, it)

(* Going on, an iterator passes what it gave.                              *)
LEMMA IncrementFacts ==
  ASSUME NodeInv, NEW n \in Live, NEW it, IterOK(n, it), it # End(n)
  PROVE  IterOK(n, Increment(n, it)) /\ GoesOn(n, it, Increment(n, it))
<1> DEFINE next == Increment(n, it)
<1> USE DEF GoesOn
<1>0. it \in [at : Nat, beyond : Nat] /\ it = [at |-> it.at, beyond |-> it.beyond]
      /\ it.at \in Nat /\ it.beyond \in Nat
  BY DEF IterOK
<1>1. CASE IteratesVector(n) /\ it.at \in 1 .. Length(n)
  <2> DEFINE k == NextPresent(n, it.at)
             L == Length(n)
  <2>1. /\ L \in Nat /\ Ended(n) \in {0, 1} /\ Ended(n) <= End(n).beyond
        /\ End(n).beyond \in Nat
    BY <1>1, VectorFacts
  <2>2. it.at # L + 1 /\ it.beyond = 0
    BY <1>1, <2>1 DEF IterOK
  <2>3. /\ k \in it.at + 1 .. L + 1
        /\ k = L + 1 \/ child[n][k] # Null
        /\ \A l \in it.at + 1 .. k - 1 : child[n][l] = Null
    BY <1>1, NextFacts
  <2>4. next = [at |-> k, beyond |-> IF kind[n] = "Function" /\ k = L + 1 THEN 1 ELSE it.beyond]
    BY <1>1, <2>2 DEF Increment
  <2>5. next.at = k /\ next.beyond \in Nat /\ next \in [at : Nat, beyond : Nat]
        /\ next.beyond = IF kind[n] = "Function" /\ k = L + 1 THEN 1 ELSE 0
    BY <1>0, <2>1, <2>2, <2>3, <2>4
  <2>6. L # 0 /\ k \in Nat
    BY <1>1, <2>1, <2>3
  <2>7. k = L + 1 => next.beyond = Ended(n)
    BY <2>5, <2>6 DEF Ended
  <2> HIDE DEF next, k
  <2>8. IterOK(n, next)
    <3>1. CASE k = L + 1
      <4>1. next.beyond \in Ended(n) .. End(n).beyond
        BY <2>1, <2>7, <3>1
      <4>2. QED BY <1>1, <2>5, <3>1, <4>1 DEF IterOK
    <3>2. CASE k # L + 1
      <4>1. k \in 1 .. L
        BY <1>1, <2>1, <2>3, <3>2
      <4>2. QED BY <1>1, <2>3, <2>5, <3>2, <4>1 DEF IterOK
    <3>3. QED BY <3>1, <3>2
  <2>9. ASSUME NEW m \in NodesIn(child[n]), m \in PassedBy(n, next)
        PROVE  m \in PassedBy(n, it) \/ m = Deref(n, it)
    <3>1. ~ (next.at = L + 1 /\ next.beyond > Ended(n))
      BY <2>1, <2>5, <2>7
    <3>2. PICK i \in 1 .. k - 1 : child[n][i] = m
      BY <1>1, <2>5, <2>9, <3>1 DEF PassedBy
    <3>3. m # Null
      BY <2>9 DEF NodesIn
    <3>4. ~ i > it.at
      <4>1. i > it.at => i \in it.at + 1 .. k - 1
        BY <1>0, <2>6, <3>2
      <4>2. QED BY <2>3, <3>2, <3>3, <4>1
    <3>5. CASE i = it.at
      <4>1. Deref(n, it) = child[n][it.at]
        BY <1>0, <1>1, <2>1, DerefVector
      <4>2. QED BY <3>2, <3>5, <4>1
    <3>6. CASE i # it.at
      <4>1. i \in 1 .. it.at - 1
        BY <1>0, <2>6, <3>2, <3>4, <3>6
      <4>2. QED BY <1>1, <3>2, <4>1 DEF PassedBy
    <3>7. QED BY <3>5, <3>6
  <2>10. QED BY <2>8, <2>9 DEF next
<1>2. CASE IteratesVector(n) /\ it.at \notin 1 .. Length(n)
  <2>1. it.at = Length(n) + 1 /\ it.beyond \in Ended(n) .. End(n).beyond
    BY <1>2 DEF IterOK
  <2>2. /\ Length(n) \in Nat /\ End(n).at = Length(n) + 1 /\ End(n).beyond \in Nat
        /\ Ended(n) \in {0, 1}
    BY <1>2, VectorFacts
  <2>3. it.beyond # End(n).beyond
    <3>1. End(n) = [at |-> End(n).at, beyond |-> End(n).beyond]
      BY DEF End
    <3>2. QED BY <1>0, <2>1, <2>2, <3>1
  <2>4. Ended(n) < End(n).beyond
    BY <2>1, <2>2, <2>3
  <2>5. kind[n] = "Function"
    BY <1>2, <2>2, <2>4, VectorFacts
  <2>6. /\ MembersOf(n) # << >> /\ End(n).beyond = Ended(n) + 1
    BY <1>2, <2>2, <2>4, <2>5, VectorFacts
  <2>7. next = [it EXCEPT !.beyond = @ + 1]
    BY <1>2, <2>1 DEF Increment
  <2>8. next.at = it.at /\ next.beyond = it.beyond + 1 /\ next \in [at : Nat, beyond : Nat]
    BY <1>0, <2>7
  <2>9. it.beyond = Ended(n)
    BY <2>1, <2>2, <2>3, <2>6
  <2> HIDE DEF next
  <2>10. IterOK(n, next)
    <3>1. next.beyond \in Ended(n) .. End(n).beyond
      BY <2>2, <2>6, <2>8, <2>9
    <3>2. QED BY <1>2, <2>1, <2>8, <3>1 DEF IterOK
  <2>11. Deref(n, it) = MembersOf(n)[1]
    <3>1. it.at > Length(n)
      BY <2>1, <2>2
    <3>2. QED BY <1>0, <1>2, <2>6, <3>1, DerefVector
  <2>12. ASSUME NEW m, m \in PassedBy(n, next) PROVE m \in PassedBy(n, it) \/ m = Deref(n, it)
    <3>1. \/ m \in {child[n][i] : i \in 1 .. it.at - 1}
          \/ m = MembersOf(n)[1]
      BY <1>2, <2>8, <2>12 DEF PassedBy
    <3>2. QED BY <1>2, <2>11, <3>1 DEF PassedBy
  <2>13. QED BY <2>10, <2>12 DEF next
<1>3. CASE ~ IteratesVector(n)
  <2>1. it.at \in 0 .. Present(n) /\ it.beyond = 0 /\ Present(n) \in 0 .. 4
    BY <1>3, MembersListed DEF IterOK
  <2>2. End(n) = [at |-> Present(n), beyond |-> 0]
    <3>1. kind[n] # "Function"
      BY <1>3 DEF IteratesVector, Class, Function, VectorOf
    <3>2. QED BY <1>3, <3>1 DEF End
  <2>3. it.at # Present(n)
    BY <1>0, <2>1, <2>2
  <2>4. it.at \in 0 .. Present(n) - 1 /\ it.at \in 0 .. 3
    BY <2>1, <2>3
  <2>5. it = AtPlace(it.at)
    BY <1>0, <2>1 DEF AtPlace
  <2>6. Deref(n, it) = GivenBy(n)[it.at]
    BY <2>4, <2>5 DEF GivenBy
  <2>7. next = [it EXCEPT !.at = @ + 1]
    BY <1>3 DEF Increment
  <2>8. next.at = it.at + 1 /\ next.beyond = 0 /\ next \in [at : Nat, beyond : Nat]
    BY <1>0, <2>1, <2>7
  <2> HIDE DEF next
  <2>9. IterOK(n, next)
    <3>1. next.at \in 0 .. Present(n)
      BY <2>1, <2>4, <2>8
    <3>2. QED BY <1>3, <2>8, <3>1 DEF IterOK
  <2>10. ASSUME NEW m, m \in PassedBy(n, next) PROVE m \in PassedBy(n, it) \/ m = Deref(n, it)
    <3>1. PICK p \in 0 .. next.at - 1 : m = GivenBy(n)[p]
      BY <1>3, <2>10 DEF PassedBy
    <3>2. p = it.at \/ p \in 0 .. it.at - 1
      BY <1>0, <2>8, <3>1
    <3>3. QED BY <1>3, <2>6, <3>1, <3>2 DEF PassedBy
  <2>11. QED BY <2>9, <2>10 DEF next
<1>4. QED BY <1>1, <1>2, <1>3

-----------------------------------------------------------------------------
(* The invariant of the visits. *)

\* A node has its owner as its parent, where the visitor tells it.
Told(o, m) == kind[o] # "Call" /\ kind[m] # "Call" => parent[m] = o

\* A visit came to all that is below c.
Done(c) == \A o \in Below({c}) : \A m \in NodesIn(child[o]) : Told(o, m)

\* A visit under way has been to all that its iterator gave.
FrameOK(f) ==
  /\ f.node \in Below({root})
  /\ IterOK(f.node, f.it)
  /\ \A m \in NodesIn(child[f.node]) : m \in PassedBy(f.node, f.it) => Told(f.node, m) /\ Done(m)

\* It is at the child that the next visit is to.
LeadsTo(f, g) ==
  f.it # End(f.node) /\ g.node = Deref(f.node, f.it) /\ Told(f.node, g.node)

Frames == [node : Live, it : [at : Nat, beyond : Nat]]

WalkOK(frames) ==
  /\ frames \in Seq(Frames)
  /\ frames # << >> => frames[1].node = root /\ outcome = "none"
  /\ \A k \in DOMAIN frames : FrameOK(frames[k])
  /\ \A k \in 1 .. Len(frames) - 1 : LeadsTo(frames[k], frames[k + 1])

OutcomeOK ==
  /\ outcome \in Outcomes /\ outcome # PastEnd
  /\ outcome = "linked" => Done(root)
  /\ RefusesOnlyMoved

WalkInv == root \in Nodes \cup {Null} /\ WalkOK(walk) /\ OutcomeOK

Inv == NodeInv /\ WalkInv

(* What does not depend on parents.                                        *)
LEMMA SameHeap ==
  ASSUME kind' = kind, child' = child
  PROVE  /\ Live' = Live /\ Frames' = Frames
         /\ \A n : IteratesVector(n)' <=> IteratesVector(n)
         /\ \A n : Length(n)' = Length(n)
         /\ \A n : End(n)' = End(n)
         /\ \A R : Below(R)' = Below(R)
<1>1. Live' = Live /\ Frames' = Frames
  BY DEF Live, Frames
<1>2. ASSUME NEW n PROVE IteratesVector(n)' <=> IteratesVector(n)
  BY DEF IteratesVector
<1>3. ASSUME NEW n PROVE Length(n)' = Length(n)
  BY DEF Length
<1>4. ASSUME NEW n PROVE End(n)' = End(n)
  BY DEF End, IteratesVector, Length, HasBody, Present, MembersOf
<1>5. ASSUME NEW R PROVE Below(R)' = Below(R)
  BY DEF Below
<1>6. QED BY <1>1, <1>2, <1>3, <1>4, <1>5

LEMMA SameIterators ==
  ASSUME kind' = kind, child' = child, NEW n, NEW it
  PROVE  /\ Deref(n, it)' = Deref(n, it)
         /\ IterOK(n, it)' <=> IterOK(n, it)
         /\ PassedBy(n, it)' = PassedBy(n, it)
<1>1. ASSUME NEW i PROVE Deref(n, i)' = Deref(n, i)
  BY DEF Deref, IteratesVector, Length, MembersOf
<1>2. IterOK(n, it)' <=> IterOK(n, it)
  <2>1. End(n)' = End(n) /\ Length(n)' = Length(n) /\ IteratesVector(n)' = IteratesVector(n)
    BY DEF End, IteratesVector, Length, HasBody, Present, MembersOf
  <2>2. Ended(n)' = Ended(n) /\ Present(n)' = Present(n)
    BY DEF Ended, Present, Length
  <2>3. QED BY <2>1, <2>2 DEF IterOK
<1>3. PassedBy(n, it)' = PassedBy(n, it)
  <2>1. GivenBy(n)' = GivenBy(n)
    BY <1>1 DEF GivenBy
  <2>2. /\ Length(n)' = Length(n) /\ IteratesVector(n)' = IteratesVector(n)
        /\ Ended(n)' = Ended(n) /\ MembersOf(n)' = MembersOf(n)
    BY DEF Ended, IteratesVector, Length, MembersOf
  <2>3. QED BY <2>1, <2>2 DEF PassedBy
<1>4. QED BY <1>1, <1>2, <1>3

(* The innermost visit.                                                    *)
LEMMA TopFacts ==
  ASSUME NodeInv, WalkInv, Running
  PROVE  /\ Len(walk) \in Nat /\ Len(walk) # 0 /\ DOMAIN walk = 1 .. Len(walk)
         /\ Len(walk) \in DOMAIN walk
         /\ Top \in Frames /\ Top.node \in Live /\ FrameOK(Top)
         /\ \A k \in DOMAIN walk : walk[k] \in Frames /\ walk[k].node \in Live
         /\ outcome = "none" /\ root = walk[1].node /\ root \in Live
<1>1. WalkOK(walk)
  BY DEF WalkInv
<1>2. walk \in Seq(Frames) /\ walk # << >>
  BY <1>1 DEF WalkOK, Running
<1>3. /\ Len(walk) \in Nat /\ Len(walk) # 0 /\ DOMAIN walk = 1 .. Len(walk)
      /\ \A k \in DOMAIN walk : walk[k] \in Frames
  BY <1>2
<1>4. \A f \in Frames : f.node \in Live
  BY DEF Frames
<1>5. Len(walk) \in DOMAIN walk /\ 1 \in DOMAIN walk
  BY <1>3
<1>6. outcome = "none" /\ root = walk[1].node
  BY <1>1, <1>2 DEF WalkOK
<1>7. Top \in Frames /\ FrameOK(Top)
  BY <1>1, <1>3, <1>5 DEF Top, WalkOK
<1>8. QED BY <1>3, <1>4, <1>5, <1>6, <1>7

(* Whom a visit tells to be parent: it is under way, and it is the         *)
(* innermost one unless that is to a Call.                                 *)
LEMMA StackFacts ==
  ASSUME NodeInv, WalkInv, Running
  PROVE  /\ StackTop \in Live \cup {Null}
         /\ kind[Top.node] # "Call" => StackTop = Top.node
<1> DEFINE pushed == {k \in DOMAIN walk : kind[walk[k].node] # "Call"}
           last == CHOOSE k \in pushed : \A l \in pushed : l <= k
<1>1. StackTop = IF pushed = {} THEN Null ELSE walk[last].node
  BY DEF StackTop
<1>2. /\ Len(walk) \in Nat /\ DOMAIN walk = 1 .. Len(walk) /\ Len(walk) \in DOMAIN walk
      /\ \A k \in DOMAIN walk : walk[k].node \in Live
  BY TopFacts
<1>3. pushed \in SUBSET (1 .. Len(walk))
  BY <1>2
<1>4. pushed # {} => last \in pushed /\ \A l \in pushed : l <= last
  <2> SUFFICES ASSUME pushed # {} PROVE \E k \in pushed : \A l \in pushed : l <= k
    OBVIOUS
  <2> HIDE DEF pushed
  <2>1. QED BY <1>2, <1>3, GreatestIndex
<1>5. StackTop \in Live \cup {Null}
  BY <1>1, <1>2, <1>4
<1>6. ASSUME kind[Top.node] # "Call" PROVE StackTop = Top.node
  <2>1. Len(walk) \in pushed
    BY <1>2, <1>6 DEF Top
  <2>2. last \in pushed /\ Len(walk) <= last
    BY <1>4, <2>1
  <2>3. last = Len(walk)
    <3>1. last \in 1 .. Len(walk) /\ Len(walk) \in Nat
      BY <1>2, <1>3, <2>2
    <3>2. QED BY <2>2, <3>1
  <2>4. QED BY <1>1, <2>1, <2>3 DEF Top
<1>7. QED BY <1>5, <1>6

(* What a visit has below it: itself, and what is below its children.      *)
LEMMA BelowChildren ==
  ASSUME NodeInv, NEW n \in Live, NEW o \in Below({n})
  PROVE  o = n \/ \E m \in NodesIn(child[n]) : o \in Below({m})
<1> DEFINE kid == KidsIn(child)
           S == {n} \cup UNION {Under(kid, {m}) : m \in kid[n]}
<1>1. /\ n \in Nodes /\ kid \in [Nodes -> SUBSET Nodes] /\ Forest(kid, Live, hand)
      /\ \A R : Below(R) = Under(kid, R)
      /\ kid[n] = NodesIn(child[n]) /\ kid[n] \in SUBSET Nodes
  BY HeapFacts
<1> HIDE DEF kid
<1>2. \A m \in kid[n] : /\ Under(kid, {m}) \in SUBSET Nodes /\ m \in Under(kid, {m})
                        /\ ClosedUnder(kid, Under(kid, {m}))
  <2> SUFFICES ASSUME NEW m \in kid[n]
               PROVE  /\ Under(kid, {m}) \in SUBSET Nodes /\ m \in Under(kid, {m})
                      /\ ClosedUnder(kid, Under(kid, {m}))
    OBVIOUS
  <2>1. {m} \in SUBSET Nodes
    BY <1>1
  <2>2. QED BY <1>1, <2>1, UnderFacts
<1>3. S \in SUBSET Nodes /\ {n} \subseteq S /\ {n} \in SUBSET Nodes
  BY <1>1, <1>2
<1>4. ClosedUnder(kid, S)
  BY <1>2 DEF ClosedUnder
<1> HIDE DEF S
<1>5. Under(kid, {n}) \subseteq S
  BY <1>1, <1>3, <1>4, UnderFacts
<1>6. QED BY <1>1, <1>5 DEF S

\* A child of what is below the root is below it, too.
LEMMA BelowRoot ==
  ASSUME NodeInv, NEW r \in Live, NEW n \in Below({r}), NEW m \in NodesIn(child[n])
  PROVE  m \in Below({r}) /\ n \in Nodes /\ m \in Live
<1> DEFINE kid == KidsIn(child)
<1>1. /\ r \in Nodes /\ kid \in [Nodes -> SUBSET Nodes]
      /\ \A R : Below(R) = Under(kid, R)
      /\ \A o \in Nodes : kid[o] = NodesIn(child[o]) /\ NodesIn(child[o]) \in SUBSET Live
  BY HeapFacts
<1> HIDE DEF kid
<1>2. {r} \in SUBSET Nodes
  BY <1>1
<1>3. Under(kid, {r}) \in SUBSET Nodes /\ ClosedUnder(kid, Under(kid, {r}))
  BY <1>1, <1>2, UnderFacts
<1>4. QED BY <1>1, <1>3 DEF ClosedUnder

-----------------------------------------------------------------------------
(* The steps of a visit. *)

(* The visitor tells a child its parent: below its owner, or a Call.       *)
LEMMA ToldInv ==
  ASSUME NodeInv, NEW n \in Live, NEW m \in NodesIn(child[n]), NEW p \in Live,
         kind[n] # "Call" => p = n,
         parent' = [parent EXCEPT ![m] = p],
         UNCHANGED <<kind, child, hand, stray, undefined, calls>>
  PROVE  /\ NodeInv'
         /\ \A o \in Nodes : \A c \in NodesIn(child[o]) : Told(o, c) => Told(o, c)'
         /\ Told(n, m)'
<1>1. /\ n \in Nodes /\ m \in Live /\ m \in Nodes /\ p \in Nodes
      /\ KidsIn(child) \in [Nodes -> SUBSET Nodes]
      /\ \A o \in Nodes : KidsIn(child)[o] = NodesIn(child[o])
      /\ Forest(KidsIn(child), Live, hand) /\ parent \in [Nodes -> Nodes \cup {Null}]
      /\ OwnersTold(kind, child, parent, stray) /\ Null \notin Nodes
  BY HeapFacts
<1>2. /\ parent' \in [Nodes -> Nodes \cup {Null}] /\ parent'[m] = p
      /\ \A c \in Nodes : c # m => parent'[c] = parent[c]
  BY <1>1
<1>3. kind[m] # Free
  BY <1>1 DEF Live
<1>4. HeapOK(kind, child, parent, hand, stray)
  BY DEF NodeInv
<1>5. HeapTypes(kind, child, parent') /\ AllFit(kind, child, parent')
  BY <1>2, <1>3, <1>4 DEF HeapOK, HeapTypes, AllFit
<1>6. OwnersTold(kind, child, parent', stray)
  <2> SUFFICES ASSUME NEW c \in Nodes, c \notin stray, kind[c] # Free, parent'[c] # Null
               PROVE  \/ c \in NodesIn(child[parent'[c]])
                      \/ \E o \in Nodes : kind[o] = "Call" /\ c \in NodesIn(child[o])
    BY DEF OwnersTold
  <2>1. CASE c = m
    BY <1>1, <1>2, <2>1
  <2>2. CASE c # m
    BY <1>1, <1>2, <2>2 DEF OwnersTold
  <2>3. QED BY <2>1, <2>2
<1>7. HeapOK(kind, child, parent', hand, stray)
  BY <1>4, <1>5, <1>6 DEF HeapOK
<1>8. NodeInv'
  BY <1>7 DEF NodeInv
<1>9. ASSUME NEW o \in Nodes, NEW c \in NodesIn(child[o]), Told(o, c) PROVE Told(o, c)'
  <2>1. CASE c = m
    <3>1. o = n
      BY <1>1, <2>1 DEF Forest
    <3>2. kind[o] # "Call" => parent'[c] = o
      BY <1>2, <2>1, <3>1
    <3>3. QED BY <3>2 DEF Told
  <2>2. CASE c # m
    <3>1. c \in Nodes
      BY <1>1, <1>9
    <3>2. parent'[c] = parent[c]
      BY <1>2, <2>2, <3>1
    <3>3. QED BY <1>9, <3>2 DEF Told
  <2>3. QED BY <2>1, <2>2
<1>10. Told(n, m)'
  BY <1>2 DEF Told
<1>11. QED BY <1>8, <1>9, <1>10

(* What was done stays done.                                               *)
LEMMA StillDone ==
  ASSUME NodeInv, kind' = kind, child' = child,
         \A o \in Nodes : \A c \in NodesIn(child[o]) : Told(o, c) => Told(o, c)'
  PROVE  \A m : Done(m) => Done(m)'
<1> SUFFICES ASSUME NEW m, Done(m) PROVE Done(m)'
  OBVIOUS
<1>1. Below({m})' = Below({m})
  BY SameHeap
<1>2. \A o \in Below({m}) : o \in Nodes
  BY DEF Below, BelowIn
<1>3. SUFFICES ASSUME NEW o \in Below({m}), NEW c \in NodesIn(child[o]) PROVE Told(o, c)'
  BY <1>1 DEF Done
<1>4. Told(o, c)
  BY DEF Done
<1>5. QED BY <1>2, <1>4

LEMMA StillFrames ==
  ASSUME NodeInv, kind' = kind, child' = child, root' = root,
         \A o \in Nodes : \A c \in NodesIn(child[o]) : Told(o, c) => Told(o, c)'
  PROVE  /\ \A f \in Frames : FrameOK(f) => FrameOK(f)'
         /\ \A f, g \in Frames : FrameOK(f) /\ LeadsTo(f, g) => LeadsTo(f, g)'
<1>1. Live \in SUBSET Nodes /\ \A m : Done(m) => Done(m)'
  BY HeapFacts, StillDone
<1>2. Below({root})' = Below({root})
  BY DEF Below
<1>3. ASSUME NEW f \in Frames, FrameOK(f) PROVE FrameOK(f)'
  <2> DEFINE n == f.node
             it == f.it
  <2>1. n \in Nodes
    BY <1>1 DEF Frames
  <2>2. IterOK(n, it)' /\ PassedBy(n, it)' = PassedBy(n, it)
    BY <1>3, SameIterators DEF FrameOK
  <2>3. n \in Below({root})'
    BY <1>2, <1>3 DEF FrameOK
  <2>4. ASSUME NEW m \in NodesIn(child[n]), m \in PassedBy(n, it) PROVE Told(n, m)' /\ Done(m)'
    <3>1. Told(n, m) /\ Done(m)
      BY <1>3, <2>4 DEF FrameOK
    <3>2. QED BY <1>1, <2>1, <3>1
  <2>5. QED BY <2>2, <2>3, <2>4 DEF FrameOK
<1>4. ASSUME NEW f \in Frames, NEW g \in Frames, FrameOK(f), LeadsTo(f, g) PROVE LeadsTo(f, g)'
  <2>1. /\ f.node \in Live /\ f.node \in Nodes /\ g.node \in Nodes
        /\ f.it # End(f.node) /\ g.node = Deref(f.node, f.it) /\ Told(f.node, g.node)
    BY <1>1, <1>4 DEF Frames, LeadsTo
  <2>2. End(f.node)' = End(f.node) /\ Deref(f.node, f.it)' = Deref(f.node, f.it)
    BY SameHeap, SameIterators
  <2>3. Told(f.node, g.node)'
    <3>1. IterOK(f.node, f.it)
      BY <1>4 DEF FrameOK
    <3>2. g.node \in NodesIn(child[f.node])
      BY <2>1, <3>1, DerefFacts, HeapAssumption
    <3>3. QED BY <2>1, <3>2
  <2>4. QED BY <2>1, <2>2, <2>3 DEF LeadsTo
<1>5. QED BY <1>3, <1>4

\* No parent was lost where it was told.
StaysTold == \A o \in Nodes : \A c \in NodesIn(child[o]) : Told(o, c) => Told(o, c)'

(* The visits under way, after a step that goes on.                        *)
LEMMA NewWalk ==
  ASSUME NEW w, walk' = w, w \in Seq(Frames'),
         w # << >> => w[1].node = root' /\ outcome' = "none",
         \A k \in DOMAIN w : FrameOK(w[k])',
         \A k \in 1 .. Len(w) - 1 : LeadsTo(w[k], w[k + 1])'
  PROVE  WalkOK(walk)'
<1>1. WalkOK(w)'
  BY DEF WalkOK
<1>2. QED BY <1>1

(* While it goes on there is no outcome.                                   *)
LEMMA NoOutcome ==
  ASSUME outcome' = "none" PROVE OutcomeOK'
BY DEF OutcomeOK, Outcomes, PastEnd, RefusesOnlyMoved

(* A step that ends a visit.                                               *)
LEMMA StopInv ==
  ASSUME WalkInv, root' = root, walk' = << >>, OutcomeOK' PROVE WalkInv'
<1>1. PICK w : w = << >>
  OBVIOUS
<1>2. w \in Seq(Frames') /\ DOMAIN w = {} /\ 1 .. Len(w) - 1 = {} /\ walk' = w
  BY <1>1
<1>3. WalkOK(walk)'
  BY <1>1, <1>2, NewWalk
<1>4. QED BY <1>3 DEF WalkInv

(* A step that leaves the nodes as they are.                               *)
LEMMA SameNodes ==
  ASSUME NodeInv, UNCHANGED nodeVars
  PROVE  NodeInv' /\ StaysTold /\ kind' = kind /\ child' = child
<1>1. /\ kind' = kind /\ child' = child /\ parent' = parent
      /\ hand' = hand /\ stray' = stray /\ undefined' = undefined /\ calls' = calls
  BY DEF nodeVars, heap
<1>2. NodeInv'
  BY <1>1 DEF NodeInv
<1>3. StaysTold
  BY <1>1 DEF StaysTold, Told
<1>4. QED BY <1>1, <1>2, <1>3

(* The visits around the innermost one stay as they were.                  *)
LEMMA WalkStays ==
  ASSUME NodeInv, WalkInv, kind' = kind, child' = child, root' = root, StaysTold
  PROVE  /\ \A k \in DOMAIN walk : \A f : walk[k] = f => FrameOK(f)'
         /\ \A k \in 1 .. Len(walk) - 1 : \A f, g :
              walk[k] = f /\ walk[k + 1] = g => LeadsTo(f, g)'
<1>1. WalkOK(walk)
  BY DEF WalkInv
<1>2. /\ walk \in Seq(Frames)
      /\ \A k \in DOMAIN walk : FrameOK(walk[k])
      /\ \A k \in 1 .. Len(walk) - 1 : LeadsTo(walk[k], walk[k + 1])
  BY <1>1 DEF WalkOK
<1>3. /\ \A k \in DOMAIN walk : walk[k] \in Frames
      /\ \A k \in 1 .. Len(walk) - 1 : k \in DOMAIN walk /\ k + 1 \in DOMAIN walk
  BY <1>2
<1>4. /\ \A f \in Frames : FrameOK(f) => FrameOK(f)'
      /\ \A f, g \in Frames : FrameOK(f) /\ LeadsTo(f, g) => LeadsTo(f, g)'
  BY StillFrames DEF StaysTold
<1>5. QED BY <1>2, <1>3, <1>4

(* The visitor comes to a child.                                           *)
LEMMA PushInv ==
  ASSUME NodeInv, WalkInv, Running, NEW c \in NodesIn(child[Top.node]),
         Top.it # End(Top.node), c = Deref(Top.node, Top.it),
         NodeInv', kind' = kind, child' = child, root' = root, outcome' = outcome,
         StaysTold, \A n : n = Top.node => Told(n, c)',
         walk' = Append(walk, [node |-> c, it |-> Begin(c)])
  PROVE  WalkInv'
<1>1. /\ Len(walk) \in Nat /\ Len(walk) # 0 /\ DOMAIN walk = 1 .. Len(walk)
      /\ Len(walk) \in DOMAIN walk
      /\ Top \in Frames /\ Top.node \in Live /\ FrameOK(Top)
      /\ outcome = "none" /\ root = walk[1].node /\ root \in Live
  BY TopFacts
<1>2. walk \in Seq(Frames) /\ root \in Nodes \cup {Null}
  BY DEF WalkInv, WalkOK
<1>3. c \in Live /\ c \in Below({root}) /\ Top.node \in Nodes
  BY <1>1, BelowRoot DEF FrameOK
<1>4. IterOK(c, Begin(c)) /\ PassedBy(c, Begin(c)) = {}
  BY <1>3, BeginFacts
<1>5. PICK b : b = Begin(c)
  OBVIOUS
<1>6. PICK g : g = [node |-> c, it |-> b]
  OBVIOUS
<1>7. g.node = c /\ g.it = b /\ b \in [at : Nat, beyond : Nat] /\ g \in Frames
  BY <1>3, <1>4, <1>5, <1>6 DEF IterOK, Frames
<1>8. FrameOK(g)'
  <2>1. IterOK(c, b)' /\ PassedBy(c, b)' = {}
    BY <1>4, <1>5, SameIterators
  <2>2. c \in Below({root})'
    BY <1>3 DEF Below
  <2>3. QED BY <1>7, <2>1, <2>2 DEF FrameOK
<1>9. PICK t : t = Top
  OBVIOUS
<1>10. LeadsTo(t, g)'
  <2>1. t.it # End(t.node)' /\ g.node = Deref(t.node, t.it)'
    BY <1>7, <1>9, SameHeap, SameIterators
  <2>2. Told(t.node, g.node)'
    BY <1>7, <1>9
  <2>3. QED BY <2>1, <2>2 DEF LeadsTo
<1>11. PICK w : w = Append(walk, g)
  OBVIOUS
<1>12. /\ w \in Seq(Frames) /\ Len(w) = Len(walk) + 1 /\ w # << >>
       /\ w[Len(walk) + 1] = g /\ \A k \in DOMAIN walk : w[k] = walk[k]
       /\ DOMAIN w = 1 .. Len(walk) + 1 /\ w[1] = walk[1]
  BY <1>1, <1>2, <1>7, <1>11
<1>13. /\ \A k \in DOMAIN walk : \A f : walk[k] = f => FrameOK(f)'
       /\ \A k \in 1 .. Len(walk) - 1 : \A f, h :
            walk[k] = f /\ walk[k + 1] = h => LeadsTo(f, h)'
  BY WalkStays
<1>14. ASSUME NEW k \in DOMAIN w PROVE FrameOK(w[k])'
  <2>1. CASE k \in DOMAIN walk
    BY <1>12, <1>13, <2>1
  <2>2. CASE k \notin DOMAIN walk
    <3>1. k = Len(walk) + 1
      BY <1>1, <1>12, <2>2
    <3>2. w[k] = g
      BY <1>12, <3>1
    <3>3. QED BY <1>8, <3>2
  <2>3. QED BY <2>1, <2>2
<1>15. ASSUME NEW k \in 1 .. Len(w) - 1 PROVE LeadsTo(w[k], w[k + 1])'
  <2>1. CASE k \in 1 .. Len(walk) - 1
    <3>1. k \in DOMAIN walk /\ k + 1 \in DOMAIN walk
      BY <1>1, <2>1
    <3>2. w[k] = walk[k] /\ w[k + 1] = walk[k + 1]
      BY <1>12, <3>1
    <3>3. QED BY <1>13, <2>1, <3>2
  <2>2. CASE k \notin 1 .. Len(walk) - 1
    <3>1. k = Len(walk)
      <4>1. k \in 1 .. (Len(walk) + 1) - 1
        BY <1>12
      <4>2. Len(walk) \in Nat
        BY <1>1
      <4>3. QED BY <2>2, <4>1, <4>2
    <3>2. w[k] = t /\ w[k + 1] = g
      BY <1>1, <1>9, <1>12, <3>1 DEF Top
    <3>3. QED BY <1>10, <3>2
  <2>3. QED BY <2>1, <2>2
<1>16. walk' = w /\ w \in Seq(Frames')
  BY <1>5, <1>6, <1>11, <1>12, SameHeap
<1>17. w[1].node = root' /\ outcome' = "none"
  BY <1>1, <1>12
<1>18. WalkOK(walk)'
  BY <1>14, <1>15, <1>16, <1>17, NewWalk
<1>19. QED BY <1>2, <1>17, <1>18, NoOutcome DEF WalkInv

(* It ends one that came to all that is below.                             *)
LEMMA TopDone ==
  ASSUME NodeInv, WalkInv, Running, Top.it = End(Top.node)
  PROVE  Done(Top.node)
<1> DEFINE n == Top.node
<1>1. n \in Live /\ FrameOK(Top)
  BY TopFacts
<1>2. NodesIn(child[n]) \subseteq PassedBy(n, Top.it)
  BY <1>1, EndFacts
<1>3. \A m \in NodesIn(child[n]) : Told(n, m) /\ Done(m)
  BY <1>1, <1>2 DEF FrameOK
<1>4. SUFFICES ASSUME NEW o \in Below({n}), NEW m \in NodesIn(child[o]) PROVE Told(o, m)
  BY DEF Done
<1>5. CASE o = n
  BY <1>3, <1>4, <1>5
<1>6. CASE o # n
  <2>1. PICK a \in NodesIn(child[n]) : o \in Below({a})
    BY <1>1, <1>4, <1>6, BelowChildren
  <2>2. Done(a)
    BY <1>3, <2>1
  <2>3. QED BY <1>4, <2>1, <2>2 DEF Done
<1>7. QED BY <1>5, <1>6

(* The loop around it goes on.                                             *)
LEMMA PopInv ==
  ASSUME NodeInv, WalkInv, Running, Top.it = End(Top.node), Len(walk) # 1,
         UNCHANGED <<nodeVars, root, outcome>>,
         walk' = [Front(walk) EXCEPT ![Len(walk) - 1].it =
                    Increment(walk[Len(walk) - 1].node, @)]
  PROVE  WalkInv'
<1>1. /\ Len(walk) \in Nat /\ Len(walk) # 0 /\ DOMAIN walk = 1 .. Len(walk)
      /\ outcome = "none" /\ root = walk[1].node /\ root \in Live
  BY TopFacts
<1>2. PICK last : last = Len(walk) - 1
  OBVIOUS
<1>3. last \in 1 .. Len(walk) - 1 /\ last \in DOMAIN walk /\ last + 1 = Len(walk)
      /\ 1 \in DOMAIN walk
  BY <1>1, <1>2
<1>4. /\ walk \in Seq(Frames)
      /\ \A k \in DOMAIN walk : FrameOK(walk[k])
      /\ LeadsTo(walk[last], walk[last + 1])
      /\ root \in Nodes \cup {Null}
  BY <1>3 DEF WalkInv, WalkOK
<1>5. PICK f : f = walk[last]
  OBVIOUS
<1>6. f \in Frames /\ f.node \in Live /\ FrameOK(f) /\ LeadsTo(f, Top)
  <2>1. Top = walk[last + 1] /\ FrameOK(f) /\ LeadsTo(f, Top)
    BY <1>3, <1>4, <1>5 DEF Top
  <2>2. f \in Frames
    BY <1>3, <1>4, <1>5
  <2>3. f.node \in Live
    BY <2>2 DEF Frames
  <2>4. QED BY <2>1, <2>2, <2>3
<1>7. PICK next : next = Increment(f.node, f.it)
  OBVIOUS
<1>8. PICK h : h = [f EXCEPT !.it = next]
  OBVIOUS
<1>9. IterOK(f.node, f.it) /\ f.it # End(f.node) /\ f.node \in Below({root})
      /\ \A m \in NodesIn(child[f.node]) : m \in PassedBy(f.node, f.it) => Told(f.node, m) /\ Done(m)
      /\ Top.node = Deref(f.node, f.it) /\ Told(f.node, Top.node)
  BY <1>6 DEF FrameOK, LeadsTo
<1>10. IterOK(f.node, next) /\ GoesOn(f.node, f.it, next)
  BY <1>6, <1>7, <1>9, IncrementFacts
<1>11. h \in Frames /\ h.node = f.node /\ h.it = next
  BY <1>6, <1>8, <1>10 DEF Frames, IterOK
<1>12. FrameOK(h)
  <2>1. Done(Top.node)
    BY TopDone
  <2>2. ASSUME NEW n, n = f.node, NEW m \in NodesIn(child[n]), m \in PassedBy(n, next)
        PROVE  Told(n, m) /\ Done(m)
    <3>1. PICK i : i = f.it
      OBVIOUS
    <3>2. GoesOn(n, i, next) /\ Top.node = Deref(n, i) /\ Told(n, Top.node)
      <4>1. GoesOn(n, i, next)
        BY <1>10, <2>2, <3>1
      <4>2. LeadsTo(f, Top)
        BY <1>6
      <4>3. Top.node = Deref(n, i) /\ Told(n, Top.node)
        BY <2>2, <3>1, <4>2 DEF LeadsTo
      <4>4. QED BY <4>1, <4>3
    <3>3. \A a \in NodesIn(child[n]) : a \in PassedBy(n, i) => Told(n, a) /\ Done(a)
      BY <1>9, <2>2, <3>1
    <3>4. m \in PassedBy(n, i) \/ m = Deref(n, i)
      BY <2>2, <3>2 DEF GoesOn
    <3>5. QED BY <2>1, <2>2, <3>2, <3>3, <3>4
  <2>3. h.node = f.node /\ h.it = next /\ f.node \in Below({root}) /\ IterOK(f.node, next)
    BY <1>9, <1>10, <1>11
  <2>4. QED BY <2>2, <2>3 DEF FrameOK
<1>13. /\ NodeInv' /\ StaysTold /\ kind' = kind /\ child' = child
  BY SameNodes
<1>14. FrameOK(h)'
  BY <1>11, <1>12, <1>13, StillFrames DEF StaysTold
<1>15. PICK w : w = [Front(walk) EXCEPT ![last].it = next]
  OBVIOUS
<1>16. walk' = w
  <2>1. last \in DOMAIN Front(walk) /\ Front(walk)[last] = f
    BY <1>1, <1>3, <1>4, <1>5 DEF Front
  <2>2. QED BY <1>2, <1>5, <1>7, <1>15, <2>1
<1>17. /\ w \in Seq(Frames) /\ DOMAIN w = 1 .. last /\ Len(w) = last
       /\ w[last] = h /\ \A k \in 1 .. last - 1 : w[k] = walk[k]
  <2>1. Front(walk) \in Seq(Frames) /\ Len(Front(walk)) = last
        /\ \A k \in 1 .. last : Front(walk)[k] = walk[k]
    BY <1>1, <1>2, <1>3, <1>4 DEF Front
  <2>2. w = [Front(walk) EXCEPT ![last] = h]
    <3>1. Front(walk)[last] = f
      BY <1>3, <1>5, <2>1
    <3>2. QED BY <1>8, <1>15, <3>1
  <2>3. last \in Nat /\ last \in 1 .. last
    BY <1>3
  <2>4. QED BY <1>11, <2>1, <2>2, <2>3
<1>18. /\ \A k \in DOMAIN walk : \A g : walk[k] = g => FrameOK(g)'
       /\ \A k \in 1 .. Len(walk) - 1 : \A g, i :
            walk[k] = g /\ walk[k + 1] = i => LeadsTo(g, i)'
  BY <1>13, WalkStays
<1>19. ASSUME NEW k \in DOMAIN w PROVE FrameOK(w[k])'
  <2>1. CASE k = last
    <3>1. w[k] = h
      BY <1>17, <2>1
    <3>2. QED BY <1>14, <3>1
  <2>2. CASE k # last
    <3>1. k \in 1 .. last - 1 /\ k \in DOMAIN walk
      BY <1>1, <1>3, <1>17, <2>2
    <3>2. w[k] = walk[k]
      BY <1>17, <3>1
    <3>3. QED BY <1>18, <3>1, <3>2
  <2>3. QED BY <2>1, <2>2
<1>20. ASSUME NEW k \in 1 .. Len(w) - 1 PROVE LeadsTo(w[k], w[k + 1])'
  <2>1. k \in 1 .. last - 1 /\ k \in 1 .. Len(walk) - 1
    BY <1>1, <1>3, <1>17
  <2>2. w[k] = walk[k]
    BY <1>17, <2>1
  <2>3. CASE k + 1 = last
    <3>1. LeadsTo(w[k], f)'
      BY <1>5, <1>18, <2>1, <2>2, <2>3
    <3>2. w[k + 1] = h
      BY <1>17, <2>3
    <3>3. QED BY <1>11, <3>1, <3>2 DEF LeadsTo
  <2>4. CASE k + 1 # last
    <3>1. k + 1 \in 1 .. last - 1
      BY <1>3, <2>1, <2>4
    <3>2. w[k + 1] = walk[k + 1]
      BY <1>17, <3>1
    <3>3. QED BY <1>18, <2>1, <2>2, <3>2
  <2>5. QED BY <2>3, <2>4
<1>21. w[1].node = root' /\ outcome' = "none" /\ w \in Seq(Frames')
  <2>1. w[1].node = root
    <3>1. CASE last = 1
      BY <1>1, <1>5, <1>11, <1>17, <3>1
    <3>2. CASE last # 1
      <4>1. 1 \in 1 .. last - 1
        BY <1>3, <3>2
      <4>2. QED BY <1>1, <1>17, <4>1
    <3>3. QED BY <3>1, <3>2
  <2>2. QED BY <1>1, <1>13, <1>17, <2>1, SameHeap
<1>22. WalkOK(walk)'
  BY <1>16, <1>19, <1>20, <1>21, NewWalk
<1>23. QED BY <1>4, <1>21, <1>22, NoOutcome DEF WalkInv

(* A parent that does not match is the visitor's, of a node that was moved *)
(* or is below a Call.                                                     *)
LEMMA Mismatch ==
  ASSUME NodeInv, WalkInv, Running, NEW c \in NodesIn(child[Top.node]),
         parent[c] \notin {Null, StackTop}
  PROVE  \E m \in Below({root}) : m \in stray \/ kind[m] = "Call"
<1>1. Top.node \in Live /\ FrameOK(Top) /\ root \in Live
  BY TopFacts
<1>2. Top.node \in Below({root})
  BY <1>1 DEF FrameOK
<1>3. c \in Below({root}) /\ c \in Live /\ Top.node \in Nodes
  BY <1>1, <1>2, BelowRoot
<1>4. CASE kind[Top.node] = "Call"
  BY <1>2, <1>4
<1>5. CASE kind[Top.node] # "Call"
  <2>1. StackTop = Top.node
    BY <1>5, StackFacts
  <2>2. /\ KidsIn(child) \in [Nodes -> SUBSET Nodes] /\ Live \in SUBSET Nodes
        /\ \A m \in Nodes : KidsIn(child)[m] = NodesIn(child[m])
        /\ Forest(KidsIn(child), Live, hand) /\ parent \in [Nodes -> Nodes \cup {Null}]
        /\ OwnersTold(kind, child, parent, stray)
    BY HeapFacts
  <2>3. \A o \in Nodes : c \in NodesIn(child[o]) => o = Top.node
    BY <1>3, <2>2 DEF Forest
  <2>4. c \in Nodes /\ kind[c] # Free /\ parent[c] \in Nodes
    BY <1>3, <2>2 DEF Live
  <2>5. c \in stray
    BY <1>5, <2>1, <2>2, <2>3, <2>4 DEF OwnersTold
  <2>6. QED BY <1>3, <2>5
<1>6. QED BY <1>4, <1>5

(* What the visitor does at a child.                                       *)
LEMMA VisitInv ==
  ASSUME Inv, VisitChild PROVE Inv'
<1>0. NodeInv /\ WalkInv /\ Running
  BY DEF Inv, VisitChild
<1>1. /\ Top.node \in Live /\ FrameOK(Top) /\ root \in Live /\ outcome = "none"
      /\ Top.it # End(Top.node)
  BY <1>0, TopFacts DEF VisitChild
<1>2. PICK c : c = Deref(Top.node, Top.it)
  OBVIOUS
<1>3. /\ IF c \in Nodes THEN Visit(c) ELSE Fails(c)
      /\ kind' = kind /\ child' = child /\ hand' = hand /\ stray' = stray
      /\ undefined' = undefined /\ calls' = calls /\ root' = root
  BY <1>2 DEF VisitChild
<1>4. Null \notin Nodes /\ Live \in SUBSET Nodes
      /\ Top.node \in Nodes /\ NodesIn(child[Top.node]) \subseteq Live
  BY <1>0, <1>1, HeapFacts
<1>5. Below({root})' = Below({root})
  BY <1>3 DEF Below
<1>6. Top.node \in Below({root}) /\ IterOK(Top.node, Top.it)
  BY <1>1 DEF FrameOK
<1>7. \/ c \in NodesIn(child[Top.node])
      \/ /\ c = Null /\ IteratesVector(Top.node)
         /\ Length(Top.node) > 0 /\ child[Top.node][1] = Null
  BY <1>0, <1>1, <1>2, <1>6, DerefFacts
<1>8. CASE c \notin NodesIn(child[Top.node])
  <2>1. /\ c = Null /\ c \notin Nodes /\ IteratesVector(Top.node)
        /\ Length(Top.node) > 0 /\ child[Top.node][1] = Null
    BY <1>4, <1>7, <1>8
  <2>2. walk' = << >> /\ outcome' = "null" /\ parent' = parent
    BY <1>3, <2>1 DEF Fails, Stops
  <2>3. UNCHANGED nodeVars
    BY <1>3, <2>2 DEF nodeVars, heap
  <2>4. NodeInv'
    BY <1>0, <2>3, SameNodes
  <2>5. PICK n : n = Top.node
    OBVIOUS
  <2>6. IteratesVector(n)' /\ Length(n)' > 0 /\ child'[n][1] = Null
    BY <1>3, <2>1, <2>5, SameHeap
  <2>7. n \in Below({root})'
    BY <1>5, <1>6, <2>5
  <2>8. RefusesOnlyMoved'
    BY <2>2, <2>6, <2>7 DEF RefusesOnlyMoved
  <2>9. OutcomeOK'
    BY <2>2, <2>8 DEF OutcomeOK, Outcomes, PastEnd
  <2>10. WalkInv'
    BY <1>0, <1>3, <2>2, <2>9, StopInv
  <2>11. QED BY <2>4, <2>10 DEF Inv
<1>9. CASE c \in NodesIn(child[Top.node])
  <2>1. c \in Live /\ c \in Nodes
    BY <1>4, <1>9
  <2>2. Visit(c)
    BY <1>3, <2>1
  <2> DEFINE told == kind[c] # "Call" /\ StackTop # Null
  <2>3. CASE told /\ parent[c] \notin {Null, StackTop}
    <3>1. walk' = << >> /\ outcome' = "mismatch" /\ parent' = parent
      BY <2>2, <2>3 DEF Visit, Stops
    <3>2. UNCHANGED nodeVars
      BY <1>3, <3>1 DEF nodeVars, heap
    <3>3. NodeInv'
      BY <1>0, <3>2, SameNodes
    <3>4. \E m \in Below({root}) : m \in stray \/ kind[m] = "Call"
      BY <1>0, <1>9, <2>3, Mismatch
    <3>5. RefusesOnlyMoved'
      BY <1>3, <1>5, <3>1, <3>4 DEF RefusesOnlyMoved
    <3>6. OutcomeOK'
      BY <3>1, <3>5 DEF OutcomeOK, Outcomes, PastEnd
    <3>7. WalkInv'
      BY <1>0, <1>3, <3>1, <3>6, StopInv
    <3>8. QED BY <3>3, <3>7 DEF Inv
  <2>4. CASE ~ (told /\ parent[c] \notin {Null, StackTop})
    <3>1. /\ parent' = IF told THEN [parent EXCEPT ![c] = StackTop] ELSE parent
          /\ walk' = Append(walk, [node |-> c, it |-> Begin(c)]) /\ outcome' = outcome
      BY <2>2, <2>4 DEF Visit, Goes
    <3>2. /\ StackTop \in Live \cup {Null}
          /\ kind[Top.node] # "Call" => StackTop = Top.node
      BY <1>0, StackFacts
    <3>3. PICK n : n = Top.node
      OBVIOUS
    <3>4. NodeInv' /\ StaysTold /\ Told(n, c)'
      <4>1. CASE told
        <5>1. PICK p : p = StackTop
          OBVIOUS
        <5>2. /\ p \in Live /\ (kind[n] # "Call" => p = n)
              /\ parent' = [parent EXCEPT ![c] = p]
          BY <3>1, <3>2, <3>3, <4>1, <5>1
        <5>3. QED BY <1>0, <1>1, <1>3, <1>9, <3>3, <5>2, ToldInv DEF StaysTold
      <4>2. CASE ~ told
        <5>1. UNCHANGED nodeVars
          BY <1>3, <3>1, <4>2 DEF nodeVars, heap
        <5>2. NodeInv' /\ StaysTold
          BY <1>0, <5>1, SameNodes
        <5>3. kind'[n] = "Call" \/ kind'[c] = "Call"
          BY <1>3, <1>4, <3>2, <3>3, <4>2
        <5>4. QED BY <5>2, <5>3 DEF Told
      <4>3. QED BY <4>1, <4>2
    <3>5. WalkInv'
      BY <1>0, <1>1, <1>2, <1>3, <1>9, <3>1, <3>3, <3>4, PushInv
    <3>6. QED BY <3>4, <3>5 DEF Inv
  <2>5. QED BY <2>3, <2>4
<1>10. QED BY <1>8, <1>9

(* What it does when a node has no more children.                          *)
LEMMA LeaveInv ==
  ASSUME Inv, Leave PROVE Inv'
<1>1. /\ NodeInv /\ WalkInv /\ Running /\ Top.it = End(Top.node)
      /\ UNCHANGED nodeVars /\ root' = root
  BY DEF Inv, Leave
<1>2. NodeInv' /\ StaysTold /\ kind' = kind /\ child' = child
  BY <1>1, SameNodes
<1>3. CASE Len(walk) = 1
  <2>1. walk' = << >> /\ outcome' = "linked"
    BY <1>3 DEF Leave, Stops
  <2>2. PICK r : r = root
    OBVIOUS
  <2>3. Top.node = r
    BY <1>1, <1>3, <2>2, TopFacts DEF Top
  <2>4. Done(r)
    BY <1>1, <2>3, TopDone
  <2>5. Done(r)'
    BY <1>1, <1>2, <2>4, StillDone DEF StaysTold
  <2>6. Done(root)'
    BY <1>1, <2>2, <2>5
  <2>7. OutcomeOK'
    BY <2>1, <2>6 DEF OutcomeOK, Outcomes, PastEnd, RefusesOnlyMoved
  <2>8. WalkInv'
    BY <1>1, <2>1, <2>7, StopInv
  <2>9. QED BY <1>2, <2>8 DEF Inv
<1>4. CASE Len(walk) # 1
  <2>1. /\ outcome' = outcome
        /\ walk' = [Front(walk) EXCEPT ![Len(walk) - 1].it =
                      Increment(walk[Len(walk) - 1].node, @)]
    BY <1>4 DEF Leave, Goes
  <2>2. WalkInv'
    BY <1>1, <1>4, <2>1, PopInv
  <2>3. QED BY <1>2, <2>2 DEF Inv
<1>5. QED BY <1>3, <1>4

(* How a visit begins.                                                     *)
LEMMA AcceptInv ==
  ASSUME Inv, NEW n \in Live, Accept(n) PROVE Inv'
<1>1. /\ NodeInv /\ WalkInv /\ UNCHANGED <<heap, undefined>>
      /\ walk' = <<[node |-> n, it |-> Begin(n)]>> /\ root' = n /\ outcome' = "none"
      /\ calls < MaxCalls /\ calls' = calls + 1
  BY DEF Inv, Accept, Called
<1>2. calls' \in 0 .. MaxCalls
  <2>1. calls \in 0 .. MaxCalls /\ MaxCalls \in Nat
    BY <1>1, HeapAssumption DEF NodeInv
  <2>2. QED BY <1>1, <2>1
<1>3. /\ kind' = kind /\ child' = child /\ parent' = parent
      /\ hand' = hand /\ stray' = stray /\ undefined' = undefined
  BY <1>1 DEF heap
<1>4. NodeInv'
  BY <1>1, <1>2, <1>3 DEF NodeInv
<1>5. IterOK(n, Begin(n)) /\ PassedBy(n, Begin(n)) = {}
  BY <1>1, BeginFacts
<1>6. PICK b : b = Begin(n)
  OBVIOUS
<1>7. PICK f : f = [node |-> n, it |-> b]
  OBVIOUS
<1>8. f.node = n /\ f.it = b /\ f \in Frames
  BY <1>5, <1>6, <1>7 DEF IterOK, Frames
<1>9. FrameOK(f)'
  <2>1. IterOK(n, b)' /\ PassedBy(n, b)' = {}
    BY <1>3, <1>5, <1>6, SameIterators
  <2>2. n \in Below({n})
    <3>1. /\ n \in Nodes /\ KidsIn(child) \in [Nodes -> SUBSET Nodes]
          /\ \A R : Below(R) = Under(KidsIn(child), R)
      BY <1>1, HeapFacts
    <3>2. {n} \in SUBSET Nodes
      BY <3>1
    <3>3. {n} \subseteq Under(KidsIn(child), {n})
      BY <3>1, <3>2, UnderFacts
    <3>4. QED BY <3>1, <3>3
  <2>3. n \in Below({root})'
    BY <1>1, <1>3, <2>2 DEF Below
  <2>4. QED BY <1>8, <2>1, <2>3 DEF FrameOK
<1>10. PICK w : w = <<f>>
  OBVIOUS
<1>11. /\ w \in Seq(Frames) /\ DOMAIN w = {1} /\ w[1] = f
       /\ 1 .. Len(w) - 1 = {} /\ walk' = w
  BY <1>1, <1>6, <1>7, <1>8, <1>10
<1>12. w \in Seq(Frames') /\ w[1].node = root'
  BY <1>1, <1>3, <1>8, <1>11, SameHeap
<1>13. \A k \in DOMAIN w : FrameOK(w[k])'
  BY <1>9, <1>11
<1>14. WalkOK(walk)'
  BY <1>1, <1>11, <1>12, <1>13, NewWalk
<1>15. n \in Nodes
  BY <1>1, HeapFacts
<1>16. QED BY <1>1, <1>4, <1>14, <1>15, NoOutcome DEF Inv, WalkInv

(* A call on the nodes, while no visit is under way.                       *)
LEMMA CallInv ==
  ASSUME Inv, CallNode PROVE Inv'
<1>1. /\ NodeInv /\ WalkInv /\ NodeNext /\ walk = << >>
      /\ walk' = walk /\ root' = root /\ outcome' = "none"
  BY DEF Inv, CallNode, Running
<1>2. NodeInv'
  BY <1>1, NodeStep
<1>3. WalkInv'
  BY <1>1, NoOutcome, StopInv
<1>4. QED BY <1>2, <1>3 DEF Inv

-----------------------------------------------------------------------------
(* The theorems. *)

(* Inv is inductive, so it always holds.                                   *)
LEMMA AlwaysInv == Spec => []Inv
<1>1. Init => Inv
  <2> SUFFICES ASSUME Init PROVE Inv
    OBVIOUS
  <2>1. NodeInit /\ walk = << >> /\ root = Null /\ outcome = "none"
    BY DEF Init
  <2>2. NodeInv
    BY <2>1, InitInv
  <2>3. WalkOK(walk)
    BY <2>1 DEF WalkOK
  <2>4. OutcomeOK
    BY <2>1 DEF OutcomeOK, Outcomes, PastEnd, RefusesOnlyMoved
  <2>5. QED BY <2>1, <2>2, <2>3, <2>4 DEF Inv, WalkInv
<1>2. Inv /\ [Next]_vars => Inv'
  <2> SUFFICES ASSUME Inv, [Next]_vars PROVE Inv'
    OBVIOUS
  <2>1. CASE CallNode
    BY <2>1, CallInv
  <2>2. CASE \E n \in Live : Accept(n)
    BY <2>2, AcceptInv
  <2>3. CASE VisitChild
    BY <2>3, VisitInv
  <2>4. CASE Leave
    BY <2>4, LeaveInv
  <2>5. CASE UNCHANGED vars
    <3>1. UNCHANGED nodeVars /\ walk' = walk /\ root' = root /\ outcome' = outcome
      BY <2>5 DEF vars
    <3>2. /\ kind' = kind /\ child' = child /\ parent' = parent
          /\ hand' = hand /\ stray' = stray /\ undefined' = undefined /\ calls' = calls
      BY <3>1 DEF nodeVars, heap
    <3>3. NodeInv /\ WalkInv
      BY DEF Inv
    <3>4. NodeInv' /\ StaysTold
      BY <3>1, <3>3, SameNodes
    <3>5. /\ \A k \in DOMAIN walk : \A f : walk[k] = f => FrameOK(f)'
          /\ \A k \in 1 .. Len(walk) - 1 : \A f, g :
               walk[k] = f /\ walk[k + 1] = g => LeadsTo(f, g)'
      BY <3>1, <3>2, <3>3, <3>4, WalkStays
    <3>6. PICK w : w = walk
      OBVIOUS
    <3>7. walk \in Seq(Frames) /\ (walk # << >> => walk[1].node = root /\ outcome = "none")
      BY <3>3 DEF WalkInv, WalkOK
    <3>8. /\ walk' = w /\ w \in Seq(Frames')
          /\ w # << >> => w[1].node = root' /\ outcome' = "none"
      BY <3>1, <3>2, <3>6, <3>7, SameHeap
    <3>9. /\ \A k \in DOMAIN w : FrameOK(w[k])'
          /\ \A k \in 1 .. Len(w) - 1 : LeadsTo(w[k], w[k + 1])'
      BY <3>5, <3>6
    <3>10. WalkOK(walk)'
      BY <3>8, <3>9, NewWalk
    <3>11. OutcomeOK'
      <4>1. OutcomeOK
        BY <3>3 DEF WalkInv
      <4>2. RefusesOnlyMoved'
        BY <3>1, <3>2, <4>1
           DEF OutcomeOK, RefusesOnlyMoved, Below, IteratesVector, Length
      <4>3. outcome = "linked" => Done(root)'
        <5>1. PICK r : r = root
          OBVIOUS
        <5>2. Done(r) => Done(r)'
          BY <3>2, <3>3, <3>4, StillDone DEF StaysTold
        <5>3. QED BY <3>1, <4>1, <5>1, <5>2 DEF OutcomeOK
      <4>4. QED BY <3>1, <4>1, <4>2, <4>3 DEF OutcomeOK
    <3>12. QED BY <3>1, <3>3, <3>4, <3>10, <3>11 DEF Inv, WalkInv
  <2>6. QED BY <2>1, <2>2, <2>3, <2>4, <2>5 DEF Next
<1>3. QED BY <1>1, <1>2, PTL DEF Spec

(* What Inv says of the nodes a visit is to.                               *)
LEMMA InvTypeOK == Inv => TypeOK
<1> SUFFICES ASSUME Inv PROVE TypeOK
  OBVIOUS
<1>1. NodeInv /\ WalkInv /\ NodesOK
  BY InvNodesOK DEF Inv
<1>2. root \in Nodes \cup {Null} /\ WalkOK(walk) /\ outcome \in Outcomes
  BY <1>1 DEF WalkInv, OutcomeOK
<1>3. /\ walk \in Seq(Frames)
      /\ walk # << >> => walk[1].node = root /\ outcome = "none"
      /\ \A k \in DOMAIN walk : FrameOK(walk[k])
      /\ \A k \in 1 .. Len(walk) - 1 : LeadsTo(walk[k], walk[k + 1])
  BY <1>2 DEF WalkOK
<1>4. \A k \in DOMAIN walk : walk[k].node \in Live
  <2>1. \A f \in Frames : f.node \in Live
    BY DEF Frames
  <2>2. \A k \in DOMAIN walk : walk[k] \in Frames
    BY <1>3
  <2>3. QED BY <2>1, <2>2
<1>5. ASSUME NEW k \in 2 .. Len(walk)
      PROVE  walk[k].node \in NodesIn(child[walk[k - 1].node])
  <2>1. PICK i : i = k - 1
    OBVIOUS
  <2>2. i \in 1 .. Len(walk) - 1 /\ i \in DOMAIN walk /\ k \in DOMAIN walk /\ k = i + 1
    BY <1>3, <2>1
  <2>3. PICK f, g : f = walk[i] /\ g = walk[k]
    OBVIOUS
  <2>4. FrameOK(f) /\ LeadsTo(f, g) /\ f.node \in Live /\ g.node \in Live
    BY <1>3, <1>4, <2>2, <2>3
  <2>5. IterOK(f.node, f.it) /\ f.it # End(f.node) /\ g.node = Deref(f.node, f.it)
    BY <2>4 DEF FrameOK, LeadsTo
  <2>6. g.node # Null
    BY <1>1, <2>4, HeapFacts
  <2>7. g.node \in NodesIn(child[f.node])
    BY <1>1, <2>4, <2>5, <2>6, DerefFacts
  <2>8. QED BY <2>1, <2>3, <2>7
<1>6. QED BY <1>1, <1>2, <1>3, <1>4, <1>5 DEF TypeOK, Running

(* And of what became of it.                                               *)
LEMMA InvLinksAll == Inv => LinksAll
<1> SUFFICES ASSUME Inv PROVE LinksAll
  OBVIOUS
<1>1. outcome # PastEnd /\ (outcome = "linked" => Done(root))
  BY DEF Inv, WalkInv, OutcomeOK
<1>2. QED BY <1>1 DEF LinksAll, Done, Told

(* Whatever calls a client makes and whatever visits it runs: every heap   *)
(* is well-typed, and the visits under way (ParentSettingVisitor.cpp) lead *)
(* from the root down, each to a child of the one before.                  *)
THEOREM VisitsAreDown == Spec => []TypeOK
<1>1. Inv => TypeOK
  BY InvTypeOK
<1>2. QED BY <1>1, AlwaysInv, PTL

(* Every live node has one owner and one place in it, during visits, too:  *)
(* the rule of the std::unique_ptr members that no code here checks.       *)
THEOREM OwnedOnce == Spec => []SoleOwner
<1>1. Inv => SoleOwner
  BY InvSoleOwner DEF Inv
<1>2. QED BY <1>1, AlwaysInv, PTL

(* No parent pointer dangles (AbstractNode.h), but those of nodes that     *)
(* were moved or belong to a Call.                                         *)
THEOREM NoDanglingParents == Spec => []ParentIsOwner
<1>1. Inv => ParentIsOwner
  BY InvParentIsOwner DEF Inv
<1>2. QED BY <1>1, AlwaysInv, PTL

(* A visit that ends well has told every node below the root its owner,    *)
(* and no iterator of any class runs beyond the end: whatever children are *)
(* null, and however long the vectors are.                                 *)
THEOREM VisitsLinkAll == Spec => []LinksAll
<1>1. Inv => LinksAll
  BY InvLinksAll
<1>2. QED BY <1>1, AlwaysInv, PTL

(* A visit is refused only where a node was moved or is a Call, and is     *)
(* undefined only where a vector has a null pointer in front.              *)
THEOREM RefusalsExplained == Spec => []RefusesOnlyMoved
<1>1. Inv => RefusesOnlyMoved
  BY DEF Inv, WalkInv, OutcomeOK
<1>2. QED BY <1>1, AlwaysInv, PTL
=============================================================================
