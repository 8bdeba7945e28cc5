---------------------------- MODULE Nary_proofs ----------------------------
(***************************************************************************)
(* Proofs about the nary pass, for any number of slots and any programs    *)
(* and, where it says so, any arithmetic in which a sum may be inlined     *)
(* into a sum.                                                             *)
(***************************************************************************)
EXTENDS Nary, HIRLemmas, StructureLemmas

(* The invariant. *)

\* The block numbers its operations and lists each of them once.
BlockOK ==
  /\ block \in Seq(Position)
  /\ DOMAIN ops = {<<m, 0>> : m \in 1 .. Len(block)}
  /\ \A x \in DOMAIN ops : \E k \in DOMAIN block : block[k] = x
  /\ \A k, m \in DOMAIN block : block[k] = block[m] => k = m
  /\ \A k \in DOMAIN block : block[k] \in DOMAIN ops

\* Operations of the other kinds have the operands they compute from.
OpsOK ==
  \A x \in DOMAIN ops :
    /\ ops[x] \in Op
    /\ ops[x].kind \notin Arithmetic \cup {"arg", "constant"} => 1 \in DOMAIN ops[x].args
    /\ ops[x].kind \in {"insert", "combine"} => 2 \in DOMAIN ops[x].args

\* What an operation uses comes before it.
OperandsBefore ==
  \A k \in DOMAIN block : \A j \in DOMAIN ops[block[k]].args :
    \E m \in 1 .. k - 1 : block[m] = ops[block[k]].args[j]

PendingOK ==
  pending # {} => InBlock /\ Collapsing /\ ops[Cur].kind = phase /\ pending \subseteq UsesOf(Cur)

\* Each value is one that the program has, and those returned are its.
SemOK ==
  /\ src \in Source
  /\ DOMAIN sem = DOMAIN ops
  /\ \A x \in DOMAIN sem : \E y \in DOMAIN src.sem : sem[x] = src.sem[y]
  /\ ValuesReturned(ops, sem) = ValuesReturned(src.ops, src.sem)

\* The place of the phases in their order.
Turn(p) == CHOOSE k \in DOMAIN Phases : Phases[k] = p

\* The loop about operations of this kind is beyond place k of the block.
Passed(k, kind) ==
  kind \in Arithmetic /\ (Turn(kind) < Turn(phase) \/ (kind = phase /\ k < at))

\* Use j that x makes of what is at place k was visited.
VisitedUse(x, j, k) ==
  \/ Passed(k, ops[block[k]].kind)
  \/ pending # {} /\ k = at /\ <<x, j>> \notin pending

\* Who had an operand of its own kind when it was visited is not used.
VisitedUnused ==
  \A x \in DOMAIN ops : \A j \in DOMAIN ops[x].args : \A k \in DOMAIN block :
    /\ block[k] = ops[x].args[j]
    /\ ops[block[k]].kind = ops[x].kind
    /\ VisitedUse(x, j, k)
    => Users(ops, x) = {}

\* What is still to be visited is listed once by who is of its kind.
RepeatsPassed ==
  \A x \in DOMAIN ops : \A i, j \in DOMAIN ops[x].args : \A k \in DOMAIN block :
    /\ Becomes(ops[x].kind) \in {"add", "multiply"}
    /\ Becomes(ops[x].kind) = Becomes(ops[block[k]].kind)
    /\ i # j /\ ops[x].args[i] = block[k] /\ ops[x].args[j] = block[k]
    => Passed(k, Becomes(ops[x].kind))

NoDifferenceNested ==
  \A x \in DOMAIN ops : \A j \in DOMAIN ops[x].args :
    Becomes(ops[x].kind) = "sub" => Becomes(ops[ops[x].args[j]].kind) # "sub"

Meaning ==
  ~RepeatsOperand(src) /\ ~NestsDifference(src) =>
    RepeatsPassed /\ NoDifferenceNested /\ Consistent(ops, sem)

\* The inductive invariant of what the block is.
BInv ==
  /\ phase \in Range(Phases)
  /\ at \in 1 .. Len(block) + 1
  /\ BlockOK
  /\ OpsOK
  /\ OperandsBefore
  /\ PendingOK
  /\ SemOK
  /\ VisitedUnused

\* And the one of what it computes.
IInv == BInv /\ Meaning

-----------------------------------------------------------------------------
LEMMA PhaseFacts ==
  /\ Turn("subi") = 1 /\ Turn("muli") = 2 /\ Turn("add") = 3
  /\ Turn("sub") = 4 /\ Turn("multiply") = 5 /\ Turn("done") = 6
  /\ NextPhase("subi") = "muli" /\ NextPhase("muli") = "add" /\ NextPhase("add") = "sub"
  /\ NextPhase("sub") = "multiply" /\ NextPhase("multiply") = "done"
  /\ Range(Phases) = {"subi", "muli", "add", "sub", "multiply", "done"}
<1>1. /\ DOMAIN Phases = {1, 2, 3, 4, 5, 6}
      /\ Phases[1] = "subi" /\ Phases[2] = "muli" /\ Phases[3] = "add"
      /\ Phases[4] = "sub" /\ Phases[5] = "multiply" /\ Phases[6] = "done"
  BY DEF Phases
<1> HIDE DEF Phases
<1>2. /\ Turn("subi") = 1 /\ Turn("muli") = 2 /\ Turn("add") = 3
      /\ Turn("sub") = 4 /\ Turn("multiply") = 5 /\ Turn("done") = 6
  BY <1>1 DEF Turn
<1>3. \A p : NextPhase(p) = Phases[1 + Turn(p)]
  BY DEF NextPhase, Turn
<1>4. Range(Phases) = {"subi", "muli", "add", "sub", "multiply", "done"}
  BY <1>1 DEF Range
<1>5. QED BY <1>1, <1>2, <1>3, <1>4

(* The place after an insertion at place p + 1 of what was at place m.     *)
Shifted(p, m) == IF m <= p THEN m ELSE m + 1

IsInserted(t, s, p, e) ==
  /\ Len(t) = Len(s) + 1
  /\ p + 1 \in DOMAIN t /\ t[p + 1] = e
  /\ \A m \in DOMAIN s : Shifted(p, m) \in DOMAIN t /\ t[Shifted(p, m)] = s[m]
  /\ \A k \in DOMAIN t : k = p + 1 \/ \E m \in DOMAIN s : k = Shifted(p, m)

LEMMA InsertFacts ==
  ASSUME NEW S, NEW s \in Seq(S), NEW p \in DOMAIN s, NEW e \in S
  PROVE  InsertAt(s, p + 1, e) \in Seq(S) /\ IsInserted(InsertAt(s, p + 1, e), s, p, e)
<1> DEFINE n == Len(s)
           a == SubSeq(s, 1, p)
           b == <<e>>
           c == SubSeq(s, p + 1, n)
           t == InsertAt(s, p + 1, e)
<1>1. n \in Nat /\ DOMAIN s = 1 .. n /\ p \in 1 .. n
  OBVIOUS
<1>2. t = a \o b \o c
  <2>1. (p + 1) - 1 = p
    BY <1>1
  <2>2. QED BY <2>1 DEF InsertAt
<1>3. a \in Seq(S) /\ Len(a) = p /\ \A i \in 1 .. p : a[i] = s[i]
  BY <1>1, SubSeqProperties
<1>4. c \in Seq(S) /\ Len(c) = n - p /\ \A i \in 1 .. n - p : c[i] = s[p + i]
  BY <1>1, SubSeqProperties
<1>5. b \in Seq(S) /\ Len(b) = 1 /\ b[1] = e
  OBVIOUS
<1> HIDE DEF a, b, c, n, t
<1>6. /\ t \in Seq(S) /\ Len(t) = n + 1
      /\ \A k \in 1 .. n + 1 : t[k] = IF k <= p THEN s[k] ELSE IF k = p + 1 THEN e ELSE s[k - 1]
  <2> DEFINE d == a \o b
  <2>1. d \in Seq(S) /\ Len(d) = p + 1 /\ \A k \in 1 .. p + 1 : d[k] = IF k <= p THEN a[k] ELSE b[k - p]
    <3>1. d \in Seq(S) /\ Len(d) = Len(a) + Len(b)
      BY <1>3, <1>5, ConcatProperties
    <3>2. \A k \in 1 .. Len(a) + Len(b) : d[k] = IF k <= Len(a) THEN a[k] ELSE b[k - Len(a)]
      BY <1>3, <1>5, ConcatProperties
    <3> HIDE DEF d
    <3>3. Len(a) = p /\ Len(b) = 1
      BY <1>3, <1>5
    <3>4. QED BY <3>1, <3>2, <3>3
  <2> HIDE DEF d
  <2>2. t = d \o c
    BY <1>2 DEF d
  <2>3. /\ t \in Seq(S) /\ Len(t) = (p + 1) + (n - p)
        /\ \A k \in 1 .. Len(d) + Len(c) : t[k] = IF k <= Len(d) THEN d[k] ELSE c[k - Len(d)]
    <3>1. t \in Seq(S) /\ Len(t) = Len(d) + Len(c)
      BY <2>1, <2>2, <1>4, ConcatProperties
    <3>2. \A k \in 1 .. Len(d) + Len(c) : t[k] = IF k <= Len(d) THEN d[k] ELSE c[k - Len(d)]
      BY <2>1, <2>2, <1>4, ConcatProperties
    <3>3. QED BY <1>4, <2>1, <3>1, <3>2
  <2>4. Len(t) = n + 1 /\ Len(d) + Len(c) = n + 1
    BY <1>1, <1>4, <2>1, <2>3
  <2>5. ASSUME NEW k \in 1 .. n + 1
        PROVE  t[k] = IF k <= p THEN s[k] ELSE IF k = p + 1 THEN e ELSE s[k - 1]
    <3>1. CASE k <= p
      BY <1>1, <1>3, <2>1, <2>3, <2>4, <3>1
    <3>2. CASE k = p + 1
      <4>1. t[k] = d[k] /\ d[k] = b[k - p] /\ k - p = 1
        BY <1>1, <2>1, <2>3, <2>4, <3>2
      <4>2. QED BY <1>1, <1>5, <3>2, <4>1
    <3>3. CASE k > p + 1
      <4>1. t[k] = c[k - (p + 1)] /\ k - (p + 1) \in 1 .. n - p
        BY <1>1, <2>1, <2>3, <2>4, <3>3
      <4>2. p + (k - (p + 1)) = k - 1
        BY <1>1
      <4>3. t[k] = s[k - 1]
        BY <1>4, <4>1, <4>2
      <4>4. ~ k <= p /\ k # p + 1
        BY <1>1, <3>3
      <4>5. QED BY <4>3, <4>4
    <3>4. QED BY <1>1, <3>1, <3>2, <3>3
  <2>6. QED BY <2>3, <2>4, <2>5
<1>7. DOMAIN t = 1 .. n + 1 /\ p + 1 \in DOMAIN t /\ t[p + 1] = e
  BY <1>1, <1>6
<1>8. ASSUME NEW m \in DOMAIN s PROVE Shifted(p, m) \in DOMAIN t /\ t[Shifted(p, m)] = s[m]
  <2>1. CASE m <= p
    BY <1>1, <1>6, <1>7, <2>1 DEF Shifted
  <2>2. CASE ~ m <= p
    <3>1. Shifted(p, m) = m + 1 /\ m + 1 \in 1 .. n + 1 /\ ~ m + 1 <= p /\ m + 1 # p + 1
          /\ (m + 1) - 1 = m
      BY <1>1, <2>2 DEF Shifted
    <3>2. QED BY <1>6, <1>7, <3>1
  <2>3. QED BY <2>1, <2>2
<1>9. ASSUME NEW k \in DOMAIN t, k # p + 1 PROVE \E m \in DOMAIN s : k = Shifted(p, m)
  <2>1. k \in 1 .. n + 1
    BY <1>7
  <2>2. CASE k <= p
    BY <1>1, <2>1, <2>2 DEF Shifted
  <2>3. CASE ~ k <= p
    <3>1. k - 1 \in DOMAIN s /\ ~ k - 1 <= p /\ k = (k - 1) + 1
      BY <1>1, <1>9, <2>1, <2>3
    <3>2. QED BY <3>1 DEF Shifted
  <2>4. QED BY <2>2, <2>3
<1>10. QED BY <1>6, <1>7, <1>8, <1>9 DEF n, t, IsInserted

(* What is inserted changes the order of nothing.                          *)
LEMMA ShiftedFacts ==
  ASSUME NEW p \in Nat, NEW m \in Nat, NEW k \in Nat
  PROVE  /\ Shifted(p, m) \in Nat /\ Shifted(p, m) # p + 1
         /\ m < k => Shifted(p, m) < Shifted(p, k)
         /\ m <= p <=> Shifted(p, m) = m
         /\ Shifted(p, m) <= p <=> m <= p
         /\ m < p => Shifted(p, m) < p + 1
         /\ p < m => p + 1 < Shifted(p, m)
BY DEF Shifted

LEMMA PlacesCounted ==
  ASSUME NEW n \in Nat
  PROVE  Cardinality({<<m, 0>> : m \in 1 .. n}) = n /\ IsFiniteSet({<<m, 0>> : m \in 1 .. n})
<1> DEFINE P == {<<m, 0>> : m \in 1 .. n}
           f == [m \in 1 .. n |-> <<m, 0>>]
<1>1. f \in Bijection(1 .. n, P)
  BY DEF Bijection, Injection, Surjection, IsInjective
<1>2. IsFiniteSet(1 .. n) /\ Cardinality(1 .. n) = n
  BY FS_Interval
<1>3. ExistsBijection(1 .. n, P)
  BY <1>1 DEF ExistsBijection
<1> HIDE DEF P
<1>4. IsFiniteSet(P) /\ Cardinality(P) = n
  BY <1>2, <1>3, FS_Bijection
<1>5. QED BY <1>4 DEF P

-----------------------------------------------------------------------------
(* What the invariant says of the block and its operations.                *)
LEMMA BlockFacts ==
  ASSUME BInv
  PROVE  /\ Len(block) \in Nat /\ DOMAIN block = 1 .. Len(block) /\ at \in Nat
         /\ phase \in {"subi", "muli", "add", "sub", "multiply", "done"}
         /\ InBlock => at \in DOMAIN block /\ Cur \in DOMAIN ops
<1>1. Len(block) \in Nat /\ DOMAIN block = 1 .. Len(block)
  BY DEF BInv, BlockOK
<1>2. at \in 1 .. Len(block) + 1
  BY DEF BInv
<1>3. at \in Nat /\ (at <= Len(block) => at \in DOMAIN block)
  BY <1>1, <1>2
<1>4. \A k \in DOMAIN block : block[k] \in DOMAIN ops
  BY DEF BInv, BlockOK
<1>5. phase \in {"subi", "muli", "add", "sub", "multiply", "done"}
  BY PhaseFacts DEF BInv
<1>6. QED BY <1>1, <1>3, <1>4, <1>5 DEF InBlock, Cur

LEMMA OpFacts ==
  ASSUME BInv, NEW x \in DOMAIN ops
  PROVE  /\ x \in Position /\ ops[x] \in Op /\ ops[x].kind \in Kinds
         /\ ops[x].args \in Seq(Position)
         /\ Len(ops[x].args) \in Nat /\ DOMAIN ops[x].args = 1 .. Len(ops[x].args)
         /\ x \in DOMAIN sem
<1>1. ops[x] \in Op /\ x \in DOMAIN sem
  BY DEF BInv, OpsOK, SemOK
<1>2. ops[x].args \in Seq(Position) /\ ops[x].kind \in Kinds
  BY <1>1 DEF Op
<1>3. x \in Position
  <2>1. PICK k \in DOMAIN block : block[k] = x
    BY DEF BInv, BlockOK
  <2>2. block \in Seq(Position)
    BY DEF BInv, BlockOK
  <2>3. QED BY <2>1, <2>2
<1> DEFINE s == ops[x].args
<1>4. s \in Seq(Position)
  BY <1>2
<1> HIDE DEF s
<1>5. Len(s) \in Nat /\ DOMAIN s = 1 .. Len(s)
  BY <1>4
<1>6. QED BY <1>1, <1>2, <1>3, <1>5 DEF s

(* Each operation has its place, and what it uses has one before it.       *)
LEMMA PlaceFacts ==
  ASSUME BInv, NEW x \in DOMAIN ops
  PROVE  /\ PlaceOf(x) \in DOMAIN block /\ PlaceOf(x) \in Nat /\ block[PlaceOf(x)] = x
         /\ \A k \in DOMAIN block : block[k] = x => k = PlaceOf(x)
<1>1. \E k \in DOMAIN block : block[k] = x
  BY DEF BInv, BlockOK
<1>2. PlaceOf(x) \in DOMAIN block /\ block[PlaceOf(x)] = x
  BY <1>1 DEF PlaceOf
<1>3. \A k \in DOMAIN block : block[k] = x => k = PlaceOf(x)
  BY <1>2 DEF BInv, BlockOK
<1>4. PlaceOf(x) \in Nat
  BY <1>2, BlockFacts
<1>5. QED BY <1>2, <1>3, <1>4

LEMMA OperandFacts ==
  ASSUME BInv, NEW x \in DOMAIN ops, NEW j \in DOMAIN ops[x].args
  PROVE  /\ ops[x].args[j] \in DOMAIN ops
         /\ PlaceOf(ops[x].args[j]) < PlaceOf(x)
<1> DEFINE k == PlaceOf(x)
           y == ops[x].args[j]
<1>1. k \in DOMAIN block /\ block[k] = x /\ k \in Nat /\ DOMAIN block = 1 .. Len(block)
      /\ Len(block) \in Nat
  BY PlaceFacts, BlockFacts
<1> HIDE DEF k
<1>2. PICK m \in 1 .. k - 1 : block[m] = y
  <2>1. j \in DOMAIN ops[block[k]].args
    BY <1>1
  <2>2. \E m \in 1 .. k - 1 : block[m] = ops[block[k]].args[j]
    BY <1>1, <2>1 DEF BInv, OperandsBefore
  <2>3. QED BY <1>1, <2>2
<1> HIDE DEF y
<1>3. m \in DOMAIN block /\ m < k /\ m \in Nat
  BY <1>1, <1>2
<1>4. y \in DOMAIN ops
  BY <1>2, <1>3 DEF BInv, BlockOK
<1>5. PlaceOf(y) = m
  BY <1>2, <1>3, <1>4, PlaceFacts
<1>6. QED BY <1>3, <1>4, <1>5 DEF k, y

(* A use that is visited is one by an operation of the same kind.          *)
LEMMA PendingFacts ==
  ASSUME BInv, NEW use \in pending
  PROVE  /\ InBlock /\ Collapsing /\ at \in DOMAIN block /\ Cur \in DOMAIN ops
         /\ ops[Cur].kind = phase /\ phase \in Arithmetic
         /\ use[1] \in DOMAIN ops /\ use[2] \in DOMAIN ops[use[1]].args
         /\ use = <<use[1], use[2]>>
         /\ ops[use[1]].args[use[2]] = Cur
         /\ PlaceOf(Cur) = at /\ at < PlaceOf(use[1])
         /\ use[1] \in Users(ops, Cur)
<1>1. InBlock /\ Collapsing /\ ops[Cur].kind = phase /\ use \in UsesOf(Cur)
  BY DEF BInv, PendingOK
<1>2. at \in DOMAIN block /\ Cur \in DOMAIN ops
  BY <1>1, BlockFacts
<1>3. PICK u \in DOMAIN ops : use \in {<<u, k>> : k \in {m \in DOMAIN ops[u].args : ops[u].args[m] = Cur}}
  BY <1>1 DEF UsesOf
<1>4. PICK k \in DOMAIN ops[u].args : use = <<u, k>> /\ ops[u].args[k] = Cur
  BY <1>3
<1>5. PlaceOf(Cur) = at
  BY <1>2, PlaceFacts DEF Cur
<1>6. PlaceOf(Cur) < PlaceOf(u)
  BY <1>4, OperandFacts
<1>7. QED BY <1>1, <1>2, <1>4, <1>5, <1>6 DEF Collapsing, Users

(* Where the operands of a new operation come from: those of the user that *)
(* are kept, and those of the operation that is inlined.                   *)
KeptBy(u) == {k \in DOMAIN ops[u].args : ops[u].args[k] # Cur}

LEMMA InlinedFacts ==
  ASSUME BInv, NEW u \in DOMAIN ops, Cur \in DOMAIN ops,
         NEW K, K = KeptBy(u), NEW l, l = Inlined(ops[u], Cur)
  PROVE  /\ l \in Seq(Position) /\ Cardinality(K) \in Nat
         /\ Len(l) = Cardinality(K) + Len(ops[Cur].args)
         /\ DOMAIN l = 1 .. Len(l) /\ Len(l) \in Nat
         /\ \A j \in DOMAIN l : j <= Cardinality(K) =>
              /\ j \in 1 .. Cardinality(K)
              /\ Nth(K, j) \in DOMAIN ops[u].args
              /\ l[j] = ops[u].args[Nth(K, j)] /\ l[j] # Cur
         /\ \A j \in DOMAIN l : ~ j <= Cardinality(K) =>
              /\ j - Cardinality(K) \in DOMAIN ops[Cur].args
              /\ l[j] = ops[Cur].args[j - Cardinality(K)]
         /\ \A i, j \in 1 .. Cardinality(K) : Nth(K, i) = Nth(K, j) => i = j
<1> DEFINE s == ops[u].args
           t == ops[Cur].args
           c == Cardinality(K)
           p == Picked(s, K)
<1>1. s \in Seq(Position) /\ t \in Seq(Position) /\ K = {k \in DOMAIN s : s[k] # Cur}
      /\ l = p \o t
  BY OpFacts DEF KeptBy, Inlined
<1> HIDE DEF s, t
<1>2. K \in SUBSET DOMAIN s
  BY <1>1
<1>3. /\ p \in Seq(Position) /\ Len(p) = c /\ c \in Nat
      /\ \A m \in DOMAIN p : Nth(K, m) \in K /\ p[m] = s[Nth(K, m)]
      /\ DOMAIN p = 1 .. c
  <2>1. s \in Seq(Position)
    BY <1>1
  <2>2. p \in Seq(Position) /\ Len(p) = c /\ c \in Nat /\ DOMAIN p = 1 .. c
    BY <2>1, <1>2, PickedFacts
  <2>3. \A m \in DOMAIN p : Nth(K, m) \in K /\ p[m] = s[Nth(K, m)]
    BY <2>1, <1>2, PickedFacts
  <2>4. QED BY <2>2, <2>3
<1> HIDE DEF p, c
<1>4. l \in Seq(Position) /\ Len(l) = c + Len(t)
  <2>1. p \in Seq(Position) /\ t \in Seq(Position) /\ Len(p) = c /\ l = p \o t
    BY <1>1, <1>3
  <2>2. p \o t \in Seq(Position) /\ Len(p \o t) = Len(p) + Len(t)
    BY <2>1, ConcatProperties
  <2>3. QED BY <2>1, <2>2
<1>5. \A j \in 1 .. c + Len(t) : l[j] = IF j <= c THEN p[j] ELSE t[j - c]
  <2>1. p \in Seq(Position) /\ t \in Seq(Position) /\ Len(p) = c /\ l = p \o t
    BY <1>1, <1>3
  <2>2. \A j \in 1 .. Len(p) + Len(t) :
          (p \o t)[j] = IF j <= Len(p) THEN p[j] ELSE t[j - Len(p)]
    BY <2>1, ConcatProperties
  <2>3. QED BY <2>1, <2>2
<1>6. Len(t) \in Nat /\ DOMAIN t = 1 .. Len(t) /\ DOMAIN l = 1 .. c + Len(t)
  BY <1>1, <1>4
<1>7. ASSUME NEW j \in DOMAIN l, j <= c
      PROVE  j \in 1 .. c /\ Nth(K, j) \in DOMAIN s /\ l[j] = s[Nth(K, j)] /\ l[j] # Cur
  <2>1. j \in 1 .. c /\ l[j] = p[j]
    BY <1>3, <1>5, <1>6, <1>7
  <2>2. Nth(K, j) \in K /\ p[j] = s[Nth(K, j)]
    BY <1>3, <2>1
  <2>3. QED BY <1>1, <2>1, <2>2
<1>8. ASSUME NEW j \in DOMAIN l, ~ j <= c
      PROVE  j - c \in DOMAIN t /\ l[j] = t[j - c]
  BY <1>3, <1>5, <1>6, <1>8
<1>9. ASSUME NEW i \in 1 .. c, NEW j \in 1 .. c, Nth(K, i) = Nth(K, j) PROVE i = j
  <2>1. Len(s) \in Nat /\ K \in SUBSET (1 .. Len(s))
    BY <1>1, <1>2
  <2>2. Rank(K, Nth(K, i)) = i /\ Rank(K, Nth(K, j)) = j
    BY <2>1, NthFacts DEF c
  <2>3. QED BY <1>9, <2>2
<1>10. QED BY <1>3, <1>4, <1>6, <1>7, <1>8, <1>9 DEF c, s, t

(* The step that inlines an operation into one of its users.               *)
New(u) == [ops[u] EXCEPT !.args = Inlined(ops[u], Cur)]

Collapsed(u) ==
  /\ u \in DOMAIN ops /\ ops[u].kind = phase /\ u # Cur
  /\ Fresh \notin DOMAIN ops /\ Fresh \in Position
  /\ Fresh = <<Len(block) + 1, 0>>
  /\ DOMAIN ops' = DOMAIN ops \cup {Fresh} /\ ops'[Fresh] = New(u)
  /\ ops'[Fresh].args = Inlined(ops[u], Cur) /\ ops'[Fresh].kind = phase
  /\ ops'[Fresh] \in Op
  /\ \A y \in DOMAIN ops :
       /\ ops'[y] \in Op
       /\ ops'[y].kind = ops[y].kind /\ ops'[y].type = ops[y].type
       /\ ops'[y].i = ops[y].i /\ ops'[y].val = ops[y].val /\ ops'[y].slots = ops[y].slots
       /\ DOMAIN ops'[y].args = DOMAIN ops[y].args
       /\ \A j \in DOMAIN ops[y].args :
            ops'[y].args[j] = IF ops[y].args[j] = u THEN Fresh ELSE ops[y].args[j]
  /\ DOMAIN sem' = DOMAIN ops' /\ sem'[Fresh] = sem[u]
  /\ \A y \in DOMAIN ops : sem'[y] = sem[y]
  /\ block' = InsertAt(block, PlaceOf(u) + 1, Fresh)
  /\ src' = src /\ phase' = phase

LEMMA CollapseFacts ==
  ASSUME BInv, NEW use \in pending, CollapseUse(use), NEW u, u = use[1]
  PROVE  Collapsed(u) /\ Visited(use)
<1>1. /\ InBlock /\ at \in DOMAIN block /\ Cur \in DOMAIN ops
      /\ u \in DOMAIN ops /\ PlaceOf(Cur) = at /\ at < PlaceOf(u) /\ at \in Nat
  BY PendingFacts, BlockFacts
<1>2. u # Cur
  BY <1>1
<1>3. /\ ops[u].kind = phase
      /\ ops' = Placed(ReplaceAllUses(ops, u, Fresh), Fresh, New(u))
      /\ sem' = Placed(sem, Fresh, sem[u])
      /\ block' = PlacedAfter(u, Fresh)
      /\ src' = src /\ phase' = phase /\ Visited(use)
  BY DEF CollapseUse, New
<1>4. Fresh = <<Len(block) + 1, 0>> /\ Fresh \in Position /\ Fresh \notin DOMAIN ops
  <2>1. Len(block) \in Nat
    BY BlockFacts
  <2>2. DOMAIN ops = {<<m, 0>> : m \in 1 .. Len(block)}
    BY DEF BInv, BlockOK
  <2>3. QED BY <2>1, <2>2 DEF Fresh, Position
<1>5. Inlined(ops[u], Cur) \in Seq(Position)
  BY <1>1, InlinedFacts
<1>6. /\ New(u) \in Op /\ New(u).args = Inlined(ops[u], Cur) /\ New(u).kind = phase
  BY <1>1, <1>3, <1>5, OpFacts DEF New, Op
<1> HIDE DEF Fresh
<1>7. /\ DOMAIN ops' = DOMAIN ops \cup {Fresh} /\ ops'[Fresh] = New(u)
      /\ \A y \in DOMAIN ops : ops'[y] = ReplaceOperand(ops[y], u, Fresh)
  BY <1>3, <1>4 DEF Placed, ReplaceAllUses
<1>8. ASSUME NEW y \in DOMAIN ops
      PROVE  /\ ops'[y] \in Op
             /\ ops'[y].kind = ops[y].kind /\ ops'[y].type = ops[y].type
             /\ ops'[y].i = ops[y].i /\ ops'[y].val = ops[y].val /\ ops'[y].slots = ops[y].slots
             /\ DOMAIN ops'[y].args = DOMAIN ops[y].args
             /\ \A j \in DOMAIN ops[y].args :
                  ops'[y].args[j] = IF ops[y].args[j] = u THEN Fresh ELSE ops[y].args[j]
  BY <1>4, <1>7, OpFacts, ReplaceOperandFacts
<1>9. /\ DOMAIN sem' = DOMAIN ops' /\ sem'[Fresh] = sem[u]
      /\ \A y \in DOMAIN ops : sem'[y] = sem[y]
  <2>1. DOMAIN sem = DOMAIN ops
    BY DEF BInv, SemOK
  <2>2. QED BY <1>3, <1>4, <1>7, <2>1 DEF Placed
<1>10. QED BY <1>1, <1>2, <1>3, <1>4, <1>6, <1>7, <1>8, <1>9 DEF Collapsed, PlacedAfter

-----------------------------------------------------------------------------
(* The invariant holds of the programs the pass is given.                  *)
LEMMA NothingPassed ==
  ASSUME phase \in {"subi", "muli"}, NEW k, NEW kind PROVE ~ Passed(k, kind)
<1>1. Turn(phase) \in {1, 2} /\ phase \notin Arithmetic
  BY PhaseFacts DEF Arithmetic
<1>2. kind \in Arithmetic => Turn(kind) \in {3, 4, 5}
  BY PhaseFacts DEF Arithmetic
<1>3. QED BY <1>1, <1>2 DEF Passed

LEMMA InitInv == Init => BInv /\ Meaning
<1> SUFFICES ASSUME Init PROVE BInv /\ Meaning
  OBVIOUS
<1> DEFINE n == Cardinality(DOMAIN ops)
<1>1. /\ src \in Source /\ ops = src.ops /\ sem = src.sem /\ IsProgram(src)
      /\ phase = "subi" /\ at = 1 /\ pending = {}
      /\ block = [m \in 1 .. n |-> <<m, 0>>]
  BY SourceAssumption DEF Init, Phases
<1>2. n \in Nat /\ DOMAIN ops = {<<m, 0>> : m \in 1 .. n}
  BY <1>1, BlockAssumption, FS_CardinalityType
<1> HIDE DEF n
<1>3. /\ block \in Seq(Position) /\ Len(block) = n /\ DOMAIN block = 1 .. n
      /\ \A k \in 1 .. n : block[k] = <<k, 0>>
  <2>1. \A k \in 1 .. n : <<k, 0>> \in Position
    BY <1>2 DEF Position
  <2>2. QED BY <1>1, <1>2, <2>1
<1>4. phase \in Range(Phases) /\ at \in 1 .. Len(block) + 1
  BY <1>1, <1>2, <1>3, PhaseFacts
<1>5. BlockOK
  <2>1. \A k, m \in 1 .. n : <<k, 0>> = <<m, 0>> => k = m
    OBVIOUS
  <2>2. \A k, m \in DOMAIN block : block[k] = block[m] => k = m
    BY <1>3, <2>1
  <2>3. \A x \in DOMAIN ops : \E k \in DOMAIN block : block[k] = x
    BY <1>2, <1>3
  <2>4. \A k \in DOMAIN block : block[k] \in DOMAIN ops
    BY <1>2, <1>3
  <2>5. QED BY <1>2, <1>3, <2>2, <2>3, <2>4 DEF BlockOK
<1>6. OpsOK
  <2> SUFFICES ASSUME NEW x \in DOMAIN ops
               PROVE  /\ ops[x] \in Op
                      /\ ops[x].kind \notin Arithmetic \cup {"arg", "constant"} =>
                           1 \in DOMAIN ops[x].args
                      /\ ops[x].kind \in {"insert", "combine"} => 2 \in DOMAIN ops[x].args
    BY DEF OpsOK
  <2>1. ops[x] \in Op /\ WellTyped(ops, ops[x])
    BY <1>1 DEF IsProgram
  <2>2. ops[x].kind \in Kinds
    BY <2>1 DEF Op
  <2>3. /\ ops[x].kind \in {"extract", "rotate", "relinearize", "return"} => DOMAIN ops[x].args = {1}
        /\ ops[x].kind \in PlainArithmetic \cup {"insert", "combine"} => DOMAIN ops[x].args = {1, 2}
    BY <2>1, Arity
  <2>4. QED BY <2>1, <2>2, <2>3 DEF Kinds
<1>7. OperandsBefore
  <2> SUFFICES ASSUME NEW k \in DOMAIN block, NEW j \in DOMAIN ops[block[k]].args
               PROVE  \E m \in 1 .. k - 1 : block[m] = ops[block[k]].args[j]
    BY DEF OperandsBefore
  <2> DEFINE y == ops[block[k]].args[j]
  <2>1. block[k] = <<k, 0>> /\ k \in 1 .. n /\ block[k] \in DOMAIN ops
    BY <1>2, <1>3
  <2>2. y \in DOMAIN ops /\ Before(y, block[k])
    BY <1>1, <2>1 DEF IsProgram, DefinedBeforeUse
  <2> HIDE DEF y
  <2>3. PICK m \in 1 .. n : y = <<m, 0>>
    BY <1>2, <2>2
  <2>4. m < k
    BY <1>2, <2>1, <2>2, <2>3 DEF Before
  <2>5. m \in 1 .. k - 1 /\ block[m] = y
    BY <1>2, <1>3, <2>1, <2>3, <2>4
  <2>6. QED BY <2>5 DEF y
<1>8. PendingOK
  BY <1>1 DEF PendingOK
<1>9. SemOK
  BY <1>1 DEF SemOK, IsProgram
<1>10. VisitedUnused
  BY <1>1, NothingPassed DEF VisitedUnused, VisitedUse
<1>11. Meaning
  <2> SUFFICES ASSUME ~RepeatsOperand(src), ~NestsDifference(src)
               PROVE  RepeatsPassed /\ NoDifferenceNested /\ Consistent(ops, sem)
    BY DEF Meaning
  <2>1. RepeatsPassed
    <3> SUFFICES ASSUME NEW x \in DOMAIN ops, NEW i \in DOMAIN ops[x].args,
                        NEW j \in DOMAIN ops[x].args, NEW k \in DOMAIN block,
                        Becomes(ops[x].kind) \in {"add", "multiply"},
                        Becomes(ops[x].kind) = Becomes(ops[block[k]].kind),
                        i # j, ops[x].args[i] = block[k], ops[x].args[j] = block[k]
                 PROVE  FALSE
      BY DEF RepeatsPassed
    <3>1. i \in OperandsOfKind(src, x) /\ j \in OperandsOfKind(src, x)
      BY <1>1 DEF OperandsOfKind, SameKind
    <3>2. QED BY <1>1, <3>1 DEF RepeatsOperand
  <2>2. NoDifferenceNested
    <3> SUFFICES ASSUME NEW x \in DOMAIN ops, NEW j \in DOMAIN ops[x].args,
                        Becomes(ops[x].kind) = "sub", Becomes(ops[ops[x].args[j]].kind) = "sub"
                 PROVE  FALSE
      BY DEF NoDifferenceNested
    <3>1. j \in OperandsOfKind(src, x)
      BY <1>1 DEF OperandsOfKind, SameKind
    <3>2. QED BY <1>1, <3>1 DEF NestsDifference
  <2>3. QED BY <1>1, <2>1, <2>2 DEF IsProgram
<1>12. QED BY <1>4, <1>5, <1>6, <1>7, <1>8, <1>9, <1>10, <1>11 DEF BInv

-----------------------------------------------------------------------------
(* The steps that only go on.                                              *)
LEMMA StillInv ==
  ASSUME BInv, UNCHANGED <<src, ops, sem, block>>,
         phase' \in Range(Phases), at' \in 1 .. Len(block) + 1,
         PendingOK', VisitedUnused',
         \A k \in DOMAIN block, kind \in Arithmetic : Passed(k, kind) => Passed(k, kind)'
  PROVE  BInv' /\ (Meaning => Meaning')
<1>1. phase' \in Range(Phases)' /\ BlockOK' /\ OpsOK' /\ OperandsBefore' /\ SemOK'
  <2>1. BlockOK /\ OpsOK /\ OperandsBefore /\ SemOK
    BY DEF BInv
  <2>2. phase' \in Range(Phases)'
    BY DEF Range, Phases
  <2>3. BlockOK'
    BY <2>1 DEF BlockOK
  <2>4. OpsOK'
    BY <2>1 DEF OpsOK
  <2>5. OperandsBefore'
    BY <2>1 DEF OperandsBefore
  <2>6. SemOK'
    BY <2>1 DEF SemOK
  <2>7. QED BY <2>2, <2>3, <2>4, <2>5, <2>6
<1>2. BInv'
  BY <1>1 DEF BInv
<1>3. RepeatsPassed => RepeatsPassed'
  BY DEF RepeatsPassed, Arithmetic
<1>4. NoDifferenceNested => NoDifferenceNested'
  BY DEF NoDifferenceNested
<1>5. Meaning => Meaning'
  BY <1>3, <1>4 DEF Meaning
<1>6. QED BY <1>2, <1>5

LEMMA SkipInv == BInv /\ Skip => BInv' /\ (Meaning => Meaning')
<1> SUFFICES ASSUME BInv, Skip PROVE BInv' /\ (Meaning => Meaning')
  OBVIOUS
<1>1. /\ UNCHANGED <<src, ops, sem, block, phase, pending>> /\ at' = at + 1
      /\ InBlock /\ ops[Cur].kind # phase
  BY DEF Skip
<1>2. BInv /\ at \in Nat /\ Len(block) \in Nat /\ DOMAIN block = 1 .. Len(block)
      /\ at \in 1 .. Len(block)
  BY <1>1, BlockFacts
<1>3. pending = {}
  BY <1>1, <1>2 DEF BInv, PendingOK
<1>4. PendingOK'
  BY <1>1, <1>3 DEF PendingOK
<1>5. ASSUME NEW k \in DOMAIN block, NEW kind
      PROVE  /\ Passed(k, kind) => Passed(k, kind)'
             /\ Passed(k, kind)' => Passed(k, kind) \/ (k = at /\ kind = phase)
  BY <1>1, <1>2 DEF Passed, Turn, Phases
<1>6. VisitedUnused'
  <2> SUFFICES ASSUME NEW x \in DOMAIN ops, NEW j \in DOMAIN ops[x].args, NEW k \in DOMAIN block,
                      block[k] = ops[x].args[j], ops[block[k]].kind = ops[x].kind,
                      Passed(k, ops[block[k]].kind)'
               PROVE  Users(ops, x) = {}
    BY <1>1, <1>3 DEF VisitedUnused, VisitedUse
  <2>1. Passed(k, ops[block[k]].kind)
    BY <1>1, <1>5 DEF Cur
  <2>2. QED BY <1>2, <2>1 DEF BInv, VisitedUnused, VisitedUse
<1>7. QED BY <1>1, <1>2, <1>4, <1>5, <1>6, StillInv DEF BInv

LEMMA LoopEndsInv == BInv /\ LoopEnds => BInv' /\ (Meaning => Meaning')
<1> SUFFICES ASSUME BInv, LoopEnds PROVE BInv' /\ (Meaning => Meaning')
  OBVIOUS
<1>1. /\ UNCHANGED <<src, ops, sem, block, pending>> /\ at' = 1 /\ at > Len(block)
      /\ phase # "done" /\ phase' = NextPhase(phase)
  BY DEF LoopEnds
<1>2. BInv /\ at \in Nat /\ Len(block) \in Nat /\ DOMAIN block = 1 .. Len(block)
      /\ phase \in {"subi", "muli", "add", "sub", "multiply"}
  BY <1>1, BlockFacts
<1>3. pending = {}
  BY <1>1, <1>2 DEF BInv, PendingOK, InBlock
<1>4. PendingOK'
  BY <1>1, <1>3 DEF PendingOK
<1>5. /\ phase' \in Range(Phases) /\ Turn(phase) \in 1 .. 5 /\ Turn(phase') = Turn(phase) + 1
      /\ \A kind \in Arithmetic : Turn(kind) \in 1 .. 5 /\ (Turn(kind) = Turn(phase) => kind = phase)
  BY <1>1, <1>2, PhaseFacts DEF Arithmetic
<1>6. ASSUME NEW k \in DOMAIN block, NEW kind
      PROVE  Passed(k, kind) <=> Passed(k, kind)'
  <2>1. k < at /\ ~ k < at'
    BY <1>1, <1>2
  <2>2. kind \in Arithmetic => (Turn(kind) < Turn(phase') <=> Turn(kind) < Turn(phase) \/ kind = phase)
    BY <1>5
  <2>3. Passed(k, kind)' <=> kind \in Arithmetic /\ (Turn(kind) < Turn(phase') \/ (kind = phase' /\ k < at'))
    BY DEF Passed, Turn, Phases, Arithmetic
  <2>4. QED BY <2>1, <2>2, <2>3 DEF Passed
<1>7. VisitedUnused'
  <2> SUFFICES ASSUME NEW x \in DOMAIN ops, NEW j \in DOMAIN ops[x].args, NEW k \in DOMAIN block,
                      block[k] = ops[x].args[j], ops[block[k]].kind = ops[x].kind,
                      Passed(k, ops[block[k]].kind)'
               PROVE  Users(ops, x) = {}
    BY <1>1, <1>3 DEF VisitedUnused, VisitedUse
  <2>1. Passed(k, ops[block[k]].kind)
    BY <1>1, <1>6
  <2>2. QED BY <1>2, <2>1 DEF BInv, VisitedUnused, VisitedUse
<1>8. QED BY <1>1, <1>2, <1>4, <1>5, <1>6, <1>7, StillInv

LEMMA VisitInv == BInv /\ Visit => BInv' /\ (Meaning => Meaning')
<1> SUFFICES ASSUME BInv, Visit PROVE BInv' /\ (Meaning => Meaning')
  OBVIOUS
<1>1. /\ UNCHANGED <<src, ops, sem, block, phase>>
      /\ InBlock /\ Collapsing /\ ops[Cur].kind = phase /\ pending = {}
      /\ \/ UsesOf(Cur) = {} /\ at' = at + 1 /\ pending' = {}
         \/ UsesOf(Cur) # {} /\ at' = at /\ pending' = UsesOf(Cur)
  BY DEF Visit
<1>2. BInv /\ at \in Nat /\ Len(block) \in Nat /\ DOMAIN block = 1 .. Len(block)
      /\ at \in 1 .. Len(block)
  BY <1>1, BlockFacts
<1>3. PendingOK'
  BY <1>1 DEF PendingOK, InBlock, Collapsing, Cur, UsesOf
<1>4. ASSUME NEW k \in DOMAIN block, NEW kind
      PROVE  /\ Passed(k, kind) => Passed(k, kind)'
             /\ Passed(k, kind)' => Passed(k, kind) \/ (at' = at + 1 /\ k = at)
  BY <1>1, <1>2 DEF Passed, Turn, Phases
<1>5. VisitedUnused'
  <2> SUFFICES ASSUME NEW x \in DOMAIN ops, NEW j \in DOMAIN ops[x].args, NEW k \in DOMAIN block,
                      block[k] = ops[x].args[j], ops[block[k]].kind = ops[x].kind,
                      VisitedUse(x, j, k)'
               PROVE  Users(ops, x) = {}
    BY <1>1 DEF VisitedUnused
  <2>1. k = at => <<x, j>> \in UsesOf(Cur)
    BY DEF UsesOf, Cur
  <2> DEFINE c == ops[block[k]].kind
  <2>2. Passed(k, c)' \/ (pending' # {} /\ k = at' /\ <<x, j>> \notin pending')
    BY DEF VisitedUse
  <2>3. CASE UsesOf(Cur) = {} /\ at' = at + 1 /\ pending' = {}
    <3>1. Passed(k, c)' => Passed(k, c) \/ k = at
      BY <1>1, <1>4
    <3>2. Passed(k, c)
      BY <2>1, <2>2, <2>3, <3>1
    <3>3. QED BY <1>2, <3>2 DEF BInv, VisitedUnused, VisitedUse
  <2>4. CASE UsesOf(Cur) # {} /\ at' = at /\ pending' = UsesOf(Cur)
    <3>1. Passed(k, c)' => Passed(k, c)
      BY <1>1, <1>2, <1>4, <2>4
    <3>2. Passed(k, c)
      BY <2>1, <2>2, <2>4, <3>1
    <3>3. QED BY <1>2, <3>2 DEF BInv, VisitedUnused, VisitedUse
  <2>5. QED BY <1>1, <2>3, <2>4
<1>6. QED BY <1>1, <1>2, <1>3, <1>4, <1>5, StillInv DEF BInv

LEMMA LeaveUseInv ==
  ASSUME BInv, NEW use \in pending, LeaveUse(use) PROVE BInv' /\ (Meaning => Meaning')
<1>1. /\ UNCHANGED <<src, ops, sem, block, phase>>
      /\ ops[use[1]].kind # phase /\ pending' = pending \ {use}
      /\ at' = IF pending = {use} THEN at + 1 ELSE at
  BY DEF LeaveUse, Visited
<1>2. BInv /\ at \in Nat /\ Len(block) \in Nat /\ DOMAIN block = 1 .. Len(block)
      /\ at \in 1 .. Len(block)
  BY PendingFacts, BlockFacts
<1>3. PendingOK'
  BY <1>1, <1>2 DEF BInv, PendingOK, InBlock, Collapsing, Cur, UsesOf
<1>4. ASSUME NEW k \in DOMAIN block, NEW kind
      PROVE  /\ Passed(k, kind) => Passed(k, kind)'
             /\ Passed(k, kind)' => Passed(k, kind) \/ (pending = {use} /\ k = at /\ kind = phase)
  BY <1>1, <1>2 DEF Passed, Turn, Phases
<1>5. VisitedUnused'
  <2> SUFFICES ASSUME NEW x \in DOMAIN ops, NEW j \in DOMAIN ops[x].args, NEW k \in DOMAIN block,
                      block[k] = ops[x].args[j], ops[block[k]].kind = ops[x].kind,
                      VisitedUse(x, j, k)'
               PROVE  Users(ops, x) = {}
    BY <1>1 DEF VisitedUnused
  <2>1. CASE Passed(k, ops[block[k]].kind)
    BY <1>2, <2>1 DEF BInv, VisitedUnused, VisitedUse
  <2>2. CASE ~ Passed(k, ops[block[k]].kind)
    <3>1. k = at /\ <<x, j>> \notin pending \ {use}
      BY <1>1, <1>2, <1>4, <2>2 DEF VisitedUse
    <3>2. ops[Cur].kind = phase
      BY <1>2, PendingFacts
    <3>3. <<x, j>> # use
      BY <1>1, <3>1, <3>2 DEF Cur
    <3>4. VisitedUse(x, j, k)
      BY <3>1, <3>3 DEF VisitedUse
    <3>5. QED BY <1>2, <3>4 DEF BInv, VisitedUnused
  <2>3. QED BY <2>1, <2>2
<1>6. QED BY <1>1, <1>2, <1>3, <1>4, <1>5, StillInv DEF BInv

-----------------------------------------------------------------------------
LEMMA EvalPlain ==
  ASSUME NEW o, NEW f, o.kind \in PlainArithmetic
  PROVE  Eval(o, f) = Lift(DialectKind(o.kind), [k \in DOMAIN o.args |-> f[o.args[k]]])
BY Zenon DEF Eval, Arithmetic, PlainArithmetic

(* Arithmetic on plaintexts becomes arithmetic of the dialect.             *)
LEMMA ConvertInv == BInv /\ ConvertToDialect => BInv' /\ (Meaning => Meaning')
<1> SUFFICES ASSUME BInv, ConvertToDialect PROVE BInv' /\ (Meaning => Meaning')
  OBVIOUS
<1> DEFINE c == DialectKind(phase)
           o == [ops[Cur] EXCEPT !.kind = c]
<1>1. /\ UNCHANGED <<src, sem, block, phase, pending>> /\ at' = at + 1
      /\ InBlock /\ phase \in {"subi", "muli"} /\ ops[Cur].kind = phase
      /\ ops' = [ops EXCEPT ![Cur].kind = c]
  BY DEF ConvertToDialect, Converting
<1>2. BInv /\ at \in Nat /\ Len(block) \in Nat /\ DOMAIN block = 1 .. Len(block)
      /\ at \in 1 .. Len(block) /\ Cur \in DOMAIN ops
  BY <1>1, BlockFacts
<1>3. /\ c \in {"sub", "multiply"} /\ c = Becomes(phase) /\ c = Becomes(c)
  BY <1>1 DEF DialectKind, Becomes
<1>4. /\ o \in Op /\ o.kind = c /\ o.args = ops[Cur].args
  BY <1>2, <1>3, OpFacts DEF Op, Kinds, Arithmetic
<1>5. /\ DOMAIN ops' = DOMAIN ops /\ ops'[Cur] = o
      /\ \A y \in DOMAIN ops : y # Cur => ops'[y] = ops[y]
  BY <1>1, <1>2
<1> HIDE DEF o, c
<1>6. \A y \in DOMAIN ops :
        /\ ops'[y] \in Op /\ ops'[y].args = ops[y].args
        /\ Becomes(ops'[y].kind) = Becomes(ops[y].kind)
        /\ ops'[y].kind = "return" <=> ops[y].kind = "return"
        /\ ops'[y].kind = "arg" <=> ops[y].kind = "arg"
  BY <1>1, <1>2, <1>3, <1>4, <1>5 DEF BInv, OpsOK
<1>7. pending = {}
  BY <1>1, <1>2 DEF BInv, PendingOK, Collapsing, Arithmetic
<1>8. \A k, kind : ~ Passed(k, kind)'
  <2>1. \A k, kind : Passed(k, kind)' => kind \in Arithmetic /\ (Turn(kind) < Turn(phase) \/ kind = phase)
    BY <1>1 DEF Passed, Turn, Phases, Arithmetic
  <2>2. \A kind \in Arithmetic : ~ Turn(kind) < Turn(phase) /\ kind # phase
    BY <1>1, PhaseFacts DEF Arithmetic
  <2>3. QED BY <2>1, <2>2
<1>9. BlockOK'
  BY <1>1, <1>2, <1>5 DEF BInv, BlockOK
<1>10. OpsOK'
  BY <1>2, <1>3, <1>4, <1>5, <1>6 DEF BInv, OpsOK, Arithmetic
<1>11. OperandsBefore'
  <2>1. \A k \in DOMAIN block : block[k] \in DOMAIN ops
    BY <1>2 DEF BInv, BlockOK
  <2>2. QED BY <1>1, <1>2, <1>6, <2>1 DEF BInv, OperandsBefore
<1>12. PendingOK'
  BY <1>1, <1>7 DEF PendingOK
<1>13. SemOK'
  <2>1. SemOK
    BY <1>2 DEF BInv
  <2>2. ReturnsOf(ops') = ReturnsOf(ops)
    BY <1>5, <1>6 DEF ReturnsOf
  <2>3. ValuesReturned(ops', sem') = ValuesReturned(ops, sem)
    BY <1>1, <1>6, <2>2 DEF ValuesReturned, ReturnsOf
  <2>4. QED BY <1>1, <1>5, <2>1, <2>3 DEF SemOK
<1>14. VisitedUnused'
  <2>1. pending' = {}
    BY <1>1, <1>7
  <2>2. QED BY <1>8, <2>1 DEF VisitedUnused, VisitedUse
<1>15. at' \in 1 .. Len(block') + 1 /\ phase' \in Range(Phases)'
  BY <1>1, <1>2 DEF BInv, Range, Phases
<1>16. Meaning => Meaning'
  <2> SUFFICES ASSUME Meaning, ~RepeatsOperand(src), ~NestsDifference(src)
               PROVE  RepeatsPassed' /\ NoDifferenceNested' /\ Consistent(ops', sem')
    BY <1>1 DEF Meaning
  <2>1. RepeatsPassed /\ NoDifferenceNested /\ Consistent(ops, sem)
    BY DEF Meaning
  <2>2. RepeatsPassed'
    <3> SUFFICES ASSUME NEW x \in DOMAIN ops', NEW i \in DOMAIN ops'[x].args,
                        NEW j \in DOMAIN ops'[x].args, NEW k \in DOMAIN block',
                        Becomes(ops'[x].kind) \in {"add", "multiply"},
                        Becomes(ops'[x].kind) = Becomes(ops'[block'[k]].kind),
                        i # j, ops'[x].args[i] = block'[k], ops'[x].args[j] = block'[k]
                 PROVE  FALSE
      BY DEF RepeatsPassed
    <3>1. x \in DOMAIN ops /\ ops'[x].args = ops[x].args /\ Becomes(ops'[x].kind) = Becomes(ops[x].kind)
      BY <1>5, <1>6
    <3>2. k \in DOMAIN block /\ block'[k] = block[k] /\ block[k] \in DOMAIN ops
          /\ Becomes(ops'[block'[k]].kind) = Becomes(ops[block[k]].kind)
      BY <1>1, <1>2, <1>6 DEF BInv, BlockOK
    <3>3. Passed(k, Becomes(ops[x].kind))
      BY <2>1, <3>1, <3>2 DEF RepeatsPassed
    <3>4. QED BY <1>1, <3>3, NothingPassed
  <2>3. NoDifferenceNested'
    <3> SUFFICES ASSUME NEW x \in DOMAIN ops', NEW j \in DOMAIN ops'[x].args,
                        Becomes(ops'[x].kind) = "sub", Becomes(ops'[ops'[x].args[j]].kind) = "sub"
                 PROVE  FALSE
      BY DEF NoDifferenceNested
    <3>1. x \in DOMAIN ops /\ j \in DOMAIN ops[x].args /\ ops'[x].args = ops[x].args
          /\ Becomes(ops[x].kind) = "sub"
      BY <1>5, <1>6
    <3>2. ops[x].args[j] \in DOMAIN ops
      BY <1>2, <3>1, OperandFacts
    <3>3. Becomes(ops[ops[x].args[j]].kind) = "sub"
      BY <1>6, <3>1, <3>2
    <3>4. QED BY <2>1, <3>1, <3>3 DEF NoDifferenceNested
  <2>4. Consistent(ops', sem')
    <3> SUFFICES ASSUME NEW y \in DOMAIN ops, ops'[y].kind # "arg"
                 PROVE  sem[y] = Eval(ops'[y], sem)
      BY <1>1, <1>5 DEF Consistent
    <3>1. sem[y] = Eval(ops[y], sem)
      BY <1>6, <2>1 DEF Consistent
    <3>2. CASE y # Cur
      BY <1>5, <3>1, <3>2
    <3>3. CASE y = Cur
      <4>1. Eval(ops[Cur], sem) = Lift(c, [j \in DOMAIN ops[Cur].args |-> sem[ops[Cur].args[j]]])
        BY <1>1, EvalPlain DEF c, PlainArithmetic
      <4>2. Eval(o, sem) = Lift(c, [j \in DOMAIN o.args |-> sem[o.args[j]]])
        BY <1>3, <1>4, EvalByKind DEF Arithmetic
      <4>3. QED BY <1>4, <1>5, <3>1, <3>3, <4>1, <4>2
    <3>4. QED BY <3>2, <3>3
  <2>5. QED BY <2>2, <2>3, <2>4
<1>17. QED BY <1>9, <1>10, <1>11, <1>12, <1>13, <1>14, <1>15, <1>16 DEF BInv

-----------------------------------------------------------------------------
(* Inlining keeps the invariant.  The new operation follows the user it is *)
(* made from, so that nothing up to the walk moves.                        *)
LEMMA BlockAfter ==
  ASSUME BInv, NEW use \in pending, CollapseUse(use), NEW p, p = PlaceOf(use[1])
  PROVE  /\ p \in DOMAIN block /\ at < p /\ p \in Nat /\ at \in Nat
         /\ DOMAIN block \subseteq Nat
         /\ block' \in Seq(Position) /\ Len(block') = Len(block) + 1
         /\ p + 1 \in DOMAIN block' /\ block'[p + 1] = Fresh
         /\ \A m \in DOMAIN block : Shifted(p, m) \in DOMAIN block' /\ block'[Shifted(p, m)] = block[m]
         /\ \A k \in DOMAIN block' : k = p + 1 \/ \E m \in DOMAIN block : k = Shifted(p, m)
         /\ Shifted(p, at) = at /\ (at' = at => Cur' = Cur)
<1> DEFINE u == use[1]
<1>1. /\ u \in DOMAIN ops /\ at < PlaceOf(u)
  BY PendingFacts
<1>2. p \in DOMAIN block /\ p \in Nat /\ at \in Nat /\ DOMAIN block = 1 .. Len(block) /\ Len(block) \in Nat
      /\ at < p /\ at \in DOMAIN block
  BY <1>1, PlaceFacts, BlockFacts, PendingFacts
<1>3. block \in Seq(Position) /\ Fresh \in Position /\ block' = InsertAt(block, p + 1, Fresh)
  BY CollapseFacts DEF Collapsed, BInv, BlockOK
<1>4. block' \in Seq(Position) /\ IsInserted(block', block, p, Fresh)
  BY <1>2, <1>3, InsertFacts
<1>5. Shifted(p, at) = at
  BY <1>2 DEF Shifted
<1>6. at' = at => Cur' = Cur
  BY <1>2, <1>4, <1>5 DEF Cur, IsInserted
<1>7. QED BY <1>2, <1>4, <1>5, <1>6 DEF IsInserted

LEMMA PassedAfter ==
  ASSUME BInv, NEW use \in pending, CollapseUse(use), NEW p, p = PlaceOf(use[1]),
         NEW m \in DOMAIN block, NEW kind
  PROVE  /\ Passed(m, kind) => Passed(Shifted(p, m), kind)'
         /\ Passed(Shifted(p, m), kind)' =>
              Passed(m, kind) \/ (pending = {use} /\ m = at /\ kind = phase)
<1>1. /\ p \in Nat /\ at \in Nat /\ m \in Nat /\ at < p
  BY BlockAfter
<1>2. phase' = phase /\ (at' = IF pending = {use} THEN at + 1 ELSE at)
  BY CollapseFacts DEF Collapsed, Visited
<1>3. Passed(Shifted(p, m), kind)' <=>
        kind \in Arithmetic /\ (Turn(kind) < Turn(phase) \/ (kind = phase /\ Shifted(p, m) < at'))
  BY <1>2 DEF Passed, Turn, Phases, Arithmetic, Shifted
<1>4. m < at => Shifted(p, m) < at'
  BY <1>1, <1>2 DEF Shifted
<1>5. Shifted(p, m) < at' => m < at \/ (pending = {use} /\ m = at)
  BY <1>1, <1>2 DEF Shifted
<1>6. QED BY <1>3, <1>4, <1>5 DEF Passed

LEMMA CollapseBlock ==
  ASSUME BInv, NEW use \in pending, CollapseUse(use)
  PROVE  BlockOK' /\ OpsOK' /\ OperandsBefore' /\ at' \in 1 .. Len(block') + 1
<1> DEFINE u == use[1]
           p == PlaceOf(u)
           S(m) == Shifted(p, m)
<1>1. /\ p \in DOMAIN block /\ at < p /\ p \in Nat /\ at \in Nat
      /\ DOMAIN block \subseteq Nat
      /\ block' \in Seq(Position) /\ Len(block') = Len(block) + 1
      /\ p + 1 \in DOMAIN block' /\ block'[p + 1] = Fresh
      /\ \A m \in DOMAIN block : S(m) \in DOMAIN block' /\ block'[S(m)] = block[m]
      /\ \A k \in DOMAIN block' : k = p + 1 \/ \E m \in DOMAIN block : k = S(m)
  BY BlockAfter
<1>2. /\ u \in DOMAIN ops /\ ops[u].kind = phase /\ u # Cur
      /\ Fresh \notin DOMAIN ops /\ Fresh = <<Len(block) + 1, 0>>
      /\ DOMAIN ops' = DOMAIN ops \cup {Fresh}
      /\ ops'[Fresh].args = Inlined(ops[u], Cur) /\ ops'[Fresh].kind = phase /\ ops'[Fresh] \in Op
      /\ \A y \in DOMAIN ops :
           /\ ops'[y] \in Op /\ ops'[y].kind = ops[y].kind
           /\ DOMAIN ops'[y].args = DOMAIN ops[y].args
           /\ \A j \in DOMAIN ops[y].args :
                ops'[y].args[j] = IF ops[y].args[j] = u THEN Fresh ELSE ops[y].args[j]
  <2>1. Collapsed(u)
    BY CollapseFacts
  <2>2. QED BY <2>1 DEF Collapsed
<1>3. /\ Len(block) \in Nat /\ DOMAIN block = 1 .. Len(block) /\ at \in DOMAIN block
      /\ Cur \in DOMAIN ops /\ PlaceOf(Cur) = at /\ phase \in Arithmetic
      /\ at' = at \/ at' = at + 1
      /\ block[p] = u
  BY <1>2, PendingFacts, BlockFacts, PlaceFacts, CollapseFacts DEF Visited
<1> HIDE DEF p, u, S
<1>4. \A k, m \in Nat : S(k) = S(m) => k = m
  BY <1>1 DEF Shifted, S
<1>5. \A k \in Nat : S(k) # p + 1
  BY <1>1 DEF Shifted, S
<1>6. BlockOK'
  <2>1. BlockOK
    BY DEF BInv
  <2>2. DOMAIN ops' = {<<m, 0>> : m \in 1 .. Len(block')}
    <3>1. DOMAIN ops = {<<m, 0>> : m \in 1 .. Len(block)}
      BY <2>1 DEF BlockOK
    <3>2. 1 .. Len(block') = (1 .. Len(block)) \cup {Len(block) + 1}
      <4> DEFINE n == Len(block)
      <4>1. n \in Nat /\ Len(block') = n + 1
        BY <1>1, <1>3
      <4> HIDE DEF n
      <4>2. 1 .. n + 1 = (1 .. n) \cup {n + 1}
        BY <4>1
      <4>3. QED BY <4>1, <4>2 DEF n
    <3>3. QED BY <1>2, <3>1, <3>2
  <2>3. ASSUME NEW x \in DOMAIN ops' PROVE \E k \in DOMAIN block' : block'[k] = x
    <3>1. CASE x = Fresh
      BY <1>1, <3>1
    <3>2. CASE x \in DOMAIN ops
      <4>1. PICK k \in DOMAIN block : block[k] = x
        BY <2>1, <3>2 DEF BlockOK
      <4>2. QED BY <1>1, <4>1
    <3>3. QED BY <1>2, <3>1, <3>2
  <2>4. \A k \in DOMAIN block : block[k] \in DOMAIN ops
    BY <2>1 DEF BlockOK
  <2>5. ASSUME NEW k \in DOMAIN block', NEW m \in DOMAIN block', block'[k] = block'[m] PROVE k = m
    <3>1. CASE k = p + 1 /\ m = p + 1
      BY <3>1
    <3>2. CASE k = p + 1 /\ m # p + 1
      <4>1. PICK n \in DOMAIN block : m = S(n)
        BY <1>1, <3>2
      <4>2. QED BY <1>1, <1>2, <2>4, <2>5, <3>2, <4>1
    <3>3. CASE k # p + 1 /\ m = p + 1
      <4>1. PICK n \in DOMAIN block : k = S(n)
        BY <1>1, <3>3
      <4>2. QED BY <1>1, <1>2, <2>4, <2>5, <3>3, <4>1
    <3>4. CASE k # p + 1 /\ m # p + 1
      <4>1. PICK n \in DOMAIN block : k = S(n)
        BY <1>1, <3>4
      <4>2. PICK l \in DOMAIN block : m = S(l)
        BY <1>1, <3>4
      <4>3. block[n] = block[l]
        BY <1>1, <2>5, <4>1, <4>2
      <4>4. n = l
        BY <2>1, <4>3 DEF BlockOK
      <4>5. QED BY <4>1, <4>2, <4>4
    <3>5. QED BY <3>1, <3>2, <3>3, <3>4
  <2>6. ASSUME NEW k \in DOMAIN block' PROVE block'[k] \in DOMAIN ops'
    <3>1. CASE k = p + 1
      BY <1>1, <1>2, <3>1
    <3>2. CASE k # p + 1
      <4>1. PICK m \in DOMAIN block : k = S(m)
        BY <1>1, <3>2
      <4>2. QED BY <1>1, <1>2, <2>4, <4>1
    <3>3. QED BY <3>1, <3>2
  <2>7. block' \in Seq(Position)
    BY <1>1
  <2>8. QED BY <2>2, <2>3, <2>5, <2>6, <2>7 DEF BlockOK
<1>7. OpsOK'
  <2>1. ASSUME NEW x \in DOMAIN ops'
        PROVE  /\ ops'[x] \in Op
               /\ ops'[x].kind \notin Arithmetic \cup {"arg", "constant"} => 1 \in DOMAIN ops'[x].args
               /\ ops'[x].kind \in {"insert", "combine"} => 2 \in DOMAIN ops'[x].args
    <3>1. CASE x = Fresh
      BY <1>2, <1>3, <3>1 DEF Arithmetic
    <3>2. CASE x \in DOMAIN ops
      BY <1>2, <3>2 DEF BInv, OpsOK
    <3>3. QED BY <1>2, <3>1, <3>2
  <2>2. QED BY <2>1 DEF OpsOK
<1>8. OperandsBefore'
  <2> SUFFICES ASSUME NEW k \in DOMAIN block', NEW j \in DOMAIN ops'[block'[k]].args
               PROVE  \E m \in 1 .. k - 1 : block'[m] = ops'[block'[k]].args[j]
    BY DEF OperandsBefore
  <2> DEFINE y == ops'[block'[k]].args[j]
  <2>1. DOMAIN block' \subseteq Nat /\ DOMAIN block' = 1 .. Len(block')
        /\ k \in Nat /\ k \in 1 .. Len(block') /\ Len(block') \in Nat
    BY <1>1, <1>3
  <2>2. SUFFICES \E m \in DOMAIN block' : m < k /\ block'[m] = y
    <3>1. ASSUME NEW m \in DOMAIN block', m < k PROVE m \in 1 .. k - 1
      BY <2>1, <3>1
    <3>2. QED BY <2>2, <3>1
  \* What is before a place of the old block.
  <2>3. ASSUME NEW n \in DOMAIN block, NEW z \in DOMAIN ops, PlaceOf(z) < n
        PROVE  \E m \in DOMAIN block' : m < S(n) /\ block'[m] = z
    <3>1. PlaceOf(z) \in DOMAIN block /\ block[PlaceOf(z)] = z
      BY PlaceFacts
    <3>2. S(PlaceOf(z)) < S(n)
      <4>1. PlaceOf(z) \in Nat /\ n \in Nat
        BY <1>1, <3>1
      <4>2. QED BY <1>1, <2>3, <4>1, ShiftedFacts DEF S
    <3>3. QED BY <1>1, <3>1, <3>2
  <2>4. CASE k = p + 1
    <3> DEFINE l == Inlined(ops[u], Cur)
               K == KeptBy(u)
               c == Cardinality(K)
    <3>1. j \in DOMAIN l /\ y = l[j]
      BY <1>1, <1>2, <2>4
    <3>2. /\ j <= c => /\ Nth(K, j) \in DOMAIN ops[u].args
                       /\ l[j] = ops[u].args[Nth(K, j)]
          /\ ~ j <= c => /\ j - c \in DOMAIN ops[Cur].args
                         /\ l[j] = ops[Cur].args[j - c]
      BY <1>2, <1>3, <3>1, InlinedFacts
    <3> HIDE DEF l, c, K, y
    <3>3. y \in DOMAIN ops /\ PlaceOf(y) < p
      <4>1. CASE j <= c
        BY <1>2, <3>1, <3>2, <4>1, OperandFacts DEF p
      <4>2. CASE ~ j <= c
        <5>1. y \in DOMAIN ops /\ PlaceOf(y) < PlaceOf(Cur)
          BY <1>3, <3>1, <3>2, <4>2, OperandFacts
        <5>2. PlaceOf(y) \in Nat
          BY <5>1, PlaceFacts
        <5>3. QED BY <1>1, <1>3, <5>1, <5>2
      <4>3. QED BY <4>1, <4>2
    <3>4. PICK m \in DOMAIN block' : m < S(p) /\ block'[m] = y
      BY <1>1, <2>3, <3>3
    <3>5. S(p) = p
      BY <1>1 DEF S, Shifted
    <3>6. m < k
      <4>1. m \in Nat
        BY <2>1
      <4>2. QED BY <1>1, <2>4, <3>4, <3>5, <4>1
    <3>7. QED BY <3>4, <3>6
  <2>5. CASE k # p + 1
    <3>1. PICK n \in DOMAIN block : k = S(n)
      BY <1>1, <2>5
    <3> DEFINE x == block[n]
               z == ops[x].args[j]
    <3>2. x \in DOMAIN ops /\ block'[k] = x /\ PlaceOf(x) = n
      <4>1. x \in DOMAIN ops
        BY DEF BInv, BlockOK
      <4>2. QED BY <1>1, <3>1, <4>1, PlaceFacts
    <3>3. j \in DOMAIN ops[x].args /\ y = IF z = u THEN Fresh ELSE z
      BY <1>2, <3>2
    <3>4. z \in DOMAIN ops /\ PlaceOf(z) < n
      BY <3>2, <3>3, OperandFacts
    <3> HIDE DEF x, y, z
    <3>5. CASE z # u
      BY <2>3, <3>1, <3>3, <3>4, <3>5
    <3>6. CASE z = u
      <4>1. p < n
        BY <3>4, <3>6 DEF p
      <4>2. p + 1 < k
        <5>1. n \in Nat
          BY <1>1
        <5>2. QED BY <1>1, <3>1, <4>1, <5>1, ShiftedFacts DEF S
      <4>3. QED BY <1>1, <3>3, <3>6, <4>2
    <3>7. QED BY <3>5, <3>6
  <2>6. QED BY <2>4, <2>5
<1>9. at' \in 1 .. Len(block') + 1
  BY <1>1, <1>3
<1>10. QED BY <1>6, <1>7, <1>8, <1>9

(* What the new operation uses, and who uses what after the step.          *)
LEMMA NewOperands ==
  ASSUME BInv, NEW use \in pending, NEW u, u = use[1], Collapsed(u),
         NEW j \in DOMAIN ops'[Fresh].args, NEW a, a = ops'[Fresh].args[j]
  PROVE  /\ \/ \E i \in DOMAIN ops[u].args : a = ops[u].args[i]
            \/ \E i \in DOMAIN ops[Cur].args : a = ops[Cur].args[i]
         /\ a \in DOMAIN ops /\ a # u /\ a # Cur /\ a # Fresh
<1> DEFINE l == Inlined(ops[u], Cur)
           K == KeptBy(u)
           c == Cardinality(K)
<1>1. /\ u \in DOMAIN ops /\ u # Cur /\ Fresh \notin DOMAIN ops /\ j \in DOMAIN l /\ a = l[j]
  BY DEF Collapsed
<1>2. Cur \in DOMAIN ops /\ PlaceOf(Cur) < PlaceOf(u)
  BY PendingFacts
<1>3. /\ j <= c => Nth(K, j) \in DOMAIN ops[u].args /\ a = ops[u].args[Nth(K, j)] /\ a # Cur
      /\ ~ j <= c => j - c \in DOMAIN ops[Cur].args /\ a = ops[Cur].args[j - c]
  BY <1>1, <1>2, InlinedFacts
<1> HIDE DEF l, c, K
<1>4. CASE j <= c
  <2>1. a \in DOMAIN ops /\ PlaceOf(a) < PlaceOf(u) /\ PlaceOf(u) \in Nat
    BY <1>1, <1>3, <1>4, OperandFacts, PlaceFacts
  <2>2. a # u
    BY <2>1
  <2>3. QED BY <1>1, <1>3, <1>4, <2>1, <2>2
<1>5. CASE ~ j <= c
  <2>1. a \in DOMAIN ops /\ PlaceOf(a) < PlaceOf(Cur)
    BY <1>2, <1>3, <1>5, OperandFacts
  <2>2. PlaceOf(a) \in Nat /\ PlaceOf(Cur) \in Nat /\ PlaceOf(u) \in Nat
    BY <1>1, <1>2, <2>1, PlaceFacts
  <2>3. a # Cur /\ a # u
    BY <1>2, <2>1, <2>2
  <2>4. QED BY <1>1, <1>3, <1>5, <2>1, <2>3
<1>6. QED BY <1>4, <1>5

LEMMA UsersAfter ==
  ASSUME BInv, NEW use \in pending, NEW u, u = use[1], Collapsed(u)
  PROVE  /\ Users(ops', u) = {}
         /\ \A x \in DOMAIN ops : Users(ops, x) = {} => Users(ops', x) = {}
         /\ Users(ops, u) = {} => Users(ops', Fresh) = {}
<1>1. /\ u \in DOMAIN ops /\ Fresh \notin DOMAIN ops /\ DOMAIN ops' = DOMAIN ops \cup {Fresh}
      /\ \A y \in DOMAIN ops :
           /\ DOMAIN ops'[y].args = DOMAIN ops[y].args
           /\ \A j \in DOMAIN ops[y].args :
                ops'[y].args[j] = IF ops[y].args[j] = u THEN Fresh ELSE ops[y].args[j]
  BY DEF Collapsed
<1>2. Cur \in DOMAIN ops
  BY PendingFacts
<1>3. ASSUME NEW x, NEW v \in DOMAIN ops', NEW j \in DOMAIN ops'[v].args, ops'[v].args[j] = x
      PROVE  /\ x # u
             /\ x # Fresh => Users(ops, x) # {}
             /\ x = Fresh => Users(ops, u) # {}
  <2>1. CASE v = Fresh
    <3>1. /\ \/ \E i \in DOMAIN ops[u].args : x = ops[u].args[i]
             \/ \E i \in DOMAIN ops[Cur].args : x = ops[Cur].args[i]
          /\ x # u /\ x # Fresh
      BY <1>3, <2>1, NewOperands
    <3>2. Users(ops, x) # {}
      BY <1>1, <1>2, <3>1 DEF Users
    <3>3. QED BY <3>1, <3>2
  <2>2. CASE v \in DOMAIN ops
    <3>1. j \in DOMAIN ops[v].args /\ x = IF ops[v].args[j] = u THEN Fresh ELSE ops[v].args[j]
      BY <1>1, <1>3, <2>2
    <3>2. ops[v].args[j] \in DOMAIN ops
      BY <2>2, <3>1, OperandFacts
    <3>3. QED BY <1>1, <2>2, <3>1, <3>2 DEF Users
  <2>3. QED BY <1>1, <2>1, <2>2
<1>4. \A x : Users(ops', x) # {} =>
        x # u /\ (x # Fresh => Users(ops, x) # {}) /\ (x = Fresh => Users(ops, u) # {})
  BY <1>3 DEF Users
<1>5. QED BY <1>1, <1>4

(* Nobody who keeps an operand sees another kind or another value of it.   *)
LEMMA OperandsAfter ==
  ASSUME BInv, NEW use \in pending, NEW u, u = use[1], Collapsed(u),
         NEW y \in DOMAIN ops, NEW j \in DOMAIN ops[y].args
  PROVE  /\ ops'[ops'[y].args[j]].kind = ops[ops[y].args[j]].kind
         /\ sem'[ops'[y].args[j]] = sem[ops[y].args[j]]
         /\ ops[y].args[j] \in DOMAIN ops
<1>1. ops[y].args[j] \in DOMAIN ops
  BY OperandFacts
<1>2. QED BY <1>1 DEF Collapsed

LEMMA CollapsePending ==
  ASSUME BInv, NEW use \in pending, CollapseUse(use)
  PROVE  PendingOK'
<1> DEFINE u == use[1]
<1>1. Collapsed(u) /\ Visited(use)
  BY CollapseFacts
<1>2. SUFFICES ASSUME pending' # {}
               PROVE  InBlock' /\ Collapsing' /\ (ops[Cur].kind = phase)' /\ (pending \subseteq UsesOf(Cur))'
  BY DEF PendingOK
<1>3. pending' \subseteq pending /\ at' = at
  BY <1>1, <1>2 DEF Visited
<1>4. Cur' = Cur /\ Len(block') = Len(block) + 1
  BY <1>3, BlockAfter
<1>5. /\ InBlock /\ Collapsing /\ Cur \in DOMAIN ops /\ ops[Cur].kind = phase
      /\ at \in Nat /\ Len(block) \in Nat
  BY PendingFacts, BlockFacts
<1>6. InBlock' /\ Collapsing'
  BY <1>1, <1>3, <1>4, <1>5 DEF InBlock, Collapsing, Collapsed, Arithmetic
<1>7. ops'[Cur'].kind = phase'
  BY <1>1, <1>4, <1>5 DEF Collapsed
<1>8. ASSUME NEW w \in pending' PROVE w \in UsesOf(Cur)'
  <2>1. /\ w[1] \in DOMAIN ops /\ w[2] \in DOMAIN ops[w[1]].args /\ w = <<w[1], w[2]>>
        /\ ops[w[1]].args[w[2]] = Cur
    BY <1>3, PendingFacts
  <2>2. /\ w[1] \in DOMAIN ops' /\ w[2] \in DOMAIN ops'[w[1]].args
        /\ ops'[w[1]].args[w[2]] = Cur'
    BY <1>1, <1>4, <2>1 DEF Collapsed
  <2>3. QED BY <2>1, <2>2 DEF UsesOf
<1>9. QED BY <1>6, <1>7, <1>8

LEMMA CollapseSem ==
  ASSUME BInv, NEW use \in pending, CollapseUse(use)
  PROVE  SemOK'
<1> DEFINE u == use[1]
<1>1. Collapsed(u) /\ SemOK
  BY CollapseFacts DEF BInv
<1>2. phase \in Arithmetic /\ \A y \in DOMAIN ops : ops[y].kind = "return" => 1 \in DOMAIN ops[y].args
  BY PendingFacts DEF BInv, OpsOK, Arithmetic
<1>3. ReturnsOf(ops') = ReturnsOf(ops)
  BY <1>1, <1>2 DEF ReturnsOf, Collapsed, Arithmetic
<1>4. ASSUME NEW x \in ReturnsOf(ops) PROVE sem'[ops'[x].args[1]] = sem[ops[x].args[1]]
  <2>1. x \in DOMAIN ops /\ 1 \in DOMAIN ops[x].args
    BY <1>2 DEF ReturnsOf
  <2>2. QED BY <1>1, <2>1, OperandsAfter
<1>5. ValuesReturned(ops', sem') = ValuesReturned(ops, sem)
  BY <1>3, <1>4 DEF ValuesReturned
<1>6. ASSUME NEW x \in DOMAIN sem' PROVE \E y \in DOMAIN src.sem : sem'[x] = src.sem[y]
  BY <1>1, <1>6 DEF SemOK, Collapsed
<1>7. QED BY <1>1, <1>5, <1>6 DEF SemOK, Collapsed

LEMMA CollapseUnused ==
  ASSUME BInv, NEW use \in pending, CollapseUse(use)
  PROVE  VisitedUnused'
<1> DEFINE u == use[1]
           p == PlaceOf(u)
           S(m) == Shifted(p, m)
<1>1. Collapsed(u) /\ Visited(use) /\ VisitedUnused
  BY CollapseFacts DEF BInv
<1>2. /\ at < p /\ p \in Nat /\ at \in Nat /\ DOMAIN block \subseteq Nat
      /\ block'[p + 1] = Fresh
      /\ \A m \in DOMAIN block : S(m) \in DOMAIN block' /\ block'[S(m)] = block[m]
      /\ \A k \in DOMAIN block' : k = p + 1 \/ \E m \in DOMAIN block : k = S(m)
  BY BlockAfter
<1>3. \A m \in DOMAIN block : S(m) = at => m = at
  BY <1>2 DEF S, Shifted
<1>4. /\ Cur \in DOMAIN ops /\ ops[Cur].kind = phase /\ u \in Users(ops, Cur) /\ Cur = block[at]
      /\ use = <<u, use[2]>>
  BY PendingFacts DEF Cur
<1> HIDE DEF S
<1> SUFFICES ASSUME NEW x \in DOMAIN ops', NEW j \in DOMAIN ops'[x].args, NEW k \in DOMAIN block',
                    block'[k] = ops'[x].args[j], ops'[block'[k]].kind = ops'[x].kind,
                    VisitedUse(x, j, k)'
             PROVE  Users(ops', x) = {}
  BY DEF VisitedUnused
<1> PICK c : c = ops'[x].kind
  OBVIOUS
<1>5. Passed(k, c)' \/ (pending' # {} /\ k = at' /\ <<x, j>> \notin pending')
  BY DEF VisitedUse, Passed
<1>6. k # p + 1
  <2> SUFFICES ASSUME k = p + 1 PROVE FALSE
    OBVIOUS
  <2>1. c = phase
    BY <1>1, <1>2 DEF Collapsed
  <2>2. ~ k < at' /\ k # at'
    BY <1>1, <1>2 DEF Visited
  <2>3. Passed(k, c)' => Turn(c) < Turn(phase) \/ k < at'
    BY <1>1 DEF Passed, Turn, Phases, Collapsed
  <2>4. c \in Arithmetic
    BY <2>1, PendingFacts
  <2>5. Turn(phase) \in Nat
    BY <2>1, <2>4, PhaseFacts DEF Arithmetic
  <2>6. QED BY <1>5, <2>1, <2>2, <2>3, <2>5
<1>7. PICK m \in DOMAIN block : k = S(m)
  BY <1>2, <1>6
<1> DEFINE y == block[m]
<1>8. y \in DOMAIN ops /\ y = ops'[x].args[j] /\ ops[y].kind = c /\ ops'[y].kind = c /\ y # Fresh
  <2>1. y \in DOMAIN ops
    BY DEF BInv, BlockOK
  <2>2. block'[k] = y /\ y = ops'[x].args[j] /\ ops'[y].kind = c
    BY <1>2, <1>7
  <2>3. ops'[y].kind = ops[y].kind /\ y # Fresh
    BY <1>1, <2>1 DEF Collapsed
  <2>4. QED BY <2>1, <2>2, <2>3
\* What is visited now was visited before, but for this use.
<1>9. \/ Passed(m, c)
      \/ m = at /\ (pending = {use} \/ <<x, j>> \notin pending \ {use})
  <2>1. CASE Passed(k, c)'
    BY <1>7, <2>1, PassedAfter DEF S
  <2>2. CASE pending' # {} /\ k = at' /\ <<x, j>> \notin pending'
    <3>1. at' = at /\ pending' = pending \ {use}
      BY <1>1, <2>2 DEF Visited
    <3>2. QED BY <1>3, <1>7, <2>2, <3>1
  <2>3. QED BY <1>5, <2>1, <2>2
<1> HIDE DEF y
<1>10. CASE x = Fresh
  <2>1. /\ \/ \E i \in DOMAIN ops[u].args : y = ops[u].args[i]
           \/ \E i \in DOMAIN ops[Cur].args : y = ops[Cur].args[i]
        /\ y # Cur
    BY <1>1, <1>8, <1>10, NewOperands
  <2>2. Passed(m, c) /\ c = phase
    BY <1>1, <1>4, <1>9, <1>10, <2>1 DEF y, Collapsed
  <2>3. CASE \E i \in DOMAIN ops[u].args : y = ops[u].args[i]
    <3>1. PICK i \in DOMAIN ops[u].args : y = ops[u].args[i]
      BY <2>3
    <3>2. u \in DOMAIN ops /\ ops[u].kind = phase
      BY <1>1 DEF Collapsed
    <3>3. VisitedUse(u, i, m)
      BY <1>8, <2>2 DEF VisitedUse, y
    <3>4. Users(ops, u) = {}
      BY <1>1, <1>8, <2>2, <3>1, <3>2, <3>3 DEF VisitedUnused, y
    <3>5. QED BY <1>1, <1>10, <3>4, UsersAfter
  <2>4. CASE \E i \in DOMAIN ops[Cur].args : y = ops[Cur].args[i]
    <3>1. PICK i \in DOMAIN ops[Cur].args : y = ops[Cur].args[i]
      BY <2>4
    <3>2. VisitedUse(Cur, i, m)
      BY <1>8, <2>2 DEF VisitedUse, y
    <3>3. Users(ops, Cur) = {}
      BY <1>1, <1>4, <1>8, <2>2, <3>1, <3>2 DEF VisitedUnused, y
    <3>4. QED BY <1>4, <3>3
  <2>5. QED BY <2>1, <2>3, <2>4
<1>11. CASE x = u
  BY <1>1, <1>11, UsersAfter
<1>12. CASE x \in DOMAIN ops /\ x # u
  <2>1. j \in DOMAIN ops[x].args /\ y = ops[x].args[j] /\ ops[x].kind = c
    BY <1>1, <1>8, <1>12 DEF Collapsed
  <2>2. <<x, j>> # use
    BY <1>4, <1>12
  <2>3. VisitedUse(x, j, m)
    <3>1. CASE Passed(m, c)
      BY <1>8, <3>1 DEF VisitedUse, y
    <3>2. CASE m = at /\ (pending = {use} \/ <<x, j>> \notin pending \ {use})
      BY <2>2, <3>2 DEF VisitedUse
    <3>3. QED BY <1>9, <3>1, <3>2
  <2>4. Users(ops, x) = {}
    BY <1>1, <1>8, <1>12, <2>1, <2>3 DEF VisitedUnused, y
  <2>5. QED BY <1>1, <1>12, <2>4, UsersAfter
<1>13. QED BY <1>1, <1>10, <1>11, <1>12 DEF Collapsed

LEMMA CollapseBInv ==
  ASSUME BInv, NEW use \in pending, CollapseUse(use)
  PROVE  BInv'
<1>1. phase' = phase /\ phase \in Range(Phases)
  BY CollapseFacts DEF Collapsed, BInv
<1>2. phase' \in Range(Phases)'
  BY <1>1 DEF Range, Phases
<1>3. QED BY <1>2, CollapseBlock, CollapsePending, CollapseSem, CollapseUnused DEF BInv

(* How often an operand is listed, and by whom, when it is not passed.     *)
LEMMA CollapseRepeats ==
  ASSUME BInv, NEW use \in pending, CollapseUse(use), RepeatsPassed,
         phase \in {"add", "multiply"}
  PROVE  RepeatsPassed'
<1> DEFINE u == use[1]
           p == PlaceOf(u)
           S(m) == Shifted(p, m)
<1>1. Collapsed(u)
  BY CollapseFacts
<1>2. /\ at < p /\ p \in DOMAIN block /\ p \in Nat /\ at \in Nat /\ DOMAIN block \subseteq Nat
      /\ block'[p + 1] = Fresh
      /\ \A m \in DOMAIN block : block'[S(m)] = block[m]
      /\ \A k \in DOMAIN block' : k = p + 1 \/ \E m \in DOMAIN block : k = S(m)
  BY BlockAfter
<1>3. /\ Cur \in DOMAIN ops /\ PlaceOf(Cur) = at /\ phase \in Arithmetic
      /\ u \in DOMAIN ops /\ ops[u].kind = phase /\ block[p] = u
  BY <1>1, PendingFacts, PlaceFacts DEF Collapsed
<1>4. Becomes(phase) = phase
  BY DEF Becomes
<1> SUFFICES ASSUME NEW x \in DOMAIN ops', NEW i \in DOMAIN ops'[x].args,
                    NEW j \in DOMAIN ops'[x].args, NEW k \in DOMAIN block',
                    NEW a, a = block'[k], NEW b, b = Becomes(ops'[x].kind),
                    b \in {"add", "multiply"}, b = Becomes(ops'[a].kind),
                    i # j, ops'[x].args[i] = a, ops'[x].args[j] = a
             PROVE  Passed(k, b)'
  BY DEF RepeatsPassed, Passed
<1>5. ASSUME a # Fresh
      PROVE  \E m \in DOMAIN block :
               k = S(m) /\ block[m] = a /\ a \in DOMAIN ops /\ Becomes(ops[a].kind) = b
  <2>1. PICK m \in DOMAIN block : k = S(m)
    BY <1>2, <1>5
  <2>2. block[m] = a /\ a \in DOMAIN ops
    BY <1>2, <2>1 DEF BInv, BlockOK
  <2>3. QED BY <1>1, <2>1, <2>2 DEF Collapsed
<1>6. ASSUME NEW m \in DOMAIN block, k = S(m), Passed(m, b) PROVE Passed(k, b)'
  BY <1>6, PassedAfter
<1> HIDE DEF S
<1>7. CASE x = Fresh
  <2> DEFINE l == Inlined(ops[u], Cur)
             K == KeptBy(u)
             c == Cardinality(K)
  <2>1. i \in DOMAIN l /\ j \in DOMAIN l /\ l[i] = a /\ l[j] = a /\ b = phase
    BY <1>1, <1>4, <1>7 DEF Collapsed
  <2>2. /\ \A h \in DOMAIN l : h <= c =>
             /\ h \in 1 .. c /\ Nth(K, h) \in DOMAIN ops[u].args
             /\ l[h] = ops[u].args[Nth(K, h)]
        /\ \A h \in DOMAIN l : ~ h <= c =>
             h - c \in DOMAIN ops[Cur].args /\ l[h] = ops[Cur].args[h - c]
        /\ \A g, h \in 1 .. c : Nth(K, g) = Nth(K, h) => g = h
    BY <1>3, InlinedFacts
  <2>3. a # Fresh
    BY <1>1, <1>7, NewOperands
  <2>4. PICK m \in DOMAIN block : k = S(m) /\ block[m] = a /\ a \in DOMAIN ops /\ Becomes(ops[a].kind) = b
    BY <1>5, <2>3
  <2> HIDE DEF l, K, c
  <2>5. CASE i <= c /\ j <= c
    <3>1. PICK g, h \in DOMAIN ops[u].args : g # h /\ ops[u].args[g] = a /\ ops[u].args[h] = a
      BY <2>1, <2>2, <2>5
    <3>2. Passed(m, b)
      BY <1>3, <1>4, <2>1, <2>4, <3>1 DEF RepeatsPassed
    <3>3. QED BY <1>6, <2>4, <3>2
  <2>6. CASE ~ (i <= c /\ j <= c)
    <3>1. PICK h \in DOMAIN ops[Cur].args : a = ops[Cur].args[h]
      BY <2>1, <2>2, <2>6
    <3>2. PlaceOf(a) < at
      BY <1>3, <3>1, OperandFacts
    <3>3. PlaceOf(a) = m
      BY <2>4, PlaceFacts
    <3>4. Passed(m, b)
      BY <1>3, <2>1, <3>2, <3>3 DEF Passed
    <3>5. QED BY <1>6, <2>4, <3>4
  <2>7. QED BY <2>5, <2>6
<1>8. CASE x \in DOMAIN ops
  <2>1. /\ i \in DOMAIN ops[x].args /\ j \in DOMAIN ops[x].args /\ Becomes(ops[x].kind) = b
        /\ a = IF ops[x].args[i] = u THEN Fresh ELSE ops[x].args[i]
        /\ a = IF ops[x].args[j] = u THEN Fresh ELSE ops[x].args[j]
    <3>1. /\ ops'[x].kind = ops[x].kind /\ DOMAIN ops'[x].args = DOMAIN ops[x].args
          /\ \A h \in DOMAIN ops[x].args :
               ops'[x].args[h] = IF ops[x].args[h] = u THEN Fresh ELSE ops[x].args[h]
      BY <1>1, <1>8 DEF Collapsed
    <3>2. QED BY <3>1
  <2>2. ops[x].args[i] \in DOMAIN ops /\ ops[x].args[j] \in DOMAIN ops
    BY <1>8, <2>1, OperandFacts
  <2>3. CASE a = Fresh
    <3>1. ops[x].args[i] = u /\ ops[x].args[j] = u
      BY <1>1, <2>1, <2>2, <2>3 DEF Collapsed
    <3>2. b = phase
      BY <1>1, <1>4, <2>3 DEF Collapsed
    <3>3. Passed(p, b)
      BY <1>3, <1>4, <1>8, <1>2, <2>1, <3>1, <3>2 DEF RepeatsPassed
    <3>4. Turn(phase) \in Nat
      BY PhaseFacts
    <3>5. QED BY <1>2, <3>2, <3>3, <3>4 DEF Passed
  <2>4. CASE a # Fresh
    <3>1. ops[x].args[i] = a /\ ops[x].args[j] = a
      BY <2>1, <2>4
    <3>2. PICK m \in DOMAIN block : k = S(m) /\ block[m] = a /\ a \in DOMAIN ops /\ Becomes(ops[a].kind) = b
      BY <1>5, <2>4
    <3>3. Passed(m, b)
      BY <1>8, <2>1, <3>1, <3>2 DEF RepeatsPassed
    <3>4. QED BY <1>6, <3>2, <3>3
  <2>5. QED BY <2>3, <2>4
<1>9. QED BY <1>1, <1>7, <1>8 DEF Collapsed

(* What the new operation computes.                                        *)
LEMMA CollapseValue ==
  ASSUME InliningLaw, BInv, NEW use \in pending, CollapseUse(use),
         RepeatsPassed, Consistent(ops, sem), phase \in {"add", "multiply"}
  PROVE  sem'[Fresh] = Eval(ops'[Fresh], sem')
<1> DEFINE u == use[1]
           q == use[2]
           l == Inlined(ops[u], Cur)
           K == KeptBy(u)
           c == Cardinality(K)
           m == Len(ops[u].args)
           n == Len(ops[Cur].args)
<1>1. Collapsed(u)
  BY CollapseFacts
<1>2. /\ Cur \in DOMAIN ops /\ ops[Cur].kind = phase /\ phase \in Arithmetic
      /\ u \in DOMAIN ops /\ ops[u].kind = phase
      /\ q \in DOMAIN ops[u].args /\ ops[u].args[q] = Cur
      /\ at \in DOMAIN block /\ Cur = block[at] /\ at \in Nat
  BY <1>1, PendingFacts, BlockFacts DEF Collapsed, Cur
<1>3. /\ m \in Nat /\ DOMAIN ops[u].args = 1 .. m
      /\ n \in Nat /\ DOMAIN ops[Cur].args = 1 .. n
  BY <1>2, OpFacts
\* The operation that is inlined is listed once.
<1>4. K = (1 .. m) \ {q}
  <2>1. ASSUME NEW k \in 1 .. m, ops[u].args[k] = Cur, k # q PROVE FALSE
    <3>1. Becomes(phase) = phase
      BY DEF Becomes
    <3>2. Passed(at, phase)
      BY <1>2, <1>3, <2>1, <3>1 DEF RepeatsPassed
    <3>3. Turn(phase) \in Nat
      BY PhaseFacts
    <3>4. QED BY <1>2, <3>2, <3>3 DEF Passed
  <2>2. QED BY <1>2, <1>3, <2>1 DEF KeptBy
<1>5. /\ Len(l) = c + n /\ c \in Nat /\ DOMAIN l = 1 .. c + n
      /\ \A j \in DOMAIN l : j <= c =>
           j \in 1 .. c /\ Nth(K, j) \in DOMAIN ops[u].args /\ l[j] = ops[u].args[Nth(K, j)]
      /\ \A j \in DOMAIN l : ~ j <= c =>
           j - c \in DOMAIN ops[Cur].args /\ l[j] = ops[Cur].args[j - c]
  <2>1. K = KeptBy(u) /\ l = Inlined(ops[u], Cur) /\ c = Cardinality(K) /\ n = Len(ops[Cur].args)
    OBVIOUS
  <2> HIDE DEF K, l, c, n
  <2>2. /\ Cardinality(K) \in Nat /\ Len(l) = Cardinality(K) + Len(ops[Cur].args)
        /\ DOMAIN l = 1 .. Len(l)
        /\ \A j \in DOMAIN l : j <= Cardinality(K) =>
             /\ j \in 1 .. Cardinality(K) /\ Nth(K, j) \in DOMAIN ops[u].args
             /\ l[j] = ops[u].args[Nth(K, j)]
        /\ \A j \in DOMAIN l : ~ j <= Cardinality(K) =>
             /\ j - Cardinality(K) \in DOMAIN ops[Cur].args
             /\ l[j] = ops[Cur].args[j - Cardinality(K)]
    BY <1>2, <2>1, InlinedFacts
  <2>3. QED BY <2>1, <2>2
<1>6. sem[u] = Eval(ops[u], sem) /\ sem[Cur] = Eval(ops[Cur], sem)
  BY <1>2 DEF Consistent, Arithmetic
<1>7. /\ sem[u] = Lift(phase, [k \in 1 .. m |-> sem[ops[u].args[k]]])
      /\ sem[Cur] = Lift(phase, [k \in 1 .. n |-> sem[ops[Cur].args[k]]])
  <2>1. sem[u] = Lift(phase, [k \in DOMAIN ops[u].args |-> sem[ops[u].args[k]]])
    BY <1>2, <1>6, EvalByKind
  <2>2. sem[Cur] = Lift(phase, [k \in DOMAIN ops[Cur].args |-> sem[ops[Cur].args[k]]])
    BY <1>2, <1>6, EvalByKind
  <2>3. QED BY <1>3, <2>1, <2>2
<1>8. \A j \in DOMAIN l : sem'[l[j]] = sem[l[j]]
  <2>1. \A j \in DOMAIN l : l[j] \in DOMAIN ops
    BY <1>1, NewOperands DEF Collapsed
  <2>2. QED BY <1>1, <2>1 DEF Collapsed
<1>9. Eval(ops'[Fresh], sem') = Lift(phase, [j \in DOMAIN l |-> sem[l[j]]])
  <2>1. ops'[Fresh].args = l /\ ops'[Fresh].kind = phase
    BY <1>1 DEF Collapsed
  <2> HIDE DEF l
  <2>2. Eval(ops'[Fresh], sem') = Lift(phase, [j \in DOMAIN l |-> sem'[l[j]]])
    BY <1>2, <2>1, EvalByKind
  <2>3. [j \in DOMAIN l |-> sem'[l[j]]] = [j \in DOMAIN l |-> sem[l[j]]]
    BY <1>8
  <2>4. QED BY <2>2, <2>3
<1>10. \A x \in DOMAIN ops, s \in Slots : sem[x][s] \in Scalars
  <2>1. SemOK
    BY DEF BInv
  <2>2. QED BY <2>1 DEF SemOK, Scalars
<1>11. /\ \A k \in 1 .. m : ops[u].args[k] \in DOMAIN ops
       /\ \A k \in 1 .. n : ops[Cur].args[k] \in DOMAIN ops
  BY <1>2, <1>3, OperandFacts
<1> HIDE DEF u, q, l, K, c, m, n
\* In each slot it is what the law says.
<1>12. ASSUME NEW s \in Slots
       PROVE  Apply(phase, [k \in 1 .. m |-> sem[ops[u].args[k]][s]])
                = Apply(phase, [j \in DOMAIN l |-> sem[l[j]][s]])
  <2> DEFINE xs == [k \in 1 .. m |-> sem[ops[u].args[k]][s]]
             ys == [k \in 1 .. n |-> sem[ops[Cur].args[k]][s]]
             zs == [j \in DOMAIN l |-> sem[l[j]][s]]
             V == Scalars
  <2>1. xs \in [1 .. m -> V] /\ ys \in [1 .. n -> V]
    BY <1>10, <1>11
  <2>2. xs[q] = Apply(phase, ys)
    <3>1. xs[q] = sem[Cur][s]
      BY <1>2, <1>3
    <3>2. sem[Cur][s] = Apply(phase, ys)
      BY <1>7 DEF Lift
    <3>3. QED BY <3>1, <3>2
  <2> HIDE DEF V
  <2>3. Picked(xs, K) \o ys = zs
    <3>1. xs \in Seq(V) /\ ys \in Seq(V) /\ Len(ys) = n /\ DOMAIN xs = 1 .. m
      BY <1>3, <2>1
    <3>2. K \in SUBSET DOMAIN xs
      BY <1>4
    <3>3. \A j \in 1 .. n : ys[j] = sem[ops[Cur].args[j]][s]
      OBVIOUS
    <3>4. \A k \in 1 .. m : xs[k] = sem[ops[u].args[k]][s]
      OBVIOUS
    <3>5. \A j \in DOMAIN l : zs[j] = sem[l[j]][s]
      OBVIOUS
    <3>6. DOMAIN zs = DOMAIN l /\ zs = [j \in DOMAIN zs |-> zs[j]]
      OBVIOUS
    <3> HIDE DEF xs, ys, zs
    <3>7. /\ Picked(xs, K) \in Seq(V) /\ Len(Picked(xs, K)) = c
          /\ \A j \in 1 .. c : Picked(xs, K)[j] = xs[Nth(K, j)]
      <4>1. /\ Picked(xs, K) \in Seq(V) /\ Len(Picked(xs, K)) = Cardinality(K)
            /\ DOMAIN Picked(xs, K) = 1 .. Cardinality(K)
        BY <3>1, <3>2, PickedFacts
      <4>2. \A j \in DOMAIN Picked(xs, K) : Picked(xs, K)[j] = xs[Nth(K, j)]
        BY <3>1, <3>2, PickedFacts
      <4>3. QED BY <4>1, <4>2 DEF c
    <3> DEFINE ps == Picked(xs, K)
               t == ps \o ys
    <3>8. t \in Seq(V) /\ Len(t) = c + n
      BY <3>1, <3>7, ConcatProperties
    <3>9. \A j \in 1 .. Len(ps) + Len(ys) : t[j] = IF j <= Len(ps) THEN ps[j] ELSE ys[j - Len(ps)]
      BY <3>1, <3>7, ConcatProperties
    <3> HIDE DEF t
    <3>10. DOMAIN t = 1 .. c + n /\ t = [j \in 1 .. c + n |-> t[j]]
      BY <3>8
    <3>11. ASSUME NEW j \in 1 .. c + n PROVE t[j] = zs[j]
      <4>1. j \in DOMAIN l /\ zs[j] = sem[l[j]][s]
        BY <1>5, <3>5
      <4>2. CASE j <= c
        <5>1. /\ j \in 1 .. c /\ Nth(K, j) \in 1 .. m /\ l[j] = ops[u].args[Nth(K, j)]
          BY <1>3, <1>5, <4>1, <4>2
        <5>2. t[j] = xs[Nth(K, j)]
          BY <3>1, <3>7, <3>9, <4>2, <5>1
        <5>3. QED BY <3>4, <4>1, <5>1, <5>2
      <4>3. CASE ~ j <= c
        <5>1. j - c \in 1 .. n /\ l[j] = ops[Cur].args[j - c]
          BY <1>3, <1>5, <4>1, <4>3
        <5>2. t[j] = ys[j - c]
          BY <3>1, <3>7, <3>9, <4>3
        <5>3. QED BY <3>3, <4>1, <5>1, <5>2
      <4>4. QED BY <4>2, <4>3
    <3>12. QED BY <1>5, <3>6, <3>10, <3>11 DEF t
  <2> HIDE DEF xs, ys, zs
  <2>4. /\ m + n \in Nat /\ m \in 0 .. m + n /\ n \in 0 .. m + n /\ q \in 1 .. m
    BY <1>2, <1>3
  <2>5. MayInline(V, m + n)
    BY <2>4 DEF InliningLaw, V
  <2>6. Apply(phase, Picked(xs, (1 .. m) \ {q}) \o ys) = Apply(phase, xs)
    <3>1. \A us \in [1 .. m -> V], vs \in [1 .. n -> V] : \A k \in 1 .. m :
            us[k] = Apply(phase, vs)
              => Apply(phase, Picked(us, (1 .. m) \ {k}) \o vs) = Apply(phase, us)
      BY <2>4, <2>5 DEF MayInline
    <3>2. QED BY <2>1, <2>2, <2>4, <3>1
  <2>7. Apply(phase, zs) = Apply(phase, xs)
    BY <1>4, <2>3, <2>6
  <2>8. QED BY <2>7 DEF xs, zs
<1>13. Lift(phase, [j \in DOMAIN l |-> sem[l[j]]]) = Lift(phase, [k \in 1 .. m |-> sem[ops[u].args[k]]])
  <2> DEFINE f == [j \in DOMAIN l |-> sem[l[j]]]
             g == [k \in 1 .. m |-> sem[ops[u].args[k]]]
  <2>1. ASSUME NEW s \in Slots
        PROVE  Apply(phase, [j \in DOMAIN f |-> f[j][s]]) = Apply(phase, [k \in DOMAIN g |-> g[k][s]])
    <3>1. [j \in DOMAIN f |-> f[j][s]] = [j \in DOMAIN l |-> sem[l[j]][s]]
      OBVIOUS
    <3>2. [k \in DOMAIN g |-> g[k][s]] = [k \in 1 .. m |-> sem[ops[u].args[k]][s]]
      OBVIOUS
    <3>3. QED BY <1>12, <3>1, <3>2
  <2> HIDE DEF f, g
  <2>2. Lift(phase, f) = Lift(phase, g)
    BY <2>1 DEF Lift
  <2>3. QED BY <2>2 DEF f, g
<1>14. sem'[Fresh] = sem[u]
  BY <1>1 DEF Collapsed
<1>15. QED BY <1>7, <1>9, <1>13, <1>14

LEMMA CollapseMeaning ==
  ASSUME InliningLaw, BInv, Meaning, NEW use \in pending, CollapseUse(use)
  PROVE  Meaning'
<1> DEFINE u == use[1]
<1>1. Collapsed(u)
  BY CollapseFacts
<1> SUFFICES ASSUME ~RepeatsOperand(src), ~NestsDifference(src)
             PROVE  RepeatsPassed' /\ NoDifferenceNested' /\ Consistent(ops', sem')
  BY <1>1 DEF Meaning, Collapsed
<1>2. RepeatsPassed /\ NoDifferenceNested /\ Consistent(ops, sem)
  BY DEF Meaning
<1>3. phase \in {"add", "multiply"} /\ Becomes(phase) = phase
  <2>1. /\ u \in DOMAIN ops /\ ops[u].kind = phase /\ use[2] \in DOMAIN ops[u].args
        /\ ops[u].args[use[2]] = Cur /\ ops[Cur].kind = phase /\ phase \in Arithmetic
    BY <1>1, PendingFacts DEF Collapsed
  <2>2. Becomes(phase) = phase
    BY <2>1 DEF Becomes, Arithmetic
  <2>3. phase # "sub"
    BY <1>2, <2>1, <2>2 DEF NoDifferenceNested
  <2>4. QED BY <2>1, <2>2, <2>3 DEF Arithmetic
<1>4. RepeatsPassed'
  BY <1>2, <1>3, CollapseRepeats
<1>5. NoDifferenceNested'
  <2> SUFFICES ASSUME NEW x \in DOMAIN ops', NEW j \in DOMAIN ops'[x].args,
                      Becomes(ops'[x].kind) = "sub", Becomes(ops'[ops'[x].args[j]].kind) = "sub"
               PROVE  FALSE
    BY DEF NoDifferenceNested
  <2>1. x # Fresh
    BY <1>1, <1>3 DEF Collapsed
  <2>2. x \in DOMAIN ops /\ j \in DOMAIN ops[x].args /\ ops'[x].kind = ops[x].kind
    BY <1>1, <2>1 DEF Collapsed
  <2>3. ops'[ops'[x].args[j]].kind = ops[ops[x].args[j]].kind
    BY <1>1, <2>2, OperandsAfter
  <2>4. QED BY <1>2, <2>2, <2>3 DEF NoDifferenceNested
<1>6. Consistent(ops', sem')
  <2> SUFFICES ASSUME NEW y \in DOMAIN ops', ops'[y].kind # "arg"
               PROVE  sem'[y] = Eval(ops'[y], sem')
    BY DEF Consistent
  <2>1. CASE y = Fresh
    BY <1>2, <1>3, <2>1, CollapseValue
  <2>2. CASE y \in DOMAIN ops
    <3> DEFINE o == ops[y]
               z == ops'[y]
    <3>1. /\ z.kind = o.kind /\ z.i = o.i /\ z.val = o.val /\ z.slots = o.slots
          /\ DOMAIN z.args = DOMAIN o.args /\ sem'[y] = sem[y]
      BY <1>1, <2>2 DEF Collapsed
    <3>2. o.kind \in Kinds
      BY <2>2, OpFacts
    <3>3. /\ o.kind \in Arithmetic \/ o.kind \in {"arg", "constant"} \/ 1 \in DOMAIN o.args
          /\ o.kind \in {"insert", "combine"} => 2 \in DOMAIN o.args
      BY <2>2 DEF BInv, OpsOK
    <3>4. \A j \in DOMAIN o.args : sem[o.args[j]] = sem'[z.args[j]]
      BY <1>1, <2>2, OperandsAfter
    <3>5. sem[y] = Eval(o, sem)
      BY <1>2, <2>2, <3>1 DEF Consistent
    <3> HIDE DEF o
    <3>6. Eval(o, sem) = Eval(z, sem')
      BY <3>1, <3>2, <3>3, <3>4, EvalAgrees
    <3>7. QED BY <3>1, <3>5, <3>6
  <2>3. QED BY <1>1, <2>1, <2>2 DEF Collapsed
<1>7. QED BY <1>4, <1>5, <1>6

-----------------------------------------------------------------------------
(* The invariants are inductive, the second one because of the first.      *)
LEMMA NextInv ==
  ASSUME BInv, [Next]_vars
  PROVE  BInv' /\ (InliningLaw /\ Meaning => Meaning')
<1>1. CASE Skip
  BY <1>1, SkipInv
<1>2. CASE ConvertToDialect
  BY <1>2, ConvertInv
<1>3. CASE Visit
  BY <1>3, VisitInv
<1>4. CASE VisitUse
  <2>1. PICK use \in pending : CollapseUse(use) \/ LeaveUse(use)
    BY <1>4 DEF VisitUse
  <2>2. CASE CollapseUse(use)
    BY <2>2, CollapseBInv, CollapseMeaning
  <2>3. CASE LeaveUse(use)
    BY <2>3, LeaveUseInv
  <2>4. QED BY <2>1, <2>2, <2>3
<1>5. CASE LoopEnds
  BY <1>5, LoopEndsInv
<1>6. CASE UNCHANGED vars
  <2>1. UNCHANGED <<src, ops, sem, block, phase, at, pending>>
    BY <1>6 DEF vars
  <2>2. \A k, kind : Passed(k, kind)' <=> Passed(k, kind)
    BY <2>1 DEF Passed, Turn, Phases, Arithmetic
  <2>3. \A x, j, k : VisitedUse(x, j, k)' <=> VisitedUse(x, j, k)
    BY <2>1, <2>2 DEF VisitedUse
  <2>4. VisitedUnused'
    BY <2>1, <2>3 DEF BInv, VisitedUnused
  <2>5. PendingOK'
    BY <2>1 DEF BInv, PendingOK, InBlock, Collapsing, Cur, UsesOf, Arithmetic
  <2>6. QED BY <2>1, <2>2, <2>4, <2>5, StillInv DEF BInv
<1>7. QED BY <1>1, <1>2, <1>3, <1>4, <1>5, <1>6 DEF Next

LEMMA BInvTyped == BInv => TypeOK
<1> SUFFICES ASSUME BInv PROVE TypeOK
  OBVIOUS
<1>1. /\ BlockOK /\ OpsOK /\ OperandsBefore /\ PendingOK
      /\ phase \in Range(Phases) /\ at \in 1 .. Len(block) + 1
  BY DEF BInv
<1>2. DOMAIN ops = Range(block)
  BY <1>1 DEF BlockOK, Range
<1>3. Len(block) = Cardinality(DOMAIN ops)
  BY <1>1, BlockFacts, PlacesCounted DEF BlockOK
<1>4. ASSUME NEW k \in DOMAIN block
      PROVE  /\ ops[block[k]] \in Op
             /\ \A y \in Range(ops[block[k]].args) : \E m \in 1 .. k - 1 : block[m] = y
  <2>1. ops[block[k]] \in Op
    BY <1>1 DEF BlockOK, OpsOK
  <2>2. \A j \in DOMAIN ops[block[k]].args : \E m \in 1 .. k - 1 : block[m] = ops[block[k]].args[j]
    BY <1>1 DEF OperandsBefore
  <2>3. QED BY <2>1, <2>2 DEF Range
<1>5. \A use \in pending : ops[use[1]].args[use[2]] = Cur
  BY PendingFacts
<1>6. QED BY <1>1, <1>2, <1>3, <1>4, <1>5 DEF TypeOK

(***************************************************************************)
(* The nary pass keeps the block in order whatever it collapses: every     *)
(* operation is listed once, after those it uses, although operations are  *)
(* placed in the block while it is walked through.                         *)
(***************************************************************************)
THEOREM NaryTypeCorrect == Spec => []TypeOK
<1>1. Init => BInv
  BY InitInv
<1>2. BInv /\ [Next]_vars => BInv'
  BY NextInv
<1>3. QED BY <1>1, <1>2, BInvTyped, PTL DEF Spec

(***************************************************************************)
(* In every arithmetic in which a sum may be inlined into a sum and a      *)
(* product into a product, the function returns what it returned before,   *)
(* provided that no sum or product lists one of its kind twice and no      *)
(* difference lists a difference.                                          *)
(***************************************************************************)
THEOREM NaryPreservesMeaning == InliningLaw => (Spec => []MeaningPreserved)
<1> SUFFICES ASSUME InliningLaw PROVE Spec => []MeaningPreserved
  OBVIOUS
<1>1. Init => IInv
  BY InitInv DEF IInv
<1>2. IInv /\ [Next]_vars => IInv'
  BY NextInv DEF IInv
<1>3. IInv => MeaningPreserved
  BY DEF IInv, BInv, SemOK, Meaning, MeaningPreserved, ReturnsSame
<1>4. QED BY <1>1, <1>2, <1>3, PTL DEF Spec

(***************************************************************************)
(* One walk for each kind is enough: when the pass is done, nothing that   *)
(* is used has an operand of its own kind left.  So the pass collapses all *)
(* there is, if it ends at all.                                            *)
(***************************************************************************)
THEOREM NaryCollapses == Spec => []FlatWhenDone /\ (Ends => Collapses)
<1>1. Init => BInv
  BY InitInv
<1>2. BInv /\ [Next]_vars => BInv'
  BY NextInv
<1>3. BInv => FlatWhenDone
  <2> SUFFICES ASSUME BInv, phase = "done", NEW x \in DOMAIN ops, ops[x].kind \in Arithmetic,
                      Users(ops, x) # {}, NEW j \in DOMAIN ops[x].args,
                      ops[ops[x].args[j]].kind = ops[x].kind
               PROVE  FALSE
    BY DEF FlatWhenDone, Flat, Range
  <2>1. \A kind \in Arithmetic : Turn(kind) < Turn("done")
    BY PhaseFacts DEF Arithmetic
  <2>2. PICK k \in DOMAIN block : block[k] = ops[x].args[j]
    BY OperandFacts, PlaceFacts
  <2>3. VisitedUse(x, j, k)
    BY <2>1, <2>2 DEF VisitedUse, Passed
  <2>4. QED BY <2>2, <2>3 DEF BInv, VisitedUnused
<1>4. FlatWhenDone /\ phase = "done" => phase = "done" /\ Flat
  BY DEF FlatWhenDone
<1>5. QED BY <1>1, <1>2, <1>3, <1>4, PTL DEF Spec, Ends, Collapses
=============================================================================
