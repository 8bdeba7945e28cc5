----------------------- MODULE InternalBatching_proofs -----------------------
(***************************************************************************)
(* Proofs about the internal operand batching pass, for any number of      *)
(* slots and any programs and, where it says so, any arithmetic in which   *)
(* the order of a sum's terms does not matter and sums may be nested.      *)
(***************************************************************************)
EXTENDS InternalBatching, HIRLemmas, StructureLemmas

(* The invariant. *)

\* The vector that an operation of the source is a rotation of, and by how much.
From(y) == IF src.ops[y].kind = "rotate" THEN src.ops[y].args[1] ELSE y

By(y) ==
  CASE src.ops[y].type # "batched" \/ src.ops[y].kind = "constant" -> Anywhere
    [] src.ops[y].kind = "rotate"                                  -> src.ops[y].i
    [] OTHER                                                       -> 0

\* Operations whose operands the pass may have replaced.
Touched(x) ==
  NeedsBatching(src.ops[x]) /\ (x[1] < n \/ (x = Cur /\ pc \in {"origins", "halving"}))

SourceKept ==
  /\ src \in Source
  /\ \A x \in DOMAIN src.ops :
       /\ x \in DOMAIN ops
       /\ ops[x] = [src.ops[x] EXCEPT !.args = ops[x].args]
       /\ ~Touched(x) => ops[x] = src.ops[x]

\* What the pass placed is in order and before the operation it is for.
Placement ==
  /\ \A x \in DOMAIN ops :
       /\ x \in Position
       /\ x[2] = 0 <=> x \in DOMAIN src.ops
       /\ x[2] > 0 => x[1] < n /\ ops[x].kind \in {"add", "rotate"}
  /\ \E c \in Nat : Made = {<<n - 1, m>> : m \in 1 .. c}

\* The operands that are rotations of o, and whether the pass reduces them;
\* whatever it has already replaced, it is what UsesOf and Reducible say.
RotationsOf(o) == {k \in DOMAIN uses : From(uses[k]) = o}

CountOf(o) == Cardinality(RotationsOf(o))

Reduced(o) ==
  /\ CountOf(o) > 1
  /\ {By(uses[k]) : k \in RotationsOf(o)} = 0 .. CountOf(o) - 1
  /\ IsPowerOfTwo(CountOf(o))

\* An origin is done with once it is reduced, but not when it is ignored.
Kept == {k \in DOMAIN uses : (\E i \in DOMAIN origins : origins[i] = From(uses[k]))
                               \/ ~Reduced(From(uses[k]))}

FromSource == {p \in DOMAIN ops[Cur].args : ops[Cur].args[p] \in DOMAIN src.ops}

OperandsKept ==
  /\ \E g \in [FromSource -> Kept] :
       /\ \A p, q \in FromSource : g[p] = g[q] => p = q
       /\ \A k \in Kept : \E p \in FromSource : g[p] = k
       /\ \A p \in FromSource : ops[Cur].args[p] = uses[g[p]]
  /\ \A p \in DOMAIN ops[Cur].args \ FromSource : ops[ops[Cur].args[p]].kind = "add"

LoopInv ==
  pc \in {"origins", "halving"} =>
    /\ Cur \in DOMAIN src.ops
    /\ NeedsBatching(src.ops[Cur])
    /\ uses = src.ops[Cur].args
    /\ origins \in Seq(Position)
    /\ \A i, k \in DOMAIN origins : origins[i] = origins[k] => i = k
    /\ OperandsKept

HalvingInv ==
  pc = "halving" =>
    /\ origins # << >>
    /\ Reduced(Head(origins))
    /\ prev \in DOMAIN ops
    /\ prev[1] < n
    /\ ops[prev].type = "batched"
    /\ half = 0 => prev[2] > 0
    /\ prev[2] > 0 => ops[prev].kind = "add"

DoneInv ==
  /\ \A x \in Batched(src) : x[1] < n => ReducibleIn([ops |-> ops], x) = {}
  /\ pc = "done" => Cur \notin DOMAIN src.ops

BInv == TypeOK /\ SourceKept /\ Placement /\ LoopInv /\ HalvingInv /\ DoneInv

\* The values of a vector in t slots, from slot s on and h apart.
At(w, s, i, h) == w[(s + (i - 1) * h) % N]

Terms(w, s, h, t) == [i \in 1 .. t |-> At(w, s, i, h)]

\* Vector v sums them up for every slot.
SumsUp(v, w, h, t) == \A s \in Slots : v[s] = Sum(Terms(w, s, h, t))

\* The sum so far is one of every h-th slot, which is what is left to rotate.
Halved ==
  pc = "halving" =>
    \E t, h \in Nat \ {0} : t * h = N /\ half = h \div 2
      /\ SumsUp(sem[prev], sem[Head(origins)], h, t)

\* Every scalar is in V.
Values(V) == \A x \in DOMAIN ops : \A s \in Slots : sem[x][s] \in V

Meaning(V) ==
  OnlyFullSums(src) =>
    /\ Consistent(ops, sem)
    /\ \A x \in DOMAIN src.ops : sem[x] = src.sem[x]
    /\ Values(V)
    /\ Halved

-----------------------------------------------------------------------------
(* Division with remainder by any number. *)
LEMMA RemainderUnique ==
  ASSUME NEW d \in Nat \ {0}, NEW q \in Int, NEW p \in Int,
         NEW r \in 0 .. d - 1, NEW s \in 0 .. d - 1, d * q + r = d * p + s
  PROVE  q = p /\ r = s
<1>1. d \in Int /\ d > 0 /\ d * p \in Int /\ d * q \in Int
  OBVIOUS
<1>2. ~(q >= p + 1)
  <2> SUFFICES ASSUME q >= p + 1 PROVE FALSE
    OBVIOUS
  <2>1. d * q >= d * (p + 1)
    BY <1>1, SMT
  <2>2. d * (p + 1) = d * p + d
    BY <1>1, SMT
  <2>3. QED BY <1>1, <2>1, <2>2, SMT
<1>3. ~(p >= q + 1)
  <2> SUFFICES ASSUME p >= q + 1 PROVE FALSE
    OBVIOUS
  <2>1. d * p >= d * (q + 1)
    BY <1>1, SMT
  <2>2. d * (q + 1) = d * q + d
    BY <1>1, SMT
  <2>3. QED BY <1>1, <2>1, <2>2, SMT
<1>4. q = p
  BY <1>2, <1>3
<1>5. QED BY <1>1, <1>4, SMT

LEMMA FactorDivides ==
  ASSUME NEW t \in Nat \ {0}, NEW h \in Nat \ {0}
  PROVE  /\ t * h \in Nat \ {0} /\ h <= t * h /\ (t * h) % h = 0
<1> DEFINE m == t * h
<1>1. m \in Nat
  OBVIOUS
<1>2. m >= h
  <2>1. t = (t - 1) + 1 /\ t - 1 \in Nat
    OBVIOUS
  <2>2. m = (t - 1) * h + h
    BY <2>1, SMT
  <2>3. (t - 1) * h \in Nat
    BY <2>1, SMT
  <2>4. QED BY <2>2, <2>3
<1>3. m % h \in 0 .. h - 1 /\ m \div h \in Int /\ m = h * (m \div h) + (m % h)
  BY <1>1, SMT
<1>4. m = h * t + 0 /\ 0 \in 0 .. h - 1
  OBVIOUS
<1> HIDE DEF m
<1>5. m % h = 0
  BY <1>3, <1>4, RemainderUnique
<1>6. QED BY <1>1, <1>2, <1>5 DEF m

(* An index and the ones whole vectors away name the same slot; so indices *)
(* may be reduced at any time.                                             *)
LEMMA SlotOfSum ==
  ASSUME NEW a \in Int, NEW b \in Int
  PROVE  ((a % N) + b) % N = (a + b) % N
<1> DEFINE x == (a % N) + b
           y == a + b
<1>1. N \in Int /\ a % N \in Int
  BY NAssumption, IndexNamesSlot DEF Slots
<1>2. x \in Int /\ y \in Int
  BY <1>1
<1>3. a = N * (a \div N) + (a % N) /\ a \div N \in Int
  BY DivisionFacts
<1>4. /\ x = N * (x \div N) + (x % N) /\ x \div N \in Int /\ x % N \in Slots
      /\ y = N * (y \div N) + (y % N) /\ y \div N \in Int /\ y % N \in Slots
  BY <1>2, DivisionFacts
<1>5. y = x + N * (a \div N)
  <2>1. N * (a \div N) \in Int
    BY <1>1, <1>3
  <2>2. QED BY <1>1, <1>3, <2>1
<1> HIDE DEF x, y
<1>6. N * ((x \div N) + (a \div N)) = N * (x \div N) + N * (a \div N)
  BY <1>1, <1>3, <1>4, SMT
<1>7. N * ((x \div N) + (a \div N)) + (x % N) = N * (y \div N) + (y % N)
  <2>1. N * (x \div N) \in Int /\ N * (a \div N) \in Int /\ x % N \in Int /\ y % N \in Int
        /\ N * (y \div N) \in Int
    BY <1>1, <1>3, <1>4 DEF Slots
  <2>2. QED BY <1>2, <1>4, <1>5, <1>6, <2>1
<1>8. x % N = y % N
  <2>1. (x \div N) + (a \div N) \in Int
    BY <1>3, <1>4
  <2>2. QED BY <1>4, <1>7, <2>1, DivisionUnique
<1>9. QED BY <1>8 DEF x, y

LEMMA SlotOfDifference ==
  ASSUME NEW a \in Int, NEW b \in Int
  PROVE  (a - (b % N)) % N = (a - b) % N
<1> DEFINE q == b \div N
           x == a - (b % N)
           y == a - b
<1>1. N \in Int /\ b % N \in Int
  BY NAssumption, IndexNamesSlot DEF Slots
<1>2. b = N * q + (b % N) /\ q \in Int
  BY DivisionFacts
<1> HIDE DEF q
<1>3. x \in Int /\ y \in Int /\ N * q \in Int
  BY <1>1, <1>2
<1>4. /\ x = N * (x \div N) + (x % N) /\ x \div N \in Int /\ x % N \in Slots
      /\ y = N * (y \div N) + (y % N) /\ y \div N \in Int /\ y % N \in Slots
  BY <1>3, DivisionFacts
<1>5. x = y + N * q
  BY <1>1, <1>2, <1>3
<1> HIDE DEF x, y
<1>6. N * ((y \div N) + q) = N * (y \div N) + N * q
  BY <1>1, <1>2, <1>4, SMT
<1>7. N * ((y \div N) + q) + (y % N) = N * (x \div N) + (x % N)
  <2>1. N * (x \div N) \in Int /\ x % N \in Int /\ y % N \in Int /\ N * (y \div N) \in Int
    BY <1>1, <1>4 DEF Slots
  <2>2. QED BY <1>3, <1>4, <1>5, <1>6, <2>1
<1>8. x % N = y % N
  <2>1. (y \div N) + q \in Int
    BY <1>2, <1>4
  <2>2. QED BY <1>4, <1>7, <2>1, DivisionUnique
<1>9. QED BY <1>8 DEF x, y

(* Half of a distance that divides a power of two.                         *)
LEMMA DistanceHalves ==
  ASSUME IsPowerOfTwo(N), NEW t \in Nat \ {0}, NEW h \in Nat \ {0}, t * h = N, h \div 2 > 0
  PROVE  /\ h = 2 * (h \div 2) /\ h \div 2 \in Nat \ {0}
         /\ (2 * t) * (h \div 2) = N /\ 2 * t \in Nat \ {0}
<1>1. h <= N /\ N % h = 0
  BY FactorDivides
<1>2. h \in 2 .. N
  BY <1>1, NAssumption
<1>3. h % 2 = 0
  BY <1>1, <1>2 DEF IsPowerOfTwo
<1>4. h = 2 * (h \div 2) /\ h \div 2 \in Nat \ {0}
  BY <1>3
<1> DEFINE k == h \div 2
<1>5. k \in Nat \ {0} /\ h = 2 * k
  BY <1>4
<1> HIDE DEF k
<1>6. (2 * t) * k = t * h
  BY <1>5, SMT
<1>7. QED BY <1>4, <1>6 DEF k

-----------------------------------------------------------------------------
(* The laws of sums, with the sets of values and of widths taken apart.    *)
Laws(V) ==
  /\ \A w \in Nat : SumsAddUp(V, w)
  /\ \A m \in Nat \ {0} : \A xs \in [1 .. m -> V] : Sum(xs) \in V

\* Lists of m values, and the library's operators under names of their own.
Lists(V, m) == [1 .. m -> V]
Joined(ys, xs) == ys \o xs
Added(ys, a) == Append(ys, a)

LEMMA LawFacts ==
  ASSUME NEW V, Laws(V), NEW m \in Nat \ {0}, NEW xs \in Lists(V, m)
  PROVE  /\ \A q \in Shuffles(m) : Sum([k \in 1 .. m |-> xs[q[k]]]) = Sum(xs)
         /\ m = 1 => Sum(xs) = xs[1]
         /\ \A l \in Nat : \A ys \in Lists(V, l) : Sum(Added(ys, Sum(xs))) = Sum(Joined(ys, xs))
         /\ Sum(xs) \in V
<1>1. SumsAddUp(V, m) /\ m \in 1 .. m
  BY DEF Laws
<1>2. ASSUME NEW l \in Nat, NEW ys \in Lists(V, l)
      PROVE  Sum(Added(ys, Sum(xs))) = Sum(Joined(ys, xs))
  <2>1. m + l \in Nat /\ m \in 1 .. m + l /\ l \in 0 .. m + l
    OBVIOUS
  <2>2. SumsAddUp(V, m + l)
    BY <2>1 DEF Laws
  <2>3. QED BY <2>1, <2>2 DEF SumsAddUp, Added, Joined, Lists
<1>3. QED BY <1>1, <1>2 DEF SumsAddUp, Laws, Lists

LEMMA Rearranged ==
  ASSUME NEW V, Laws(V), NEW m \in Nat \ {0}, NEW xs \in Lists(V, m),
         NEW zs \in Lists(V, m), NEW q \in Shuffles(m), \A k \in 1 .. m : zs[k] = xs[q[k]]
  PROVE  Sum(zs) = Sum(xs)
<1>1. zs = [k \in 1 .. m |-> xs[q[k]]]
  BY DEF Lists
<1>2. QED BY <1>1, LawFacts

LEMMA JoinFacts ==
  ASSUME NEW V, NEW l \in Nat, NEW m \in Nat, NEW ys \in Lists(V, l), NEW xs \in Lists(V, m)
  PROVE  /\ Joined(ys, xs) \in Lists(V, l + m)
         /\ \A k \in 1 .. l + m : Joined(ys, xs)[k] = IF k <= l THEN ys[k] ELSE xs[k - l]
<1>1. ys \in Seq(V) /\ Len(ys) = l /\ xs \in Seq(V) /\ Len(xs) = m
  BY DEF Lists
<1> DEFINE c == Joined(ys, xs)
<1>2. /\ c \in Seq(V) /\ Len(c) = l + m
      /\ \A k \in 1 .. l + m : c[k] = IF k <= l THEN ys[k] ELSE xs[k - l]
  BY <1>1, ConcatProperties DEF Joined
<1> HIDE DEF c
<1>3. c \in Lists(V, Len(c))
  BY <1>2 DEF Lists
<1>4. QED BY <1>2, <1>3 DEF c

LEMMA AddedFacts ==
  ASSUME NEW V, NEW l \in Nat, NEW ys \in Lists(V, l), NEW a \in V
  PROVE  /\ Added(ys, a) \in Lists(V, l + 1)
         /\ \A k \in 1 .. l + 1 : Added(ys, a)[k] = IF k = l + 1 THEN a ELSE ys[k]
<1>1. ys \in Seq(V) /\ Len(ys) = l
  BY DEF Lists
<1> DEFINE c == Added(ys, a)
<1>2. /\ c \in Seq(V) /\ Len(c) = l + 1
      /\ \A k \in 1 .. l : c[k] = ys[k]
      /\ c[l + 1] = a
  BY <1>1, AppendProperties DEF Added
<1> HIDE DEF c
<1>3. c \in Lists(V, Len(c))
  BY <1>2 DEF Lists
<1>4. ASSUME NEW k \in 1 .. l + 1 PROVE c[k] = IF k = l + 1 THEN a ELSE ys[k]
  <2>1. k = l + 1 \/ k \in 1 .. l
    OBVIOUS
  <2>2. QED BY <1>2, <2>1
<1>5. QED BY <1>2, <1>3, <1>4 DEF c

(* A sum as the last term is as good as its terms.                         *)
LEMMA NestedLast ==
  ASSUME NEW V, Laws(V), NEW l \in Nat, NEW ys \in Lists(V, l),
         NEW m \in Nat \ {0}, NEW xs \in Lists(V, m), NEW a, a = Sum(xs)
  PROVE  a \in V /\ Sum(Added(ys, a)) = Sum(Joined(ys, xs))
BY LawFacts

LEMMA PairIsAdded ==
  ASSUME NEW V, NEW a \in V, NEW b \in V
  PROVE  <<a>> \in Lists(V, 1) /\ Added(<<a>>, b) = <<a, b>>
<1>1. <<a>> \in Seq(V) /\ Len(<<a>>) = 1 /\ <<a>>[1] = a
  OBVIOUS
<1> DEFINE one == <<a>>
<1>2. one \in Seq(V) /\ Len(one) = 1 /\ one[1] = a
  BY <1>1
<1> HIDE DEF one
<1>3. one \in Lists(V, 1)
  BY <1>2 DEF Lists
<1>4. Added(one, b) \in Lists(V, 1 + 1) /\ \A k \in 1 .. 1 + 1 : Added(one, b)[k] = IF k = 1 + 1 THEN b ELSE one[k]
  BY <1>3, AddedFacts
<1> DEFINE c == Added(one, b)
           d == <<a, b>>
<1> HIDE DEF c
<1>5. c \in Lists(V, 2) /\ c[1] = a /\ c[2] = b
  BY <1>2, <1>4 DEF c, Lists
<1>6. d \in Lists(V, 2) /\ d[1] = a /\ d[2] = b
  BY DEF Lists
<1> HIDE DEF d
<1>7. c = d
  BY <1>5, <1>6 DEF Lists
<1>8. QED BY <1>3, <1>7 DEF c, d, one

(* The first term may as well be the last.                                 *)
LEMMA FirstToLast ==
  ASSUME NEW V, Laws(V), NEW t \in Nat \ {0}, NEW a \in V, NEW ys \in Lists(V, t),
         NEW cs \in Lists(V, t + 1), NEW ds \in Lists(V, t + 1),
         \A k \in 1 .. t + 1 : cs[k] = IF k <= 1 THEN a ELSE ys[k - 1],
         \A k \in 1 .. t + 1 : ds[k] = IF k = t + 1 THEN a ELSE ys[k]
  PROVE  Sum(cs) = Sum(ds)
<1> DEFINE q == [k \in 1 .. t + 1 |-> IF k = t + 1 THEN 1 ELSE k + 1]
<1>1. q \in Shuffles(t + 1)
  BY DEF Shuffles
<1>2. ASSUME NEW k \in 1 .. t + 1 PROVE ds[k] = cs[q[k]]
  <2>1. CASE k = t + 1
    <3>1. ds[k] = a /\ q[k] = 1 /\ cs[1] = a
      BY <2>1
    <3>2. QED BY <3>1
  <2>2. CASE k # t + 1
    <3>1. q[k] = k + 1 /\ k + 1 \in 1 .. t + 1 /\ ~ k + 1 <= 1 /\ (k + 1) - 1 = k
      BY <2>2
    <3> HIDE DEF q
    <3>2. cs[k + 1] = ys[k] /\ ds[k] = ys[k]
      BY <2>2, <3>1
    <3>3. QED BY <3>1, <3>2
  <2>3. QED BY <2>1, <2>2
<1>3. t + 1 \in Nat \ {0}
  OBVIOUS
<1>4. \A k \in 1 .. t + 1 : ds[k] = cs[q[k]]
  BY <1>2
<1> HIDE DEF q
<1>5. Sum(ds) = Sum(cs)
  BY <1>1, <1>3, <1>4, Rearranged
<1>6. QED BY <1>5

(* The terms of two lists of the same length, one after the other or by    *)
(* turns.                                                                  *)
LEMMA ByTurns ==
  ASSUME NEW V, Laws(V), NEW t \in Nat \ {0}, NEW xs \in Lists(V, t), NEW ys \in Lists(V, t),
         NEW es \in Lists(V, t + t), NEW zs \in Lists(V, 2 * t),
         \A k \in 1 .. t + t : es[k] = IF k <= t THEN ys[k] ELSE xs[k - t],
         \A j \in 1 .. t : zs[2 * j - 1] = xs[j] /\ zs[2 * j] = ys[j]
  PROVE  Sum(zs) = Sum(es)
<1> DEFINE m == t + t
           q == [k \in 1 .. m |-> IF k % 2 = 1 THEN t + (k + 1) \div 2 ELSE k \div 2]
<1>1. m \in Nat \ {0} /\ 2 * t = m
  OBVIOUS
<1>2. \A k \in 1 .. m : \E j \in 1 .. t : \/ k = 2 * j - 1 /\ q[k] = t + j
                                          \/ k = 2 * j /\ q[k] = j
  <2> TAKE k \in 1 .. m
  <2>1. CASE k % 2 = 1
    <3>1. (k + 1) \div 2 \in 1 .. t /\ k = 2 * ((k + 1) \div 2) - 1
      <4>1. k \in Int /\ t \in Int /\ 1 <= k /\ k <= t + t
        OBVIOUS
      <4>2. k = 2 * (k \div 2) + 1
        BY <2>1, <4>1
      <4>3. (k + 1) \div 2 = (k \div 2) + 1
        BY <4>1, <4>2
      <4>4. QED BY <4>1, <4>2, <4>3
    <3>2. q[k] = t + (k + 1) \div 2
      BY <2>1
    <3>3. QED BY <3>1, <3>2
  <2>2. CASE k % 2 # 1
    <3>1. k \div 2 \in 1 .. t /\ k = 2 * (k \div 2)
      BY <2>2
    <3>2. q[k] = k \div 2
      BY <2>2
    <3>3. QED BY <3>1, <3>2
  <2>3. QED BY <2>1, <2>2
<1>3. DOMAIN q = 1 .. m /\ q = [k \in 1 .. m |-> q[k]]
  OBVIOUS
<1> HIDE DEF q
<1>4. q \in Shuffles(m)
  <2>1. ASSUME NEW k \in 1 .. m PROVE q[k] \in 1 .. m
    <3>1. PICK j \in 1 .. t : \/ k = 2 * j - 1 /\ q[k] = t + j
                              \/ k = 2 * j /\ q[k] = j
      BY <1>2
    <3>2. QED BY <3>1
  <2>2. q \in [1 .. m -> 1 .. m]
    BY <1>3, <2>1
  <2>3. ASSUME NEW k \in 1 .. m, NEW l \in 1 .. m, q[k] = q[l] PROVE k = l
    <3>1. PICK i \in 1 .. t : \/ k = 2 * i - 1 /\ q[k] = t + i
                              \/ k = 2 * i /\ q[k] = i
      BY <1>2
    <3>2. PICK j \in 1 .. t : \/ l = 2 * j - 1 /\ q[l] = t + j
                              \/ l = 2 * j /\ q[l] = j
      BY <1>2
    <3>3. QED BY <2>3, <3>1, <3>2
  <2>4. QED BY <2>2, <2>3 DEF Shuffles
<1>5. \A k \in 1 .. m : zs[k] = es[q[k]]
  <2> TAKE k \in 1 .. m
  <2>1. PICK j \in 1 .. t : \/ k = 2 * j - 1 /\ q[k] = t + j
                            \/ k = 2 * j /\ q[k] = j
    BY <1>2
  <2>2. CASE k = 2 * j - 1 /\ q[k] = t + j
    <3>1. t + j \in 1 .. t + t /\ ~ t + j <= t /\ (t + j) - t = j
      OBVIOUS
    <3>2. es[t + j] = xs[j]
      BY <3>1
    <3>3. QED BY <2>2, <3>2
  <2>3. CASE k = 2 * j /\ q[k] = j
    <3>1. j \in 1 .. t + t /\ j <= t
      OBVIOUS
    <3>2. es[j] = ys[j]
      BY <3>1
    <3>3. QED BY <2>3, <3>2
  <2>4. QED BY <2>1, <2>2, <2>3
<1>6. es \in Lists(V, m) /\ zs \in Lists(V, m)
  BY <1>1
<1> HIDE DEF m
<1>7. QED BY <1>1, <1>4, <1>5, <1>6, Rearranged

(* Two sums of as many terms are the sum of the terms of both, taken by    *)
(* turns.                                                                  *)
LEMMA SumOfTwoSums ==
  ASSUME NEW V, Laws(V), NEW t \in Nat \ {0}, NEW xs \in Lists(V, t), NEW ys \in Lists(V, t),
         NEW zs \in Lists(V, 2 * t),
         \A j \in 1 .. t : zs[2 * j - 1] = xs[j] /\ zs[2 * j] = ys[j]
  PROVE  Sum(<<Sum(xs), Sum(ys)>>) = Sum(zs)
<1> DEFINE a == Sum(xs)
           b == Sum(ys)
           one == <<a>>
           cs == Joined(one, ys)
           ds == Added(ys, a)
           es == Joined(ys, xs)
<1> HIDE DEF a, b, one, cs, ds, es
<1>1. a \in V /\ b \in V
  BY LawFacts DEF a, b
<1>2. one \in Lists(V, 1) /\ Added(one, b) = <<a, b>>
  BY <1>1, PairIsAdded DEF one
<1>3. Sum(Added(one, b)) = Sum(Joined(one, ys))
  <2>1. b = Sum(ys) /\ 1 \in Nat
    BY DEF b
  <2>2. QED BY <1>2, <2>1, NestedLast
<1>4. Sum(Added(ys, a)) = Sum(Joined(ys, xs))
  <2>1. a = Sum(xs) /\ t \in Nat
    BY DEF a
  <2>2. QED BY <2>1, NestedLast
<1>5. cs \in Lists(V, t + 1) /\ \A k \in 1 .. t + 1 : cs[k] = IF k <= 1 THEN a ELSE ys[k - 1]
  <2>1. one[1] = a
    BY DEF one
  <2>2. t \in Nat /\ 1 \in Nat
    OBVIOUS
  <2>3. /\ cs \in Lists(V, 1 + t)
        /\ \A k \in 1 .. 1 + t : cs[k] = IF k <= 1 THEN one[k] ELSE ys[k - 1]
    BY <1>2, <2>2, JoinFacts DEF cs
  <2>4. QED BY <2>1, <2>3
<1>6. ds \in Lists(V, t + 1) /\ \A k \in 1 .. t + 1 : ds[k] = IF k = t + 1 THEN a ELSE ys[k]
  <2>1. t \in Nat
    OBVIOUS
  <2>2. QED BY <1>1, <2>1, AddedFacts DEF ds
<1>7. es \in Lists(V, t + t) /\ \A k \in 1 .. t + t : es[k] = IF k <= t THEN ys[k] ELSE xs[k - t]
  <2>1. t \in Nat
    OBVIOUS
  <2>2. QED BY <2>1, JoinFacts DEF es
<1>8. Sum(cs) = Sum(ds)
  BY <1>1, <1>5, <1>6, FirstToLast
<1>9. Sum(zs) = Sum(es)
  BY <1>7, ByTurns
<1>10. Sum(<<a, b>>) = Sum(zs)
  BY <1>2, <1>3, <1>4, <1>8, <1>9 DEF cs, ds, es
<1>11. QED BY <1>10 DEF a, b

(* A sum of which some terms are replaced by their sum at the end.         *)
Enumerates(e, t, G) ==
  /\ e \in [1 .. t -> G]
  /\ \A k, l \in 1 .. t : e[k] = e[l] => k = l
  /\ \A p \in G : \E k \in 1 .. t : e[k] = p

LEMMA TermsReplaced ==
  ASSUME NEW V, Laws(V), NEW a \in Nat, NEW xs \in Lists(V, a), NEW K \in SUBSET (1 .. a),
         NEW t \in Nat \ {0}, NEW e, Enumerates(e, t, (1 .. a) \ K),
         NEW gs \in Lists(V, t), \A k \in 1 .. t : gs[k] = xs[e[k]]
  PROVE  Sum(Append(Picked(xs, K), Sum(gs))) = Sum(xs)
<1> DEFINE G == (1 .. a) \ K
           c == Cardinality(K)
           ys == Picked(xs, K)
           js == Joined(ys, gs)
           q == [k \in 1 .. a |-> IF k <= c THEN Nth(K, k) ELSE e[k - c]]
<1>0. /\ e \in [1 .. t -> G] /\ \A k, l \in 1 .. t : e[k] = e[l] => k = l
      /\ \A p \in G : \E k \in 1 .. t : e[k] = p
  BY DEF Enumerates
<1>1. c \in Nat /\ IsFiniteSet(K)
  BY IndicesFinite
<1>2. a = c + t
  <2>1. IsFiniteSet(1 .. a) /\ Cardinality(1 .. a) = a
    BY FS_Interval
  <2> DEFINE I == 1 .. a
  <2>2. I \cap K = K /\ G = I \ K
    OBVIOUS
  <2> HIDE DEF I
  <2>3. Cardinality(G) = a - c
    <3>1. Cardinality(I \ K) = Cardinality(I) - Cardinality(I \cap K)
      BY <2>1, FS_Difference DEF I
    <3> HIDE DEF G
    <3>2. QED BY <2>1, <2>2, <3>1 DEF I
  <2>4. e \in Bijection(1 .. t, G)
    BY <1>0 DEF Bijection, Injection, Surjection, IsInjective
  <2>5. Cardinality(G) = t
    <3>1. IsFiniteSet(1 .. t) /\ Cardinality(1 .. t) = t
      BY FS_Interval
    <3>2. ExistsBijection(1 .. t, G)
      BY <2>4 DEF ExistsBijection
    <3> HIDE DEF G
    <3>3. QED BY <3>1, <3>2, FS_Bijection
  <2>6. QED BY <1>1, <2>3, <2>5
<1>3. \A k \in 1 .. c : Nth(K, k) \in K /\ Rank(K, Nth(K, k)) = k /\ ys[k] = xs[Nth(K, k)]
  BY NthFacts DEF Picked
<1>4. ys \in Lists(V, c)
  <2>1. ys = [m \in 1 .. c |-> xs[Nth(K, m)]]
    BY DEF Picked
  <2>2. \A m \in 1 .. c : xs[Nth(K, m)] \in V
    <3>1. K \subseteq 1 .. a /\ \A p \in 1 .. a : xs[p] \in V
      BY DEF Lists
    <3>2. QED BY <1>3, <3>1
  <2>3. QED BY <2>1, <2>2 DEF Lists
<1> HIDE DEF ys, c
<1>5. Sum(Added(ys, Sum(gs))) = Sum(js)
  BY <1>1, <1>4, LawFacts
<1>6. js \in Lists(V, c + t) /\ \A k \in 1 .. c + t : js[k] = IF k <= c THEN ys[k] ELSE gs[k - c]
  <2>1. t \in Nat
    OBVIOUS
  <2>2. QED BY <1>1, <1>4, <2>1, JoinFacts
<1> HIDE DEF js
<1>7. q \in Shuffles(a)
  <2>1. ASSUME NEW k \in 1 .. a
        PROVE  /\ k <= c => k \in 1 .. c /\ q[k] = Nth(K, k) /\ q[k] \in K
               /\ ~ k <= c => k - c \in 1 .. t /\ q[k] = e[k - c] /\ q[k] \in G
    BY <1>0, <1>1, <1>2, <1>3 DEF c
  <2>2. DOMAIN q = 1 .. a /\ q = [k \in 1 .. a |-> q[k]]
    OBVIOUS
  <2> HIDE DEF q
  <2>3. \A k \in 1 .. a : q[k] \in 1 .. a
    BY <2>1
  <2>4. q \in [1 .. a -> 1 .. a]
    BY <2>2, <2>3
  <2>5. ASSUME NEW k \in 1 .. a, NEW l \in 1 .. a, q[k] = q[l] PROVE k = l
    <3>1. CASE k <= c /\ l <= c
      BY <1>3, <2>1, <2>5, <3>1
    <3>2. CASE ~ k <= c /\ ~ l <= c
      <4>1. k - c = l - c
        BY <1>0, <2>1, <2>5, <3>2
      <4>2. QED BY <1>1, <4>1
    <3>3. CASE (k <= c /\ ~ l <= c) \/ (~ k <= c /\ l <= c)
      BY <2>1, <2>5, <3>3
    <3>4. QED BY <3>1, <3>2, <3>3
  <2>6. QED BY <2>4, <2>5 DEF Shuffles
<1>8. ASSUME NEW k \in 1 .. a PROVE js[k] = xs[q[k]]
  <2>1. CASE k <= c
    BY <1>1, <1>2, <1>3, <1>6, <2>1
  <2>2. CASE ~ k <= c
    <3>1. k - c \in 1 .. t /\ js[k] = gs[k - c] /\ q[k] = e[k - c]
      BY <1>1, <1>2, <1>6, <2>2
    <3>2. QED BY <3>1
  <2>3. QED BY <2>1, <2>2
<1>9. js \in Lists(V, a) /\ a \in Nat \ {0}
  BY <1>1, <1>2, <1>6
<1> HIDE DEF q
<1>10. Sum(js) = Sum(xs)
  BY <1>7, <1>8, <1>9, Rearranged
<1>11. QED BY <1>5, <1>10 DEF ys, Added

-----------------------------------------------------------------------------
(* What stays of the source's operations. *)
LEMMA SourceFacts ==
  ASSUME src \in Source, NEW x \in DOMAIN src.ops
  PROVE  /\ x \in Position /\ x[1] \in Nat \ {0} /\ x[2] = 0 /\ x = <<x[1], 0>>
         /\ src.ops[x] \in Op /\ WellTyped(src.ops, src.ops[x])
         /\ x \in DOMAIN src.sem /\ IsVector(src.sem[x])
         /\ \A k \in DOMAIN src.ops[x].args :
              src.ops[x].args[k] \in DOMAIN src.ops /\ Before(src.ops[x].args[k], x)
<1>1. IsProgram(src)
  BY SourceAssumption
<1>2. /\ x \in (Nat \ {0}) \X {0} /\ src.ops[x] \in Op /\ WellTyped(src.ops, src.ops[x])
      /\ x \in DOMAIN src.sem /\ IsVector(src.sem[x]) /\ DefinedBeforeUse(src.ops)
  BY <1>1 DEF IsProgram
<1>3. QED BY <1>2 DEF DefinedBeforeUse, Position

OpsKept ==
  \A x \in DOMAIN src.ops :
    /\ x \in DOMAIN ops /\ ops[x].kind = src.ops[x].kind /\ ops[x].type = src.ops[x].type
    /\ ops[x].i = src.ops[x].i /\ ops[x].val = src.ops[x].val /\ ops[x].slots = src.ops[x].slots
    /\ ~NeedsBatching(src.ops[x]) => ops[x] = src.ops[x]
    /\ NeedsBatching(ops[x]) <=> NeedsBatching(src.ops[x])

LEMMA KeptFacts == SourceKept => OpsKept
<1> SUFFICES ASSUME SourceKept, NEW x \in DOMAIN src.ops
             PROVE  /\ x \in DOMAIN ops /\ ops[x].kind = src.ops[x].kind /\ ops[x].type = src.ops[x].type
                    /\ ops[x].i = src.ops[x].i /\ ops[x].val = src.ops[x].val
                    /\ ops[x].slots = src.ops[x].slots
                    /\ ~NeedsBatching(src.ops[x]) => ops[x] = src.ops[x]
                    /\ NeedsBatching(ops[x]) <=> NeedsBatching(src.ops[x])
  BY DEF OpsKept
<1>1. src \in Source /\ x \in DOMAIN ops /\ ops[x] = [src.ops[x] EXCEPT !.args = ops[x].args]
  BY DEF SourceKept
<1>2. src.ops[x] \in Op
  BY <1>1, SourceFacts
<1>3. /\ ops[x].kind = src.ops[x].kind /\ ops[x].type = src.ops[x].type
      /\ ops[x].i = src.ops[x].i /\ ops[x].val = src.ops[x].val /\ ops[x].slots = src.ops[x].slots
  <2> DEFINE o == src.ops[x]
             a == ops[x].args
             p == [o EXCEPT !.args = a]
  <2>1. o \in Op /\ ops[x] = p
    BY <1>1, <1>2
  <2> HIDE DEF o, a
  <2>2. p.kind = o.kind /\ p.type = o.type /\ p.i = o.i /\ p.val = o.val /\ p.slots = o.slots
    BY <2>1 DEF Op
  <2>3. QED BY <2>1, <2>2 DEF o
<1>4. QED BY <1>1, <1>3 DEF SourceKept, Touched, NeedsBatching

(* So an operand of the source is a rotation of the same vector as before. *)
OriginsKept ==
  \A y \in DOMAIN src.ops :
    /\ Origin(y) = From(y) /\ Index(y) = By(y)
    /\ From(y) \in DOMAIN src.ops
    /\ y = From(y) \/ Before(From(y), y)

LEMMA OriginFacts == SourceKept => OriginsKept
<1> SUFFICES ASSUME SourceKept, NEW y \in DOMAIN src.ops
             PROVE  /\ Origin(y) = From(y) /\ Index(y) = By(y)
                    /\ From(y) \in DOMAIN src.ops
                    /\ y = From(y) \/ Before(From(y), y)
  BY DEF OriginsKept
<1>1. /\ ops[y].kind = src.ops[y].kind /\ ops[y].type = src.ops[y].type /\ ops[y].i = src.ops[y].i
      /\ ~NeedsBatching(src.ops[y]) => ops[y] = src.ops[y]
  BY KeptFacts DEF OpsKept
<1>2. src.ops[y].kind = "rotate" => ops[y].args[1] = src.ops[y].args[1]
  BY <1>1 DEF NeedsBatching, Arithmetic
<1>3. Origin(y) = From(y) /\ Index(y) = By(y)
  BY <1>1, <1>2 DEF Origin, From, Index, By
<1>4. src.ops[y].kind = "rotate" => 1 \in DOMAIN src.ops[y].args
  <2>1. src.ops[y] \in Op /\ WellTyped(src.ops, src.ops[y])
    BY SourceFacts DEF SourceKept
  <2>2. QED BY <2>1, Arity
<1>5. From(y) \in DOMAIN src.ops /\ (y = From(y) \/ Before(From(y), y))
  BY <1>4, SourceFacts DEF From, SourceKept
<1>6. QED BY <1>3, <1>5

\* The operands that originMap is built from are of the source.
UsesOK == \A k \in DOMAIN uses : uses[k] \in DOMAIN src.ops

LEMMA ReducibleFacts ==
  ASSUME SourceKept, UsesOK, NEW o
  PROVE  UsesOf(o) = RotationsOf(o) /\ SizeOf(o) = CountOf(o) /\ (Reducible(o) <=> Reduced(o))
<1>1. \A k \in DOMAIN uses : Origin(uses[k]) = From(uses[k]) /\ Index(uses[k]) = By(uses[k])
  BY OriginFacts DEF OriginsKept, UsesOK
<1>2. UsesOf(o) = RotationsOf(o)
  BY <1>1 DEF UsesOf, RotationsOf
<1>3. SizeOf(o) = CountOf(o)
  BY <1>2 DEF SizeOf, CountOf
<1>4. {Index(uses[k]) : k \in UsesOf(o)} = {By(uses[k]) : k \in RotationsOf(o)}
  <2>1. \A k \in RotationsOf(o) : Index(uses[k]) = By(uses[k])
    BY <1>1 DEF RotationsOf
  <2>2. QED BY <1>2, <2>1
<1>5. QED BY <1>2, <1>3, <1>4 DEF Reducible, Contiguous, Reduced

-----------------------------------------------------------------------------
(* Steps that leave the body alone. *)
LEMMA IdleInv ==
  ASSUME TypeOK, SourceKept, Placement, UNCHANGED <<src, ops, sem>>,
         pc' \in {"walk", "origins", "halving", "done"}, half' \in Nat,
         \/ n' = n /\ (pc \in {"origins", "halving"} => pc' \in {"origins", "halving"})
         \/ n' = n + 1
  PROVE  TypeOK' /\ SourceKept' /\ Placement'
<1>1. n \in Nat \ {0} /\ n' \in Nat \ {0}
  BY DEF TypeOK
<1>2. TypeOK'
  BY <1>1 DEF TypeOK
<1>3. ASSUME NEW x \in DOMAIN src.ops, Touched(x) PROVE Touched(x)'
  <2>1. x[1] \in Nat \ {0}
    BY SourceFacts DEF SourceKept
  <2>2. NeedsBatching(src'.ops[x])
    BY <1>3 DEF Touched
  <2>3. CASE n' = n /\ (pc \in {"origins", "halving"} => pc' \in {"origins", "halving"})
    BY <1>3, <2>2, <2>3 DEF Touched, Cur
  <2>4. CASE n' = n + 1
    <3>1. x[1] < n \/ x[1] = n
      BY <1>3 DEF Touched, Cur
    <3>2. x[1] < n'
      BY <1>1, <2>1, <2>4, <3>1
    <3>3. QED BY <2>2, <3>2 DEF Touched
  <2>5. QED BY <2>3, <2>4
<1>4. SourceKept'
  BY <1>3 DEF SourceKept
<1>5. ASSUME NEW x \in DOMAIN ops PROVE x[2] > 0 => x[1] < n'
  <2>1. x \in Position /\ (x[2] > 0 => x[1] < n)
    BY DEF Placement
  <2>2. x[1] \in Nat
    BY <2>1 DEF Position
  <2>3. QED BY <1>1, <2>1, <2>2
<1>6. \E c \in Nat : Made' = {<<n' - 1, m>> : m \in 1 .. c}
  <2>1. CASE n' = n
    BY <2>1 DEF Placement, Made
  <2>2. CASE n' = n + 1
    <3>1. Made' = {}
      <4>1. n' - 1 = n
        BY <1>1, <2>2
      <4>2. \A x \in DOMAIN ops : ~(x[1] = n /\ x[2] > 0)
        BY <1>1 DEF Placement
      <4>3. QED BY <4>1, <4>2 DEF Made
    <3>2. {<<n' - 1, m>> : m \in 1 .. 0} = {}
      OBVIOUS
    <3>3. QED BY <3>1, <3>2
  <2>3. QED BY <2>1, <2>2
<1>7. Placement'
  BY <1>5, <1>6 DEF Placement
<1>8. QED BY <1>2, <1>4, <1>7

-----------------------------------------------------------------------------
(* A rotation and the sum it is for are placed. *)
LEMMA RowCounted ==
  ASSUME NEW a, NEW c \in Nat
  PROVE  Cardinality({<<a, m>> : m \in 1 .. c}) = c
<1> DEFINE R == {<<a, m>> : m \in 1 .. c}
           e == [m \in 1 .. c |-> <<a, m>>]
<1>1. IsFiniteSet(1 .. c) /\ Cardinality(1 .. c) = c
  BY FS_Interval
<1>2. e \in Bijection(1 .. c, R)
  <2>1. e \in [1 .. c -> R] /\ \A r \in R : \E m \in 1 .. c : e[m] = r
    OBVIOUS
  <2>2. \A k, m \in 1 .. c : e[k] = e[m] => k = m
    OBVIOUS
  <2>3. QED BY <2>1, <2>2 DEF Bijection, Injection, Surjection, IsInjective
<1>3. ExistsBijection(1 .. c, R)
  BY <1>2 DEF ExistsBijection
<1> HIDE DEF R
<1>4. Cardinality(R) = c
  BY <1>1, <1>3, FS_Bijection
<1>5. QED BY <1>4 DEF R

LEMMA NewPositions ==
  ASSUME TypeOK, Placement
  PROVE  \E c \in Nat :
           /\ NewPos(1) = <<n - 1, c + 1>> /\ NewPos(2) = <<n - 1, c + 2>>
           /\ NewPos(1) \notin DOMAIN ops /\ NewPos(2) \notin DOMAIN ops
           /\ Made = {<<n - 1, m>> : m \in 1 .. c}
<1>1. PICK c \in Nat : Made = {<<n - 1, m>> : m \in 1 .. c}
  BY DEF Placement
<1>2. Cardinality(Made) = c
  BY <1>1, RowCounted
<1>3. NewPos(1) = <<n - 1, c + 1>> /\ NewPos(2) = <<n - 1, c + 2>>
  BY <1>2 DEF NewPos
<1>4. ASSUME NEW k \in {1, 2}, <<n - 1, c + k>> \in DOMAIN ops PROVE FALSE
  <2>1. c + k > 0 /\ c + k \notin 1 .. c
    OBVIOUS
  <2>2. <<n - 1, c + k>> \in Made
    BY <1>4, <2>1 DEF Made
  <2>3. QED BY <1>1, <2>1, <2>2
<1>5. QED BY <1>1, <1>3, <1>4

LEMMA AddOpFacts ==
  ASSUME NEW v \in Position, NEW w \in Position
  PROVE  LET o == MakeOp("add", "batched", <<v, w>>) IN
         o \in Op /\ o.kind = "add" /\ o.type = "batched" /\ o.args = <<v, w>>
<1> DEFINE a == <<v, w>>
           o == MakeOp("add", "batched", a)
<1>1. a \in Seq(Position) /\ << >> \in Seq(Int)
  OBVIOUS
<1> HIDE DEF a
<1>2. o = [kind |-> "add", type |-> "batched", args |-> a,
           i |-> 0, slots |-> << >>, val |-> NoLiteral]
  BY DEF MakeOp
<1> HIDE DEF o
<1>3. o \in Op /\ o.kind = "add" /\ o.type = "batched" /\ o.args = a
  <2>1. "add" \in Kinds /\ "batched" \in Types
    BY DEF Kinds, Arithmetic, Types
  <2>2. QED BY <1>1, <1>2, <2>1 DEF Op
<1>4. QED BY <1>3 DEF a, o

\* What a round does; p and q are the new positions.
Round(p, q) ==
  /\ pc = "halving" /\ half > 0
  /\ p \in Position /\ q \in Position /\ p # q /\ p \notin DOMAIN ops /\ q \notin DOMAIN ops
  /\ p[1] = n - 1 /\ q[1] = n - 1 /\ p[2] > 0 /\ q[2] > 0
  /\ Before(prev, p) /\ Before(p, q) /\ Before(prev, q)
  /\ \E c \in Nat : Made' = {<<n - 1, m>> : m \in 1 .. c}
  /\ DOMAIN ops' = DOMAIN ops \cup {p, q} /\ DOMAIN sem' = DOMAIN ops \cup {p, q}
  /\ \A x \in DOMAIN ops : ops'[x] = ops[x] /\ sem'[x] = sem[x]
  /\ ops'[p] \in Op /\ ops'[p].kind = "rotate" /\ ops'[p].type = "batched"
  /\ ops'[p].args = <<prev>> /\ ops'[p].i = -half
  /\ ops'[q] \in Op /\ ops'[q].kind = "add" /\ ops'[q].type = "batched"
  /\ ops'[q].args = <<prev, p>>
  /\ sem'[p] = Eval(ops'[p], sem') /\ sem'[q] = Eval(ops'[q], sem')
  /\ prev' = q /\ half' = half \div 2
  /\ UNCHANGED <<src, n, pc, uses, origins>>

LEMMA RoundFacts ==
  ASSUME TypeOK, SourceKept, Placement, HalvingInv, RotateAndAdd
  PROVE  Round(NewPos(1), NewPos(2))
<1> DEFINE p == NewPos(1)
           q == NewPos(2)
           r == RotateOp(prev, -half)
           a == MakeOp("add", "batched", <<prev, p>>)
           value == Placed(sem, p, Eval(r, sem))
<1>1. PICK c \in Nat :
           /\ p = <<n - 1, c + 1>> /\ q = <<n - 1, c + 2>>
           /\ p \notin DOMAIN ops /\ q \notin DOMAIN ops
           /\ Made = {<<n - 1, m>> : m \in 1 .. c}
  BY NewPositions
<1>2. /\ pc = "halving" /\ half > 0
      /\ ops' = Placed(Placed(ops, p, r), q, a)
      /\ sem' = Placed(value, q, Eval(a, value))
      /\ prev' = q /\ half' = half \div 2
      /\ UNCHANGED <<src, n, pc, uses, origins>>
  BY DEF RotateAndAdd, Rounds
<1> HIDE DEF p, q
<1>3. n \in Nat \ {0} /\ half \in Nat /\ DOMAIN sem = DOMAIN ops
  BY DEF TypeOK
<1>4. prev \in DOMAIN ops /\ prev \in Position /\ prev[1] < n /\ prev[1] \in Nat /\ prev[2] \in Nat
  <2>1. prev \in DOMAIN ops /\ prev[1] < n
    BY <1>2 DEF HalvingInv
  <2>2. prev \in Position
    BY <2>1 DEF Placement
  <2>3. QED BY <2>1, <2>2 DEF Position
<1>5. /\ p \in Position /\ q \in Position /\ p # q
      /\ p[1] = n - 1 /\ q[1] = n - 1 /\ p[2] = c + 1 /\ q[2] = c + 2
  BY <1>1, <1>3 DEF Position
<1>6. Before(p, q)
  BY <1>5 DEF Before
<1>7. Before(prev, p) /\ Before(prev, q)
  <2>1. prev[1] < n - 1 \/ prev[1] = n - 1
    BY <1>3, <1>4
  <2>2. prev[1] = n - 1 => prev[2] <= c
    <3> SUFFICES ASSUME prev[1] = n - 1, prev[2] > 0 PROVE prev[2] <= c
      BY <1>4
    <3>1. prev \in Made
      BY <1>4 DEF Made
    <3>2. PICK m \in 1 .. c : prev = <<n - 1, m>>
      BY <1>1, <3>1
    <3>3. QED BY <3>2
  <2>3. QED BY <1>3, <1>4, <1>5, <2>1, <2>2 DEF Before
<1>8. /\ r \in Op /\ r.kind = "rotate" /\ r.type = "batched" /\ r.args = <<prev>> /\ r.i = -half
  <2>1. -half \in Int
    BY <1>3
  <2>2. QED BY <1>4, <2>1, RotateOpFacts
<1>9. a \in Op /\ a.kind = "add" /\ a.type = "batched" /\ a.args = <<prev, p>>
  BY <1>4, <1>5, AddOpFacts
<1> HIDE DEF r, a, value
<1>10. /\ DOMAIN ops' = DOMAIN ops \cup {p, q}
       /\ \A x \in DOMAIN ops : ops'[x] = ops[x]
       /\ ops'[p] = r /\ ops'[q] = a
  BY <1>1, <1>2, <1>5 DEF Placed
<1>11. /\ DOMAIN value = DOMAIN ops \cup {p} /\ value[p] = Eval(r, sem)
       /\ \A x \in DOMAIN ops : value[x] = sem[x]
  BY <1>1, <1>3 DEF value, Placed
<1>12. /\ DOMAIN sem' = DOMAIN ops \cup {p, q}
       /\ \A x \in DOMAIN ops : sem'[x] = sem[x]
       /\ sem'[p] = value[p] /\ sem'[q] = Eval(a, value)
  BY <1>1, <1>2, <1>5, <1>11 DEF Placed
<1>13. Eval(r, sem) = Eval(r, sem')
  <2>1. DOMAIN r.args = {1} /\ r.args[1] = prev
    BY <1>8
  <2>2. \A k \in DOMAIN r.args : sem[r.args[k]] = sem'[r.args[k]]
    BY <1>4, <1>12, <2>1
  <2>3. r.kind \in Kinds \ {"arg"} /\ r.kind \notin {"insert", "combine"} /\ 1 \in DOMAIN r.args
    BY <1>8, <2>1 DEF Kinds
  <2>4. QED BY <2>2, <2>3, EvalAgrees
<1>14. Eval(a, value) = Eval(a, sem')
  <2>1. DOMAIN a.args = {1, 2} /\ a.args[1] = prev /\ a.args[2] = p
    BY <1>9
  <2>2. \A k \in DOMAIN a.args : value[a.args[k]] = sem'[a.args[k]]
    BY <1>4, <1>11, <1>12, <2>1
  <2>3. a.kind \in Kinds \ {"arg"} /\ a.kind \notin {"insert", "combine"} /\ 1 \in DOMAIN a.args
    BY <1>9, <2>1 DEF Kinds, Arithmetic
  <2>4. QED BY <2>2, <2>3, EvalAgrees
<1>15. Made' = {<<n - 1, m>> : m \in 1 .. c + 2}
  <2>1. Made' = Made \cup {p, q}
    BY <1>2, <1>5, <1>10 DEF Made
  <2>2. QED BY <1>1, <2>1
<1>16. c + 2 \in Nat /\ p[2] > 0 /\ q[2] > 0
  BY <1>5
<1>17. Round(p, q)
  BY <1>1, <1>2, <1>5, <1>6, <1>7, <1>8, <1>9, <1>10, <1>11, <1>12, <1>13, <1>14, <1>15, <1>16 DEF Round
<1>18. QED BY <1>17 DEF p, q

LEMMA RoundInv ==
  ASSUME TypeOK, SourceKept, Placement, HalvingInv, NEW p, NEW q, Round(p, q)
  PROVE  TypeOK' /\ SourceKept' /\ Placement' /\ HalvingInv'
<1>1. /\ pc = "halving" /\ half > 0 /\ half \in Nat /\ n \in Nat \ {0}
      /\ UNCHANGED <<src, n, pc, uses, origins>>
  BY DEF Round, TypeOK
<1>2. prev \in DOMAIN ops /\ ops[prev].type = "batched"
  BY <1>1 DEF HalvingInv
<1>3. \A x \in DOMAIN ops : x \in DOMAIN ops' /\ ops'[x] = ops[x] /\ sem'[x] = sem[x]
  BY DEF Round
<1>4. half' \in Nat
  <2>1. half' = half \div 2
    BY DEF Round
  <2>2. QED BY <1>1, <2>1
<1>5. DefinedBeforeUse(ops')
  <2> SUFFICES ASSUME NEW x \in DOMAIN ops', NEW j \in DOMAIN ops'[x].args
               PROVE  ops'[x].args[j] \in DOMAIN ops' /\ Before(ops'[x].args[j], x)
    BY DEF DefinedBeforeUse
  <2>1. CASE x \in DOMAIN ops
    BY <1>3, <2>1 DEF TypeOK, DefinedBeforeUse
  <2>2. CASE x = p
    <3>1. DOMAIN ops'[p].args = {1} /\ ops'[p].args[1] = prev
      BY DEF Round
    <3>2. QED BY <1>2, <1>3, <2>2, <3>1 DEF Round
  <2>3. CASE x = q
    <3>1. DOMAIN ops'[q].args = {1, 2} /\ ops'[q].args[1] = prev /\ ops'[q].args[2] = p
      BY DEF Round
    <3>2. QED BY <1>2, <1>3, <2>3, <3>1 DEF Round
  <2>4. QED BY <2>1, <2>2, <2>3 DEF Round
<1>6. ASSUME NEW x \in DOMAIN ops'
      PROVE  ops'[x] \in Op /\ WellTyped(ops', ops'[x]) /\ IsVector(sem'[x])
  <2>1. CASE x \in DOMAIN ops
    <3>1. ops[x] \in Op /\ WellTyped(ops, ops[x]) /\ IsVector(sem[x])
      BY <2>1 DEF TypeOK
    <3>2. \A k \in DOMAIN ops[x].args : ops[ops[x].args[k]].type = ops'[ops[x].args[k]].type
      BY <1>3, <2>1 DEF TypeOK, DefinedBeforeUse
    <3>3. WellTyped(ops', ops[x])
      BY <3>1, <3>2, SameTypesSuffice
    <3>4. QED BY <1>3, <2>1, <3>1, <3>3
  <2>2. CASE x = p
    <3>1. ops'[p].args = <<prev>> /\ ops'[p].kind = "rotate" /\ ops'[p].type = "batched" /\ ops'[p] \in Op
      BY DEF Round
    <3>2. ops'[prev].type = "batched"
      BY <1>2, <1>3
    <3>3. WellTyped(ops', ops'[p])
      <4>1. Len(ArgTypes(ops', ops'[p])) = 1 /\ DOMAIN ArgTypes(ops', ops'[p]) = {1}
            /\ ArgTypes(ops', ops'[p])[1] = "batched"
        BY <3>1, <3>2 DEF ArgTypes
      <4>2. QED BY <3>1, <4>1 DEF WellTyped, Arithmetic, PlainArithmetic
    <3>4. IsVector(sem'[p])
      <4>1. sem'[p] = Rotate(sem'[prev], -half)
        <5>1. sem'[p] = Eval(ops'[p], sem') /\ ops'[p].i = -half
          BY DEF Round
        <5>2. ops'[p].args[1] = prev
          BY <3>1
        <5>3. Eval(ops'[p], sem') = Rotate(sem'[ops'[p].args[1]], ops'[p].i)
          BY <3>1, EvalByKind
        <5>4. QED BY <5>1, <5>2, <5>3
      <4>2. QED BY <4>1 DEF IsVector, Rotate
    <3>5. QED BY <2>2, <3>1, <3>3, <3>4
  <2>3. CASE x = q
    <3>1. ops'[q].args = <<prev, p>> /\ ops'[q].kind = "add" /\ ops'[q].type = "batched" /\ ops'[q] \in Op
      BY DEF Round
    <3>2. ops'[prev].type = "batched" /\ ops'[p].type = "batched"
      BY <1>2, <1>3 DEF Round
    <3>3. WellTyped(ops', ops'[q])
      <4>1. DOMAIN ops'[q].args = {1, 2} /\ ops'[q].args[1] = prev /\ ops'[q].args[2] = p
        BY <3>1
      <4>2. DOMAIN ArgTypes(ops', ops'[q]) = {1, 2} /\ \A k \in {1, 2} : ArgTypes(ops', ops'[q])[k] = "batched"
        BY <3>2, <4>1 DEF ArgTypes
      <4>3. InferredType(ops', ops'[q].args) = "batched"
        BY <3>2, <4>1 DEF InferredType
      <4>4. QED BY <3>1, <4>2, <4>3 DEF WellTyped, Arithmetic, PlainArithmetic
    <3>4. IsVector(sem'[q])
      <4>1. sem'[q] = Lift("add", [k \in DOMAIN ops'[q].args |-> sem'[ops'[q].args[k]]])
        <5>1. sem'[q] = Eval(ops'[q], sem')
          BY DEF Round
        <5>2. QED BY <3>1, <5>1, EvalByKind DEF Arithmetic
      <4>2. QED BY <4>1 DEF IsVector, Lift
    <3>5. QED BY <2>3, <3>1, <3>3, <3>4
  <2>4. QED BY <2>1, <2>2, <2>3 DEF Round
<1>7. TypeOK'
  <2>1. DOMAIN sem' = DOMAIN ops'
    BY DEF Round
  <2>2. QED BY <1>1, <1>4, <1>5, <1>6, <2>1 DEF TypeOK
<1>8. SourceKept'
  <2>1. \A x : Touched(x)' <=> Touched(x)
    BY <1>1 DEF Touched, Cur
  <2>2. QED BY <1>1, <1>3, <2>1 DEF SourceKept
<1>9. Placement'
  <2>1. ASSUME NEW x \in DOMAIN ops'
        PROVE  /\ x \in Position
               /\ x[2] = 0 <=> x \in DOMAIN src.ops
               /\ x[2] > 0 => x[1] < n /\ ops'[x].kind \in {"add", "rotate"}
    <3>1. CASE x \in DOMAIN ops
      BY <1>3, <3>1 DEF Placement
    <3>2. CASE x \in {p, q}
      <4>1. x \in Position /\ x[1] = n - 1 /\ x[2] > 0 /\ ops'[x].kind \in {"add", "rotate"}
            /\ x \notin DOMAIN ops
        BY <3>2 DEF Round
      <4>2. x \notin DOMAIN src.ops
        BY <4>1 DEF SourceKept
      <4>3. x[2] # 0 /\ x[1] < n
        BY <1>1, <4>1
      <4>4. QED BY <4>1, <4>2, <4>3
    <3>3. QED BY <3>1, <3>2 DEF Round
  <2>2. QED BY <1>1, <2>1 DEF Placement, Round
<1>10. HalvingInv'
  <2>1. /\ prev' = q /\ q \in DOMAIN ops' /\ q[1] = n - 1 /\ q[2] > 0
        /\ ops'[q].type = "batched" /\ ops'[q].kind = "add"
    BY DEF Round
  <2>2. origins' # << >> /\ Reduced(Head(origins))'
    BY <1>1 DEF HalvingInv, Reduced, CountOf, RotationsOf, From, By, IsPowerOfTwo
  <2>3. q[1] < n
    BY <1>1, <2>1
  <2>4. QED BY <1>1, <2>1, <2>2, <2>3 DEF HalvingInv
<1>11. QED BY <1>7, <1>8, <1>9, <1>10

-----------------------------------------------------------------------------
(* The operands that an origin has are replaced by the sum. *)

\* What the replacement does; K are the operands that remain.
Assigned(K) ==
  /\ pc = "halving" /\ pc' = "origins" /\ half = 0
  /\ Cur \in DOMAIN src.ops /\ Cur \in DOMAIN ops /\ NeedsBatching(src.ops[Cur])
  /\ prev \in DOMAIN ops /\ Before(prev, Cur) /\ prev[2] > 0
  /\ ops[prev].type = "batched" /\ ops[prev].kind = "add"
  /\ K \in SUBSET DOMAIN ops[Cur].args /\ Cardinality(K) \in Nat
  /\ ops[Cur].args \in Seq(Position)
  /\ DOMAIN ops' = DOMAIN ops
  /\ \A x \in DOMAIN ops : x # Cur => ops'[x] = ops[x]
  /\ ops'[Cur] \in Op /\ ops'[Cur] = [ops[Cur] EXCEPT !.args = ops'[Cur].args]
  /\ ops'[Cur].kind = ops[Cur].kind /\ ops'[Cur].type = ops[Cur].type
  /\ ops'[Cur].args = Append(Picked(ops[Cur].args, K), prev)
  /\ DOMAIN ops'[Cur].args = 1 .. Cardinality(K) + 1
  /\ \A m \in 1 .. Cardinality(K) :
       Nth(K, m) \in K /\ ops'[Cur].args[m] = ops[Cur].args[Nth(K, m)]
  /\ ops'[Cur].args[Cardinality(K) + 1] = prev
  /\ origins # << >> /\ origins' = Tail(origins)
  /\ UNCHANGED <<src, sem, n, uses, prev, half>>

LEMMA AssignFacts ==
  ASSUME TypeOK, SourceKept, Placement, LoopInv, HalvingInv, AssignOperands
  PROVE  Assigned(Remaining(Head(origins)))
<1> DEFINE K == Remaining(Head(origins))
           args == ops[Cur].args
           c == Cardinality(K)
           new == Append(Picked(args, K), prev)
<1>1. /\ pc = "halving" /\ pc' = "origins" /\ half = 0
      /\ ops' = [ops EXCEPT ![Cur].args = new]
      /\ origins' = Tail(origins)
      /\ UNCHANGED <<src, sem, n, uses, prev, half>>
  <2>1. ~ half > 0 /\ half \in Nat
    BY DEF AssignOperands, Rounds, TypeOK
  <2>2. QED BY <2>1 DEF AssignOperands
<1>2. Cur \in DOMAIN src.ops /\ NeedsBatching(src.ops[Cur]) /\ Cur \in DOMAIN ops
  BY <1>1 DEF LoopInv, SourceKept
<1>3. /\ prev \in DOMAIN ops /\ prev[1] < n /\ prev[2] > 0 /\ ops[prev].type = "batched"
      /\ ops[prev].kind = "add" /\ origins # << >>
  BY <1>1 DEF HalvingInv
<1>4. ops[Cur] \in Op /\ args \in Seq(Position)
  BY <1>2 DEF TypeOK, Op
<1>5. prev \in Position /\ Before(prev, Cur)
  BY <1>3 DEF Placement, Before, Cur
<1>6. K \in SUBSET DOMAIN args
  BY DEF Remaining
<1> HIDE DEF K, args
<1>7. /\ Picked(args, K) \in Seq(Position) /\ Len(Picked(args, K)) = c /\ c \in Nat
      /\ DOMAIN Picked(args, K) = 1 .. c
      /\ \A m \in 1 .. c : Nth(K, m) \in K /\ Picked(args, K)[m] = args[Nth(K, m)]
  BY <1>4, <1>6, PickedFacts
<1>8. /\ new \in Seq(Position) /\ Len(new) = c + 1 /\ DOMAIN new = 1 .. c + 1
      /\ \A m \in 1 .. c : new[m] = args[Nth(K, m)]
      /\ new[c + 1] = prev
  <2> DEFINE s == Picked(args, K)
  <2>1. s \in Seq(Position) /\ Len(s) = c /\ c \in Nat
    BY <1>7
  <2> HIDE DEF s
  <2>2. /\ Append(s, prev) \in Seq(Position) /\ Len(Append(s, prev)) = c + 1
        /\ \A m \in 1 .. c : Append(s, prev)[m] = s[m]
        /\ Append(s, prev)[c + 1] = prev
    BY <1>5, <2>1, AppendProperties
  <2>3. DOMAIN Append(s, prev) = 1 .. c + 1
    BY <2>1, <2>2
  <2>4. QED BY <1>7, <2>2, <2>3 DEF s
<1> HIDE DEF new, c
<1>9. /\ DOMAIN ops' = DOMAIN ops
      /\ \A x \in DOMAIN ops : x # Cur => ops'[x] = ops[x]
      /\ ops'[Cur] = [ops[Cur] EXCEPT !.args = new]
  BY <1>1, <1>2
<1>10. /\ ops'[Cur] \in Op /\ ops'[Cur].args = new
       /\ ops'[Cur].kind = ops[Cur].kind /\ ops'[Cur].type = ops[Cur].type
  BY <1>4, <1>8, <1>9 DEF Op
<1>11. Assigned(K)
  BY <1>1, <1>2, <1>3, <1>4, <1>5, <1>6, <1>7, <1>8, <1>9, <1>10 DEF Assigned, new, args, c
<1>12. QED BY <1>11 DEF K

LEMMA AssignInv ==
  ASSUME TypeOK, SourceKept, Placement, LoopInv, HalvingInv, NEW K, Assigned(K)
  PROVE  TypeOK' /\ SourceKept' /\ Placement'
<1> DEFINE c == Cardinality(K)
<1>1. /\ pc = "halving" /\ pc' = "origins" /\ n \in Nat \ {0} /\ half \in Nat
      /\ UNCHANGED <<src, sem, n, uses, prev, half>>
      /\ DOMAIN ops' = DOMAIN ops
      /\ \A x \in DOMAIN ops : x # Cur => ops'[x] = ops[x]
  BY DEF Assigned, TypeOK
<1>2. \A x \in DOMAIN ops : ops'[x].kind = ops[x].kind /\ ops'[x].type = ops[x].type
  BY DEF Assigned
<1>3. \A k \in DOMAIN ops'[Cur].args :
        \/ ops'[Cur].args[k] = prev
        \/ \E m \in DOMAIN ops[Cur].args : ops'[Cur].args[k] = ops[Cur].args[m]
  <2> TAKE k \in DOMAIN ops'[Cur].args
  <2>1. k \in 1 .. c + 1 /\ c \in Nat
    BY DEF Assigned
  <2>2. k \in 1 .. c \/ k = c + 1
    BY <2>1
  <2>3. QED BY <2>2 DEF Assigned
<1>4. DefinedBeforeUse(ops')
  <2> SUFFICES ASSUME NEW x \in DOMAIN ops', NEW j \in DOMAIN ops'[x].args
               PROVE  ops'[x].args[j] \in DOMAIN ops' /\ Before(ops'[x].args[j], x)
    BY DEF DefinedBeforeUse
  <2>1. DefinedBeforeUse(ops)
    BY DEF TypeOK
  <2>2. CASE x # Cur
    BY <1>1, <2>1, <2>2 DEF DefinedBeforeUse
  <2>3. CASE x = Cur
    BY <1>1, <1>3, <2>1, <2>3 DEF DefinedBeforeUse, Assigned
  <2>4. QED BY <2>2, <2>3
<1>5. ASSUME NEW x \in DOMAIN ops'
      PROVE  ops'[x] \in Op /\ WellTyped(ops', ops'[x]) /\ IsVector(sem'[x])
  <2>1. ops[x] \in Op /\ WellTyped(ops, ops[x]) /\ IsVector(sem[x]) /\ x \in DOMAIN ops
    BY <1>1 DEF TypeOK
  <2>2. CASE x # Cur
    <3>1. \A k \in DOMAIN ops[x].args : ops[ops[x].args[k]].type = ops'[ops[x].args[k]].type
      BY <1>2, <2>1 DEF TypeOK, DefinedBeforeUse
    <3>2. WellTyped(ops', ops[x])
      BY <2>1, <3>1, SameTypesSuffice
    <3>3. QED BY <1>1, <2>1, <2>2, <3>2
  <2>3. CASE x = Cur
    <3> DEFINE o == ops'[Cur]
    <3>1. /\ o.kind \in Arithmetic /\ o.type = "batched" /\ o \in Op
          /\ DOMAIN o.args = 1 .. c + 1 /\ c \in Nat /\ o.args[c + 1] = prev
      <4>1. NeedsBatching(ops[Cur])
        BY KeptFacts DEF OpsKept, Assigned
      <4>2. QED BY <4>1 DEF Assigned, NeedsBatching
    <3>2. ops'[prev].type = "batched"
      BY <1>2 DEF Assigned
    <3>3. \A k \in DOMAIN o.args : ops'[o.args[k]].type # "none"
      <4> TAKE k \in DOMAIN o.args
      <4>1. \A m \in DOMAIN ops[Cur].args : ops[ops[Cur].args[m]].type # "none"
        BY <2>1, <2>3 DEF WellTyped, ArgTypes
      <4>2. \A m \in DOMAIN ops[Cur].args : ops[Cur].args[m] \in DOMAIN ops
        BY <2>1, <2>3 DEF TypeOK, DefinedBeforeUse
      <4>3. \A m \in DOMAIN ops[Cur].args : ops'[ops[Cur].args[m]].type # "none"
        BY <1>2, <4>1, <4>2
      <4>4. QED BY <1>3, <3>2, <4>3
    <3>4. c + 1 \in DOMAIN o.args
      BY <3>1
    <3> HIDE DEF o
    <3>5. InferredType(ops', o.args) = "batched"
      BY <3>1, <3>2, <3>4 DEF InferredType
    <3>6. WellTyped(ops', o)
      <4>1. DOMAIN ArgTypes(ops', o) = DOMAIN o.args
            /\ \A k \in DOMAIN o.args : ArgTypes(ops', o)[k] = ops'[o.args[k]].type
        BY DEF ArgTypes
      <4>2. ArgTypes(ops', o)[c + 1] = "batched"
        BY <3>1, <3>2, <3>4, <4>1
      <4>3. QED BY <3>1, <3>3, <3>4, <3>5, <4>1, <4>2 DEF WellTyped, Arithmetic, PlainArithmetic
    <3>7. QED BY <1>1, <2>1, <2>3, <3>1, <3>6 DEF o
  <2>4. QED BY <2>2, <2>3
<1>6. TypeOK'
  BY <1>1, <1>4, <1>5 DEF TypeOK
<1>7. SourceKept'
  <2>1. \A x : Touched(x)' <=> Touched(x)
    BY <1>1 DEF Touched, Cur
  <2>2. ASSUME NEW x \in DOMAIN src.ops
        PROVE  /\ x \in DOMAIN ops'
               /\ ops'[x] = [src.ops[x] EXCEPT !.args = ops'[x].args]
               /\ ~Touched(x) => ops'[x] = src.ops[x]
    <3>1. /\ x \in DOMAIN ops /\ ops[x] = [src.ops[x] EXCEPT !.args = ops[x].args]
          /\ ~Touched(x) => ops[x] = src.ops[x]
      BY DEF SourceKept
    <3>2. CASE x # Cur
      BY <1>1, <3>1, <3>2
    <3>3. CASE x = Cur
      <4>1. Touched(x)
        BY <1>1, <3>3 DEF Touched, Assigned
      <4>2. ops'[x] = [ops[x] EXCEPT !.args = ops'[x].args]
        BY <3>3 DEF Assigned
      <4>3. src.ops[x] \in Op
        BY SourceFacts DEF SourceKept
      <4>4. ops'[x] = [src.ops[x] EXCEPT !.args = ops'[x].args]
        <5> DEFINE f == src.ops[x]
                   a == ops[x].args
                   b == ops'[x].args
        <5>1. ops[x] = [f EXCEPT !.args = a] /\ ops'[x] = [ops[x] EXCEPT !.args = b] /\ f \in Op
          BY <3>1, <4>2, <4>3
        <5> HIDE DEF f, a, b
        <5>2. [[f EXCEPT !.args = a] EXCEPT !.args = b] = [f EXCEPT !.args = b]
          BY <5>1 DEF Op
        <5>3. QED BY <5>1, <5>2 DEF f, b
      <4>5. QED BY <1>1, <3>1, <4>1, <4>4
    <3>4. QED BY <3>2, <3>3
  <2>3. QED BY <1>1, <2>1, <2>2 DEF SourceKept
<1>8. Placement'
  <2>1. Made' = Made
    BY <1>1 DEF Made
  <2>2. QED BY <1>1, <1>2, <2>1 DEF Placement
<1>9. QED BY <1>6, <1>7, <1>8

-----------------------------------------------------------------------------
(* The loop over the origins. *)
LEMMA UsesFacts ==
  ASSUME TypeOK, SourceKept, LoopInv, pc \in {"origins", "halving"}
  PROVE  /\ UsesOK /\ uses \in Seq(Position) /\ Cur \in DOMAIN src.ops /\ Cur \in DOMAIN ops
         /\ \A k \in DOMAIN uses : From(uses[k]) \in DOMAIN src.ops /\ From(uses[k])[1] < n
         /\ \A k \in DOMAIN ops[Cur].args : ops[Cur].args[k] \in DOMAIN ops
         /\ ops[Cur].args \in Seq(Position)
<1>1. Cur \in DOMAIN src.ops /\ uses = src.ops[Cur].args /\ Cur \in DOMAIN ops
  BY DEF LoopInv, SourceKept
<1>2. src.ops[Cur] \in Op /\ \A k \in DOMAIN uses : uses[k] \in DOMAIN src.ops /\ Before(uses[k], Cur)
  BY <1>1, SourceFacts DEF SourceKept
<1>3. uses \in Seq(Position) /\ UsesOK
  BY <1>1, <1>2 DEF Op, UsesOK
<1>4. ASSUME NEW k \in DOMAIN uses
      PROVE  From(uses[k]) \in DOMAIN src.ops /\ From(uses[k])[1] < n
  <2> DEFINE y == uses[k]
             o == From(y)
  <2>1. y \in DOMAIN src.ops /\ Before(y, Cur)
    BY <1>2
  <2> HIDE DEF y
  <2>2. o \in DOMAIN src.ops /\ (y = o \/ Before(o, y))
    BY <2>1, OriginFacts DEF OriginsKept
  <2> HIDE DEF o
  <2>3. y \in Position /\ y[2] = 0 /\ o \in Position /\ o[2] = 0
    BY <2>1, <2>2, SourceFacts DEF SourceKept
  <2>4. n \in Nat
    BY DEF TypeOK
  <2>5. y[1] < n /\ y[1] \in Nat /\ o[1] \in Nat
    BY <2>1, <2>3, <2>4 DEF Before, Cur, Position
  <2>6. o[1] < n
    BY <2>2, <2>3, <2>4, <2>5 DEF Before
  <2>7. QED BY <2>2, <2>6 DEF o, y
<1>5. /\ \A k \in DOMAIN ops[Cur].args : ops[Cur].args[k] \in DOMAIN ops
      /\ ops[Cur].args \in Seq(Position)
  BY <1>1 DEF TypeOK, DefinedBeforeUse, Op
<1>6. QED BY <1>1, <1>3, <1>4, <1>5

LEMMA CollectInv ==
  ASSUME TypeOK, SourceKept, Placement, CollectOrigins
  PROVE  LoopInv'
<1> DEFINE args == ops[Cur].args
           s == [k \in DOMAIN args |-> Origin(args[k])]
           F == FirstUses(args)
<1>1. /\ pc = "walk" /\ pc' = "origins" /\ Cur \in DOMAIN ops /\ NeedsBatching(ops[Cur])
      /\ uses' = args /\ origins' = Picked(s, F)
      /\ UNCHANGED <<src, ops, sem, n, prev, half>>
  BY DEF CollectOrigins
<1>2. Cur \in DOMAIN src.ops
  BY <1>1 DEF Placement, Cur
<1>3. NeedsBatching(src.ops[Cur]) /\ ops[Cur] = src.ops[Cur]
  <2>1. ~Touched(Cur)
    <3>1. n \in Nat
      BY DEF TypeOK
    <3>2. QED BY <1>1, <3>1 DEF Touched, Cur
  <2>2. ops[Cur] = src.ops[Cur]
    BY <1>2, <2>1 DEF SourceKept
  <2>3. QED BY <1>1, <2>2
<1>4. /\ args \in Seq(Position) /\ \A k \in DOMAIN args : args[k] \in DOMAIN src.ops
  BY <1>2, <1>3, SourceFacts DEF SourceKept, Op
<1>5. \A k \in DOMAIN args : Origin(args[k]) = From(args[k]) /\ Origin(args[k]) \in Position
  <2>1. \A y \in DOMAIN src.ops : Origin(y) = From(y) /\ From(y) \in DOMAIN src.ops
    BY OriginFacts DEF OriginsKept
  <2>2. \A y \in DOMAIN src.ops : y \in Position
    BY SourceFacts DEF SourceKept
  <2>3. QED BY <1>4, <2>1, <2>2
<1>6. /\ F \in SUBSET DOMAIN args
      /\ \A k \in F, m \in DOMAIN args : m < k => Origin(args[m]) # Origin(args[k])
  BY DEF FirstUses
<1>7. \A k \in DOMAIN args :
        (\A m \in DOMAIN args : m < k => Origin(args[m]) # Origin(args[k])) => k \in F
  BY DEF FirstUses
<1> HIDE DEF F, args
<1>8. s \in Seq(Position) /\ DOMAIN s = DOMAIN args /\ \A k \in DOMAIN args : s[k] = Origin(args[k])
  <2>1. DOMAIN args = 1 .. Len(args) /\ Len(args) \in Nat
    BY <1>4
  <2>2. s \in [1 .. Len(args) -> Position]
    BY <1>5, <2>1
  <2>3. s \in Seq(Position)
    BY <2>1, <2>2, SeqDef
  <2>4. QED BY <2>3
<1> HIDE DEF s
<1>9. /\ Picked(s, F) \in Seq(Position) /\ DOMAIN Picked(s, F) = 1 .. Cardinality(F)
      /\ \A i \in 1 .. Cardinality(F) : Nth(F, i) \in F /\ Picked(s, F)[i] = s[Nth(F, i)]
      /\ \A k \in F : \E i \in DOMAIN Picked(s, F) : Picked(s, F)[i] = s[k]
  BY <1>6, <1>8, PickedFacts
<1>10. Len(args) \in Nat /\ DOMAIN args = 1 .. Len(args)
  BY <1>4
<1>11. ASSUME NEW i \in DOMAIN origins', NEW k \in DOMAIN origins', origins'[i] = origins'[k]
       PROVE  i = k
  <2> DEFINE a == Nth(F, i)
             b == Nth(F, k)
  <2>1. /\ i \in 1 .. Cardinality(F) /\ k \in 1 .. Cardinality(F)
        /\ a \in F /\ b \in F /\ s[a] = s[b]
    BY <1>1, <1>9, <1>11
  <2>2. Rank(F, a) = i /\ Rank(F, b) = k
    BY <1>6, <1>10, <2>1, NthFacts
  <2> HIDE DEF a, b
  <2>3. a \in DOMAIN args /\ b \in DOMAIN args /\ Origin(args[a]) = Origin(args[b])
    BY <1>6, <1>8, <2>1
  <2>4. ~ a < b /\ ~ b < a
    BY <1>6, <2>1, <2>3
  <2>5. a = b
    BY <1>10, <2>3, <2>4
  <2>6. QED BY <2>2, <2>5
<1>12. \A k \in DOMAIN args : \E i \in DOMAIN origins' : origins'[i] = From(args[k])
  <2> TAKE k \in DOMAIN args
  <2> DEFINE A == {m \in DOMAIN args : Origin(args[m]) = Origin(args[k])}
  <2>1. A \in SUBSET (1 .. Len(args)) /\ A # {}
    BY <1>10
  <2>2. PICK j \in A : \A m \in A : j <= m
    BY <1>10, <2>1, LeastIndex
  <2>3. j \in DOMAIN args /\ Origin(args[j]) = Origin(args[k])
    OBVIOUS
  <2>4. \A m \in DOMAIN args : m < j => Origin(args[m]) # Origin(args[j])
    BY <1>10, <2>2, <2>3
  <2>5. j \in F
    BY <1>7, <2>3, <2>4
  <2>6. PICK i \in DOMAIN origins' : origins'[i] = s[j]
    BY <1>1, <1>9, <2>5
  <2>7. origins'[i] = From(args[k])
    BY <1>5, <1>8, <2>3, <2>6
  <2>8. QED BY <2>7
<1>13. OperandsKept'
  <2> DEFINE D == DOMAIN args
             g == [k \in D |-> k]
  <2>1. /\ Cur' = Cur /\ ops'[Cur'].args = args /\ uses' = args /\ src' = src
    BY <1>1 DEF Cur, args
  <2>2. FromSource' = D
    BY <1>4, <2>1 DEF FromSource
  <2>3. Kept' = D
    <3>1. \A k \in D : From(uses[k])' = From(args[k])
      BY <2>1 DEF From
    <3>2. \A k \in D : \E i \in DOMAIN origins' : origins'[i] = From(uses[k])'
      BY <1>12, <3>1
    <3>3. QED BY <2>1, <3>2 DEF Kept
  <2>4. /\ g \in [D -> D] /\ \A p, q \in D : g[p] = g[q] => p = q
        /\ \A k \in D : \E p \in D : g[p] = k
        /\ \A p \in D : args[p] = args[g[p]]
    OBVIOUS
  <2> HIDE DEF D, g
  <2>5. D \ D = {} /\ DOMAIN ops'[Cur'].args = D
    BY <2>1 DEF D
  <2>6. QED BY <2>1, <2>2, <2>3, <2>4, <2>5 DEF OperandsKept
<1>14. /\ Cur' = Cur /\ src' = src /\ uses' = src.ops[Cur].args
  BY <1>1, <1>3 DEF Cur, args
<1>15. QED BY <1>1, <1>2, <1>3, <1>9, <1>11, <1>13, <1>14 DEF LoopInv, NeedsBatching

(* Steps that do not replace the operands.                                 *)
LEMMA LoopStays ==
  ASSUME TypeOK, SourceKept, LoopInv, pc \in {"origins", "halving"},
         UNCHANGED <<src, n, uses>>,
         \A x \in DOMAIN ops : ops'[x] = ops[x],
         \/ origins' = origins
         \/ origins # << >> /\ origins' = Tail(origins) /\ ~Reduced(Head(origins))
  PROVE  LoopInv'
<1>1. /\ Cur \in DOMAIN src.ops /\ NeedsBatching(src.ops[Cur]) /\ uses = src.ops[Cur].args
      /\ origins \in Seq(Position)
      /\ \A i, k \in DOMAIN origins : origins[i] = origins[k] => i = k
      /\ OperandsKept
  BY DEF LoopInv
<1>2. Cur' = Cur /\ Cur \in DOMAIN ops /\ ops'[Cur] = ops[Cur]
      /\ \A k \in DOMAIN ops[Cur].args : ops[Cur].args[k] \in DOMAIN ops
  BY UsesFacts DEF Cur
<1>3. /\ origins' \in Seq(Position)
      /\ \A i, k \in DOMAIN origins' : origins'[i] = origins'[k] => i = k
      /\ \A i \in DOMAIN origins' : \E k \in DOMAIN origins : origins'[i] = origins[k]
      /\ \A k \in DOMAIN origins : Reduced(origins[k]) => \E i \in DOMAIN origins' : origins'[i] = origins[k]
  <2>1. CASE origins' = origins
    BY <1>1, <2>1
  <2>2. CASE origins # << >> /\ origins' = Tail(origins) /\ ~Reduced(Head(origins))
    <3>1. /\ origins' \in Seq(Position) /\ Head(origins) = origins[1]
          /\ \A i \in DOMAIN origins' : i + 1 \in DOMAIN origins /\ origins'[i] = origins[i + 1]
          /\ \A i, k \in DOMAIN origins' : i + 1 = k + 1 => i = k
          /\ \A k \in DOMAIN origins : k # 1 => \E i \in DOMAIN origins' : origins'[i] = origins[k]
      BY <1>1, <2>2, TailFacts
    <3>2. \A i, k \in DOMAIN origins' : origins'[i] = origins'[k] => i = k
      BY <1>1, <3>1
    <3>3. \A k \in DOMAIN origins : Reduced(origins[k]) => k # 1
      BY <2>2, <3>1
    <3>4. QED BY <3>1, <3>2, <3>3
  <2>3. QED BY <2>1, <2>2
<1>4. Kept' = Kept
  <2>1. \A o : (Reduced(o)' <=> Reduced(o)) /\ From(o)' = From(o)
    BY DEF Reduced, CountOf, RotationsOf, From, By, IsPowerOfTwo
  <2>2. \A k \in DOMAIN uses : From(uses[k])' = From(uses[k]) /\ (Reduced(From(uses[k]))' <=> Reduced(From(uses[k])))
    BY DEF Reduced, CountOf, RotationsOf, From, By, IsPowerOfTwo
  <2>3. \A k \in DOMAIN uses :
           ((\E i \in DOMAIN origins' : origins'[i] = From(uses[k])) \/ ~Reduced(From(uses[k])))
             <=> ((\E i \in DOMAIN origins : origins[i] = From(uses[k])) \/ ~Reduced(From(uses[k])))
    BY <1>3
  <2>4. QED BY <2>2, <2>3 DEF Kept
<1>5. FromSource' = FromSource
  BY <1>2 DEF FromSource
<1>6. OperandsKept'
  <2>1. \A p \in DOMAIN ops[Cur].args : ops'[ops[Cur].args[p]] = ops[ops[Cur].args[p]]
    BY <1>2
  <2>2. QED BY <1>1, <1>2, <1>4, <1>5, <2>1 DEF OperandsKept
<1>7. QED BY <1>1, <1>2, <1>3, <1>6 DEF LoopInv, NeedsBatching

LEMMA AssignLoop ==
  ASSUME TypeOK, SourceKept, Placement, LoopInv, HalvingInv,
         Assigned(Remaining(Head(origins))), SourceKept'
  PROVE  LoopInv'
<1> DEFINE o == Head(origins)
           K == Remaining(o)
           c == Cardinality(K)
           args == ops[Cur].args
<1>1. /\ pc = "halving" /\ Cur \in DOMAIN src.ops /\ Cur \in DOMAIN ops /\ NeedsBatching(src.ops[Cur])
      /\ DOMAIN ops' = DOMAIN ops /\ \A x \in DOMAIN ops : x # Cur => ops'[x] = ops[x]
      /\ origins # << >> /\ origins' = Tail(origins)
      /\ UNCHANGED <<src, n, uses, prev>>
      /\ Cur' = Cur
  BY DEF Assigned, Cur
<1>2. /\ uses = src.ops[Cur].args /\ origins \in Seq(Position)
      /\ \A i, k \in DOMAIN origins : origins[i] = origins[k] => i = k
      /\ OperandsKept
  BY <1>1 DEF LoopInv
<1>3. /\ K \in SUBSET DOMAIN args /\ c \in Nat /\ args \in Seq(Position)
      /\ DOMAIN ops'[Cur].args = 1 .. c + 1
      /\ \A m \in 1 .. c : Nth(K, m) \in K /\ ops'[Cur].args[m] = args[Nth(K, m)]
      /\ ops'[Cur].args[c + 1] = prev
  BY DEF Assigned
<1>4. UsesOK /\ \A k \in DOMAIN args : args[k] \in DOMAIN ops /\ Before(args[k], Cur)
  <2>1. UsesOK
    BY <1>1, UsesFacts
  <2>2. QED BY <1>1, <2>1 DEF TypeOK, DefinedBeforeUse
<1>5. UsesOf(o) = RotationsOf(o)
  BY <1>4, ReducibleFacts
<1>6. Reduced(o)
  BY <1>1 DEF HalvingInv
<1>7. prev \notin DOMAIN src.ops /\ ops'[prev].kind = "add"
  <2>1. prev \in DOMAIN ops /\ prev[2] > 0 /\ ops[prev].kind = "add"
    BY DEF Assigned
  <2>2. prev \notin DOMAIN src.ops
    BY <2>1 DEF Placement
  <2>3. prev # Cur
    BY <1>1, <2>2
  <2>4. QED BY <1>1, <2>1, <2>2, <2>3
<1>8. \A k : k \in K <=> k \in DOMAIN args /\ \A m \in RotationsOf(o) : args[k] # uses[m]
  BY <1>5 DEF Remaining
<1>9. /\ origins' \in Seq(Position) /\ o = origins[1] /\ 1 \in DOMAIN origins
      /\ \A i \in DOMAIN origins' : i + 1 \in DOMAIN origins /\ i + 1 # 1 /\ origins'[i] = origins[i + 1]
      /\ \A i, k \in DOMAIN origins' : i + 1 = k + 1 => i = k
      /\ \A k \in DOMAIN origins : k # 1 => \E i \in DOMAIN origins' : origins'[i] = origins[k]
  BY <1>1, <1>2, TailFacts
<1> HIDE DEF o, K, c, args
<1>10. \A i, k \in DOMAIN origins' : origins'[i] = origins'[k] => i = k
  BY <1>2, <1>9
<1>11. \A k : k \in Kept' <=> k \in Kept /\ k \notin RotationsOf(o)
  <2>1. \A k \in DOMAIN uses : From(uses[k])' = From(uses[k]) /\ (Reduced(From(uses[k]))' <=> Reduced(From(uses[k])))
    BY <1>1 DEF Reduced, CountOf, RotationsOf, From, By, IsPowerOfTwo
  <2>2. \A y : (\E i \in DOMAIN origins' : origins'[i] = y)
                  <=> (\E i \in DOMAIN origins : origins[i] = y) /\ y # o
    BY <1>2, <1>9
  <2>3. \A k : k \in RotationsOf(o) <=> k \in DOMAIN uses /\ From(uses[k]) = o
    BY DEF RotationsOf
  <2>4. \A k : k \in Kept' <=>
           k \in DOMAIN uses /\ ((\E i \in DOMAIN origins' : origins'[i] = From(uses[k])) \/ ~Reduced(From(uses[k])))
    BY <1>1, <2>1 DEF Kept
  <2>5. \A k : k \in Kept <=>
           k \in DOMAIN uses /\ ((\E i \in DOMAIN origins : origins[i] = From(uses[k])) \/ ~Reduced(From(uses[k])))
    BY DEF Kept
  <2>6. QED BY <1>6, <2>2, <2>3, <2>4, <2>5
<1>12. PICK g \in [FromSource -> Kept] :
          /\ \A p, q \in FromSource : g[p] = g[q] => p = q
          /\ \A k \in Kept : \E p \in FromSource : g[p] = k
          /\ \A p \in FromSource : args[p] = uses[g[p]]
  BY <1>2 DEF OperandsKept, args
<1>13. \A p : p \in FromSource <=> p \in DOMAIN args /\ args[p] \in DOMAIN src.ops
  BY DEF FromSource, args
<1>14. \A p \in DOMAIN args \ FromSource : ops[args[p]].kind = "add"
  BY <1>2 DEF OperandsKept, args
<1>15. \A m : m \in FromSource' <=> m \in 1 .. c /\ Nth(K, m) \in FromSource
  <2>1. \A m : m \in FromSource' <=> m \in 1 .. c + 1 /\ ops'[Cur].args[m] \in DOMAIN src.ops
    BY <1>1, <1>3 DEF FromSource
  <2>2. ASSUME NEW m PROVE m \in FromSource' <=> m \in 1 .. c /\ Nth(K, m) \in FromSource
    <3>1. CASE m \in 1 .. c
      <4>1. m \in 1 .. c + 1 /\ ops'[Cur].args[m] = args[Nth(K, m)] /\ Nth(K, m) \in DOMAIN args
        BY <1>3, <3>1
      <4>2. QED BY <1>13, <2>1, <3>1, <4>1
    <3>2. CASE m \notin 1 .. c
      <4>1. m \in 1 .. c + 1 => m = c + 1
        BY <1>3, <3>2
      <4>2. QED BY <1>3, <1>7, <2>1, <3>2, <4>1
    <3>3. QED BY <3>1, <3>2
  <2>3. QED BY <2>2
<1>16. \A m \in 1 .. c : Rank(K, Nth(K, m)) = m
  <2>1. DOMAIN args = 1 .. Len(args) /\ Len(args) \in Nat
    BY <1>3
  <2>2. \A m \in 1 .. Cardinality(K) : Rank(K, Nth(K, m)) = m
    BY <1>3, <2>1, NthFacts
  <2>3. QED BY <2>2 DEF c
<1>17. \A k \in K : Rank(K, k) \in 1 .. c /\ Nth(K, Rank(K, k)) = k
  <2>1. DOMAIN args = 1 .. Len(args) /\ Len(args) \in Nat
    BY <1>3
  <2>2. \A k \in K : Rank(K, k) \in 1 .. Cardinality(K) /\ Nth(K, Rank(K, k)) = k
    BY <1>3, <2>1, RankOfNth
  <2>3. QED BY <2>2 DEF c
<1> DEFINE h == [m \in FromSource' |-> g[Nth(K, m)]]
<1>18. \A m \in FromSource' : h[m] = g[Nth(K, m)] /\ m \in 1 .. c /\ Nth(K, m) \in FromSource /\ Nth(K, m) \in K
  BY <1>3, <1>15
<1>19. ASSUME NEW m \in FromSource' PROVE h[m] \in Kept'
  <2>1. g[Nth(K, m)] \in Kept /\ args[Nth(K, m)] = uses[g[Nth(K, m)]] /\ Nth(K, m) \in K
    BY <1>12, <1>18
  <2>2. g[Nth(K, m)] \notin RotationsOf(o)
    BY <1>8, <2>1
  <2>3. QED BY <1>11, <1>18, <2>1, <2>2
<1>20. DOMAIN h = FromSource'
  OBVIOUS
<1>21. h \in [FromSource' -> Kept']
  BY <1>19
<1> HIDE DEF h
<1>22. ASSUME NEW p \in FromSource', NEW q \in FromSource', h[p] = h[q] PROVE p = q
  BY <1>12, <1>16, <1>18, <1>22
<1>23. ASSUME NEW k \in Kept' PROVE \E p \in FromSource' : h[p] = k
  <2>1. k \in Kept /\ k \notin RotationsOf(o)
    BY <1>11
  <2>2. PICK p \in FromSource : g[p] = k
    BY <1>12, <2>1
  <2>3. p \in DOMAIN args /\ args[p] = uses[k] /\ k \in DOMAIN uses
    BY <1>12, <1>13, <2>1, <2>2 DEF Kept
  <2>4. \A m \in RotationsOf(o) : uses[m] # uses[k]
    BY <2>1, <2>3 DEF RotationsOf
  <2>5. p \in K
    BY <1>8, <2>3, <2>4
  <2>6. Rank(K, p) \in FromSource' /\ Nth(K, Rank(K, p)) = p
    BY <1>15, <1>17, <2>5
  <2>7. QED BY <1>18, <2>2, <2>6
<1>24. \A p \in FromSource' : ops'[Cur].args[p] = uses[h[p]]
  BY <1>3, <1>12, <1>18
<1>25. ASSUME NEW p \in DOMAIN ops'[Cur].args \ FromSource' PROVE ops'[ops'[Cur].args[p]].kind = "add"
  <2>1. CASE p \in 1 .. c
    <3>1. Nth(K, p) \in DOMAIN args \ FromSource /\ ops'[Cur].args[p] = args[Nth(K, p)]
      BY <1>3, <1>15, <1>25, <2>1
    <3>2. args[Nth(K, p)] \in DOMAIN ops /\ args[Nth(K, p)] # Cur /\ ops[args[Nth(K, p)]].kind = "add"
      <4>1. args[Nth(K, p)] \notin DOMAIN src.ops
        BY <1>13, <3>1
      <4>2. QED BY <1>1, <1>4, <1>14, <3>1, <4>1
    <3>3. QED BY <1>1, <3>1, <3>2
  <2>2. CASE p \notin 1 .. c
    <3>1. p = c + 1
      BY <1>3, <2>2
    <3>2. QED BY <1>3, <1>7, <3>1
  <2>3. QED BY <2>1, <2>2
<1>26. OperandsKept'
  <2>1. \A p \in FromSource' : ops'[Cur'].args[p] = uses'[h[p]]
    BY <1>1, <1>24
  <2>2. QED BY <1>1, <1>21, <1>22, <1>23, <1>25, <2>1 DEF OperandsKept
<1>27. QED BY <1>1, <1>2, <1>9, <1>10, <1>26 DEF LoopInv, NeedsBatching

-----------------------------------------------------------------------------
(* What is reduced is a vector. *)
LEMMA ReducedFacts ==
  ASSUME SourceKept, UsesOK, uses \in Seq(Position), NEW o, Reduced(o)
  PROVE  /\ CountOf(o) \in Nat /\ CountOf(o) > 1
         /\ o \in DOMAIN src.ops /\ src.ops[o].type = "batched"
         /\ \E k \in RotationsOf(o) : TRUE
<1>1. RotationsOf(o) \in SUBSET (1 .. Len(uses)) /\ Len(uses) \in Nat
  BY DEF RotationsOf
<1>2. CountOf(o) \in Nat /\ CountOf(o) > 1
  BY <1>1, IndicesFinite DEF CountOf, Reduced
<1>3. 1 \in 0 .. CountOf(o) - 1
  BY <1>2
<1>4. PICK k \in RotationsOf(o) : By(uses[k]) = 1
  BY <1>3 DEF Reduced
<1> DEFINE y == uses[k]
<1>5. y \in DOMAIN src.ops /\ From(y) = o /\ By(y) = 1
  BY <1>4 DEF RotationsOf, UsesOK
<1> HIDE DEF y
<1>6. src.ops[y].kind = "rotate"
  BY <1>5 DEF By, Anywhere
<1>7. From(y) = src.ops[y].args[1]
  BY <1>6 DEF From
<1>8. src.ops[y] \in Op /\ WellTyped(src.ops, src.ops[y]) /\ From(y) \in DOMAIN src.ops
  BY <1>5, SourceFacts, OriginFacts DEF SourceKept, OriginsKept
<1>9. src.ops[src.ops[y].args[1]].type = "batched"
  <2>1. DOMAIN src.ops[y].args = {1}
    BY <1>6, <1>8, Arity
  <2>2. ArgTypes(src.ops, src.ops[y])[1] = src.ops[src.ops[y].args[1]].type
    BY <2>1 DEF ArgTypes
  <2>3. QED BY <1>6, <1>8, <2>2 DEF WellTyped
<1>10. QED BY <1>2, <1>4, <1>5, <1>7, <1>8, <1>9

LEMMA StartInv ==
  ASSUME TypeOK, SourceKept, Placement, LoopInv, StartHalving
  PROVE  HalvingInv' /\ half' \in Nat
<1> DEFINE o == Head(origins)
<1>1. /\ pc = "origins" /\ origins # << >> /\ Reducible(o)
      /\ prev' = o /\ half' = SizeOf(o) \div 2
      /\ UNCHANGED <<src, ops, sem, n, uses, origins>>
  BY DEF StartHalving
<1>2. /\ UsesOK /\ uses \in Seq(Position)
      /\ \A k \in DOMAIN uses : From(uses[k]) \in DOMAIN src.ops /\ From(uses[k])[1] < n
  BY <1>1, UsesFacts
<1> HIDE DEF o
<1>3. Reduced(o) /\ SizeOf(o) = CountOf(o)
  BY <1>1, <1>2, ReducibleFacts
<1>4. /\ CountOf(o) \in Nat /\ CountOf(o) > 1 /\ o \in DOMAIN src.ops /\ src.ops[o].type = "batched"
      /\ \E k \in RotationsOf(o) : TRUE
  BY <1>2, <1>3, ReducedFacts
<1>5. half' \in Nat /\ half' > 0
  BY <1>1, <1>3, <1>4
<1>6. o[1] < n
  BY <1>2, <1>4 DEF RotationsOf
<1>7. o[2] = 0 /\ o \in DOMAIN ops /\ ops[o].type = "batched"
  <2>1. o[2] = 0
    BY <1>4, SourceFacts DEF SourceKept
  <2>2. QED BY <1>4, <2>1, KeptFacts DEF OpsKept
<1>8. Reduced(o)'
  <2>1. o' = o
    BY <1>1 DEF o
  <2>2. RotationsOf(o)' = RotationsOf(o)
    BY <1>1, <2>1 DEF RotationsOf, From
  <2>3. CountOf(o)' = CountOf(o)
    BY <2>2 DEF CountOf
  <2>4. {By(uses[k]) : k \in RotationsOf(o)}' = {By(uses[k]) : k \in RotationsOf(o)}
    BY <1>1, <2>2 DEF By
  <2>5. IsPowerOfTwo(CountOf(o))' = IsPowerOfTwo(CountOf(o))
    BY <2>3 DEF IsPowerOfTwo
  <2>6. QED BY <1>3, <2>3, <2>4, <2>5 DEF Reduced
<1>9. HalvingInv'
  BY <1>1, <1>5, <1>6, <1>7, <1>8 DEF HalvingInv, o
<1>10. QED BY <1>5, <1>9

-----------------------------------------------------------------------------
(* What is left to reduce, operation by operation. *)
FromIn(f, y) == IF f[y].kind = "rotate" THEN f[y].args[1] ELSE y

IndexIn(f, y) ==
  IF f[y].kind = "rotate" THEN f[y].i
  ELSE IF f[y].type = "batched" /\ f[y].kind # "constant" THEN 0 ELSE Anywhere

UsesIn(f, x, v) == {k \in DOMAIN f[x].args : FromIn(f, f[x].args[k]) = v}

SizeIn(f, x, v) == Cardinality(UsesIn(f, x, v))

ReducibleAt(f, x, v) ==
  /\ SizeIn(f, x, v) > 1 /\ IsPowerOfTwo(SizeIn(f, x, v))
  /\ {IndexIn(f, f[x].args[k]) : k \in UsesIn(f, x, v)} = 0 .. SizeIn(f, x, v) - 1

LEMMA ReducibleInFacts ==
  ASSUME NEW p, NEW x
  PROVE  ReducibleIn(p, x) = {<<v, SizeIn(p.ops, x, v)>> : v \in {w \in DOMAIN p.ops : ReducibleAt(p.ops, x, w)}}
BY DEF ReducibleIn, ReducibleAt, SizeIn, UsesIn, IndexIn, FromIn

LEMMA NothingReducible ==
  ASSUME NEW f, NEW x
  PROVE  ReducibleIn([ops |-> f], x) = {} <=> \A v \in DOMAIN f : ~ReducibleAt(f, x, v)
<1>1. [ops |-> f].ops = f
  OBVIOUS
<1>2. ReducibleIn([ops |-> f], x) = {<<v, SizeIn(f, x, v)>> : v \in {w \in DOMAIN f : ReducibleAt(f, x, w)}}
  BY <1>1, ReducibleInFacts
<1>3. QED BY <1>2

(* Nothing more is found when operations are added and operands of others  *)
(* replaced.                                                               *)
LEMMA StillNothing ==
  ASSUME NEW f, NEW g, NEW x \in DOMAIN f, DefinedBeforeUse(f),
         \A y \in DOMAIN f : f[y] \in Op /\ WellTyped(f, f[y]),
         DOMAIN f \subseteq DOMAIN g, g[x].args = f[x].args,
         \A y \in DOMAIN f : /\ g[y].kind = f[y].kind /\ g[y].type = f[y].type /\ g[y].i = f[y].i
                             /\ f[y].kind = "rotate" => g[y].args = f[y].args,
         ReducibleIn([ops |-> f], x) = {}
  PROVE  ReducibleIn([ops |-> g], x) = {}
<1>1. \A y \in DOMAIN f : FromIn(g, y) = FromIn(f, y) /\ IndexIn(g, y) = IndexIn(f, y)
  BY DEF FromIn, IndexIn
<1>2. \A k \in DOMAIN f[x].args : f[x].args[k] \in DOMAIN f
  BY DEF DefinedBeforeUse
<1>3. ASSUME NEW v PROVE UsesIn(g, x, v) = UsesIn(f, x, v) /\ (ReducibleAt(g, x, v) => ReducibleAt(f, x, v))
  <2>1. UsesIn(g, x, v) = UsesIn(f, x, v)
    BY <1>1, <1>2 DEF UsesIn
  <2>2. SizeIn(g, x, v) = SizeIn(f, x, v)
    BY <2>1 DEF SizeIn
  <2>3. {IndexIn(g, g[x].args[k]) : k \in UsesIn(g, x, v)} = {IndexIn(f, f[x].args[k]) : k \in UsesIn(f, x, v)}
    <3>1. \A k \in UsesIn(f, x, v) : IndexIn(g, g[x].args[k]) = IndexIn(f, f[x].args[k])
      BY <1>1, <1>2 DEF UsesIn
    <3>2. QED BY <2>1, <3>1
  <2>4. QED BY <2>1, <2>2, <2>3 DEF ReducibleAt
<1>4. \A v \in DOMAIN f : ~ReducibleAt(f, x, v)
  BY NothingReducible
<1>5. ASSUME NEW v \in DOMAIN g, ReducibleAt(g, x, v) PROVE FALSE
  <2>1. ReducibleAt(f, x, v)
    BY <1>3, <1>5
  <2>2. UsesIn(f, x, v) # {}
    <3>1. SizeIn(f, x, v) > 1
      BY <2>1 DEF ReducibleAt
    <3>2. Cardinality({}) = 0
      BY FS_EmptySet
    <3>3. QED BY <3>1, <3>2 DEF SizeIn
  <2>3. PICK k \in DOMAIN f[x].args : FromIn(f, f[x].args[k]) = v
    BY <2>2 DEF UsesIn
  <2> DEFINE y == f[x].args[k]
  <2>4. y \in DOMAIN f /\ FromIn(f, y) = v
    BY <1>2, <2>3
  <2> HIDE DEF y
  <2>5. v \in DOMAIN f
    <3>1. CASE f[y].kind = "rotate"
      <4>1. 1 \in DOMAIN f[y].args /\ v = f[y].args[1]
        <5>1. DOMAIN f[y].args = {1}
          BY <2>4, <3>1, Arity
        <5>2. QED BY <2>4, <3>1, <5>1 DEF FromIn
      <4>2. QED BY <2>4, <4>1 DEF DefinedBeforeUse
    <3>2. CASE f[y].kind # "rotate"
      BY <2>4, <3>2 DEF FromIn
    <3>3. QED BY <3>1, <3>2
  <2>6. QED BY <1>4, <2>1, <2>5
<1>6. QED BY <1>5, NothingReducible

(* When the loop over the origins of an operation has ended, nothing is    *)
(* left to reduce there.                                                   *)
LEMMA CurReduced ==
  ASSUME TypeOK, SourceKept, Placement, LoopInv, pc = "origins", origins = << >>
  PROVE  ReducibleIn([ops |-> ops], Cur) = {}
<1> DEFINE args == ops[Cur].args
<1>1. /\ UsesOK /\ uses \in Seq(Position) /\ Cur \in DOMAIN ops
      /\ \A k \in DOMAIN args : args[k] \in DOMAIN ops
  BY UsesFacts
<1> SUFFICES ASSUME NEW v \in DOMAIN ops, ReducibleAt(ops, Cur, v) PROVE FALSE
  BY NothingReducible
<1> DEFINE A == UsesIn(ops, Cur, v)
           R == RotationsOf(v)
<1>2. PICK g \in [FromSource -> Kept] :
          /\ \A p, q \in FromSource : g[p] = g[q] => p = q
          /\ \A k \in Kept : \E p \in FromSource : g[p] = k
          /\ \A p \in FromSource : args[p] = uses[g[p]]
  BY DEF LoopInv, OperandsKept
<1>3. \A p : p \in FromSource <=> p \in DOMAIN args /\ args[p] \in DOMAIN src.ops
  BY DEF FromSource
<1>4. \A p \in DOMAIN args \ FromSource : ops[args[p]].kind = "add"
  BY DEF LoopInv, OperandsKept
<1>5. \A k \in Kept : k \in DOMAIN uses /\ ~Reduced(From(uses[k]))
  BY DEF Kept
<1>6. \A k \in DOMAIN uses : ~Reduced(From(uses[k])) => k \in Kept
  BY DEF Kept
<1>7. \A y \in DOMAIN src.ops : FromIn(ops, y) = From(y) /\ IndexIn(ops, y) = By(y)
  <2> TAKE y \in DOMAIN src.ops
  <2>1. Origin(y) = From(y) /\ Index(y) = By(y) /\ y \in DOMAIN ops
    BY OriginFacts, KeptFacts DEF OriginsKept, OpsKept
  <2>2. ops[y].kind = "rotate" => ops[y].type = "batched"
    BY <2>1 DEF TypeOK, WellTyped
  <2>3. FromIn(ops, y) = Origin(y) /\ IndexIn(ops, y) = Index(y)
    BY <2>2 DEF FromIn, Origin, IndexIn, Index
  <2>4. QED BY <2>1, <2>3
<1>8. \A k : k \in A <=> k \in DOMAIN args /\ FromIn(ops, args[k]) = v
  BY DEF UsesIn
<1>9. \A k : k \in R <=> k \in DOMAIN uses /\ From(uses[k]) = v
  BY DEF RotationsOf
<1>10. /\ Cardinality(A) > 1 /\ IsPowerOfTwo(Cardinality(A))
       /\ {IndexIn(ops, args[k]) : k \in A} = 0 .. Cardinality(A) - 1
  BY DEF ReducibleAt, SizeIn
<1>11. Cardinality(A) \in Nat
  <2>1. DOMAIN args = 1 .. Len(args) /\ Len(args) \in Nat
    <3>1. ops[Cur] \in Op
      BY <1>1 DEF TypeOK
    <3>2. QED BY <3>1 DEF Op
  <2>2. A \in SUBSET (1 .. Len(args))
    BY <1>8, <2>1
  <2> HIDE DEF A, args
  <2>3. QED BY <2>1, <2>2, IndicesFinite
<1> HIDE DEF A, R, args
<1>12. PICK j \in A : IndexIn(ops, args[j]) = 1
  <2>1. 1 \in 0 .. Cardinality(A) - 1
    BY <1>10, <1>11
  <2>2. QED BY <1>10, <2>1
<1>13. v \in DOMAIN src.ops
  <2>1. ops[args[j]].kind = "rotate" /\ j \in DOMAIN args /\ FromIn(ops, args[j]) = v
    BY <1>8, <1>12 DEF IndexIn, Anywhere
  <2>2. j \in FromSource
    BY <1>4, <2>1
  <2>3. args[j] \in DOMAIN src.ops
    BY <1>3, <2>2
  <2>4. QED BY <1>7, <2>1, <2>3, OriginFacts DEF OriginsKept
<1>14. \A k \in A : k \in FromSource
  <2> SUFFICES ASSUME NEW k \in A, k \notin FromSource PROVE FALSE
    OBVIOUS
  <2>1. k \in DOMAIN args /\ FromIn(ops, args[k]) = v /\ ops[args[k]].kind = "add"
    BY <1>4, <1>8
  <2>2. v = args[k]
    BY <2>1 DEF FromIn
  <2>3. QED BY <1>3, <1>13, <2>1, <2>2
<1>15. \A k \in A : g[k] \in R /\ g[k] \in Kept /\ args[k] = uses[g[k]] /\ args[k] \in DOMAIN src.ops
  BY <1>2, <1>3, <1>5, <1>7, <1>8, <1>9, <1>14
<1>16. ~Reduced(v)
  BY <1>5, <1>9, <1>12, <1>15
<1>17. \A k \in R : \E p \in A : g[p] = k
  <2> TAKE k \in R
  <2>1. k \in Kept
    BY <1>6, <1>9, <1>16
  <2>2. PICK p \in FromSource : g[p] = k
    BY <1>2, <2>1
  <2>3. p \in DOMAIN args /\ args[p] \in DOMAIN src.ops /\ args[p] = uses[k]
    BY <1>2, <1>3, <2>2
  <2>4. p \in A
    BY <1>7, <1>8, <1>9, <2>3
  <2>5. QED BY <2>2, <2>4
<1>18. Cardinality(R) = Cardinality(A)
  <2> DEFINE e == [p \in A |-> g[p]]
  <2>1. e \in [A -> R]
    BY <1>15
  <2>2. \A p, q \in A : e[p] = e[q] => p = q
    BY <1>2, <1>14
  <2>3. \A k \in R : \E p \in A : e[p] = k
    BY <1>17
  <2> HIDE DEF e
  <2>4. e \in Bijection(A, R)
    BY <2>1, <2>2, <2>3 DEF Bijection, Injection, Surjection, IsInjective
  <2>5. ExistsBijection(A, R)
    BY <2>4 DEF ExistsBijection
  <2>6. IsFiniteSet(A)
    <3>1. DOMAIN args = 1 .. Len(args) /\ Len(args) \in Nat
      <4>1. ops[Cur] \in Op
        BY <1>1 DEF TypeOK
      <4>2. QED BY <4>1 DEF Op, args
    <3>2. A \in SUBSET (1 .. Len(args))
      BY <1>8, <3>1
    <3>3. QED BY <3>1, <3>2, IndicesFinite
  <2>7. QED BY <2>5, <2>6, FS_Bijection
<1>19. {By(uses[k]) : k \in R} = {IndexIn(ops, args[k]) : k \in A}
  <2>1. \A p \in A : By(uses[g[p]]) = IndexIn(ops, args[p])
    BY <1>7, <1>15
  <2>2. ASSUME NEW i PROVE i \in {By(uses[k]) : k \in R} => i \in {IndexIn(ops, args[k]) : k \in A}
    BY <1>17, <2>1
  <2>3. ASSUME NEW i PROVE i \in {IndexIn(ops, args[k]) : k \in A} => i \in {By(uses[k]) : k \in R}
    BY <1>15, <2>1
  <2>4. QED BY <2>2, <2>3
<1>20. Reduced(v)
  BY <1>10, <1>18, <1>19 DEF Reduced, CountOf, R
<1>21. QED BY <1>16, <1>20

LEMMA DoneStays ==
  ASSUME TypeOK, SourceKept, DoneInv, src' = src, n' = n,
         \A x \in DOMAIN ops : /\ x \in DOMAIN ops'
                               /\ ops'[x].kind = ops[x].kind /\ ops'[x].type = ops[x].type
                               /\ ops'[x].i = ops[x].i
                               /\ ops[x].kind = "rotate" \/ x # Cur => ops'[x].args = ops[x].args,
         pc' # "done"
  PROVE  DoneInv'
<1> SUFFICES ASSUME NEW x \in Batched(src), x[1] < n PROVE ReducibleIn([ops |-> ops'], x) = {}
  BY DEF DoneInv, Batched, Arithmetic
<1>1. x \in DOMAIN ops /\ x # Cur
  <2>1. n \in Nat /\ x \in DOMAIN src.ops
    BY DEF TypeOK, Batched
  <2>2. QED BY <2>1, KeptFacts DEF OpsKept, Cur
<1>2. ReducibleIn([ops |-> ops], x) = {}
  BY DEF DoneInv
<1>3. /\ DefinedBeforeUse(ops) /\ \A y \in DOMAIN ops : ops[y] \in Op /\ WellTyped(ops, ops[y])
  BY DEF TypeOK
<1>4. QED
  <2> DEFINE g == ops'
             f == ops
  <2>1. /\ DOMAIN f \subseteq DOMAIN g /\ g[x].args = f[x].args
        /\ \A y \in DOMAIN f : /\ g[y].kind = f[y].kind /\ g[y].type = f[y].type /\ g[y].i = f[y].i
                               /\ f[y].kind = "rotate" => g[y].args = f[y].args
    BY <1>1
  <2>2. /\ x \in DOMAIN f /\ DefinedBeforeUse(f) /\ ReducibleIn([ops |-> f], x) = {}
        /\ \A y \in DOMAIN f : f[y] \in Op /\ WellTyped(f, f[y])
    BY <1>1, <1>2, <1>3
  <2> HIDE DEF f, g
  <2>3. ReducibleIn([ops |-> g], x) = {}
    BY <2>1, <2>2, StillNothing
  <2>4. QED BY <2>3 DEF g

(* The walk goes on to the next operation. *)
LEMMA DoneMovesOn ==
  ASSUME TypeOK, SourceKept, DoneInv, UNCHANGED <<src, ops>>, n' = n + 1, pc' # "done",
         Cur \in Batched(src) => ReducibleIn([ops |-> ops], Cur) = {}
  PROVE  DoneInv'
<1> SUFFICES ASSUME NEW x \in Batched(src), x[1] < n + 1 PROVE ReducibleIn([ops |-> ops], x) = {}
  BY DEF DoneInv, Batched, Arithmetic
<1>1. x \in DOMAIN src.ops /\ n \in Nat
  BY DEF Batched, TypeOK
<1>2. x = <<x[1], 0>> /\ x[1] \in Nat
  BY <1>1, SourceFacts DEF SourceKept
<1>3. x[1] < n \/ x = Cur
  BY <1>1, <1>2 DEF Cur
<1>4. QED BY <1>3 DEF DoneInv

-----------------------------------------------------------------------------
(* The invariant of what the body is is inductive. *)
LEMMA InitInv == Init => BInv
<1> SUFFICES ASSUME Init PROVE BInv
  OBVIOUS
<1>1. src \in Source /\ ops = src.ops /\ sem = src.sem /\ n = 1 /\ pc = "walk" /\ half = 0
  BY DEF Init
<1>2. IsProgram(src)
  BY <1>1, SourceAssumption
<1>3. TypeOK
  BY <1>1, <1>2 DEF TypeOK, IsProgram
<1>4. \A x \in DOMAIN src.ops : x \in Position /\ x[1] \in Nat \ {0} /\ x[2] = 0 /\ src.ops[x] \in Op
  BY <1>1, SourceFacts
<1>5. SourceKept
  <2>1. \A x \in DOMAIN src.ops : src.ops[x] = [src.ops[x] EXCEPT !.args = src.ops[x].args]
    BY <1>4 DEF Op
  <2>2. QED BY <1>1, <2>1 DEF SourceKept
<1>6. Placement
  <2>1. Made = {}
    BY <1>1, <1>4 DEF Made
  <2>2. {<<n - 1, m>> : m \in 1 .. 0} = {}
    OBVIOUS
  <2>3. \E c \in Nat : Made = {<<n - 1, m>> : m \in 1 .. c}
    BY <2>1, <2>2
  <2>4. QED BY <1>1, <1>4, <2>3 DEF Placement
<1>7. LoopInv /\ HalvingInv
  BY <1>1 DEF LoopInv, HalvingInv
<1>8. DoneInv
  <2>1. \A x \in Batched(src) : ~ x[1] < n
    BY <1>1, <1>4 DEF Batched
  <2>2. QED BY <1>1, <2>1 DEF DoneInv
<1>9. QED BY <1>3, <1>5, <1>6, <1>7, <1>8 DEF BInv

LEMMA NextInv ==
  ASSUME BInv, [Next]_vars
  PROVE  BInv'
<1>1. TypeOK /\ SourceKept /\ Placement /\ LoopInv /\ HalvingInv /\ DoneInv
  BY DEF BInv
<1>2. half \in Nat /\ n \in Nat \ {0} /\ pc \in {"walk", "origins", "halving", "done"}
  BY <1>1 DEF TypeOK
<1>3. CASE WalkPast
  <2>1. /\ pc = "walk" /\ pc' = "walk" /\ n' = n + 1 /\ half' = half
        /\ UNCHANGED <<src, ops, sem>> /\ Cur \in DOMAIN ops /\ ~NeedsBatching(ops[Cur])
    BY <1>3 DEF WalkPast
  <2>2. TypeOK' /\ SourceKept' /\ Placement'
    BY <1>1, <1>2, <2>1, IdleInv
  <2>3. Cur \notin Batched(src)
    BY <1>1, <2>1, KeptFacts DEF OpsKept, Batched, NeedsBatching
  <2>4. DoneInv'
    BY <1>1, <2>1, <2>3, DoneMovesOn
  <2>5. QED BY <2>1, <2>2, <2>4 DEF BInv, LoopInv, HalvingInv
<1>4. CASE CollectOrigins
  <2>1. /\ pc = "walk" /\ pc' = "origins" /\ n' = n /\ half' = half
        /\ UNCHANGED <<src, ops, sem>>
    BY <1>4 DEF CollectOrigins
  <2>2. TypeOK' /\ SourceKept' /\ Placement'
    BY <1>1, <1>2, <2>1, IdleInv
  <2>3. DoneInv'
    BY <1>1, <2>1, DoneStays
  <2>4. LoopInv'
    BY <1>1, <1>4, CollectInv
  <2>5. QED BY <2>1, <2>2, <2>3, <2>4 DEF BInv, HalvingInv
<1>5. CASE IgnoreOrigin
  <2>1. /\ pc = "origins" /\ pc' = "origins" /\ n' = n /\ half' = half
        /\ UNCHANGED <<src, ops, sem, uses>>
        /\ origins # << >> /\ origins' = Tail(origins) /\ ~Reducible(Head(origins))
    BY <1>5 DEF IgnoreOrigin
  <2>2. TypeOK' /\ SourceKept' /\ Placement'
    BY <1>1, <1>2, <2>1, IdleInv
  <2>3. DoneInv'
    BY <1>1, <2>1, DoneStays
  <2>4. ~Reduced(Head(origins))
    <3>1. UsesOK
      BY <1>1, <2>1, UsesFacts
    <3> DEFINE o == Head(origins)
    <3> HIDE DEF o
    <3>2. Reducible(o) <=> Reduced(o)
      BY <1>1, <3>1, ReducibleFacts
    <3>3. QED BY <2>1, <3>2 DEF o
  <2>5. LoopInv'
    BY <1>1, <2>1, <2>4, LoopStays
  <2>6. QED BY <2>1, <2>2, <2>3, <2>5 DEF BInv, HalvingInv
<1>6. CASE StartHalving
  <2>1. /\ pc = "origins" /\ pc' = "halving" /\ n' = n
        /\ UNCHANGED <<src, ops, sem, uses, origins>>
    BY <1>6 DEF StartHalving
  <2>2. HalvingInv' /\ half' \in Nat
    BY <1>1, <1>6, StartInv
  <2>3. TypeOK' /\ SourceKept' /\ Placement'
    BY <1>1, <2>1, <2>2, IdleInv
  <2>4. DoneInv'
    BY <1>1, <2>1, DoneStays
  <2>5. LoopInv'
    BY <1>1, <2>1, LoopStays
  <2>6. QED BY <2>2, <2>3, <2>4, <2>5 DEF BInv
<1>7. CASE RotateAndAdd
  <2> DEFINE p == NewPos(1)
             q == NewPos(2)
  <2>1. Round(p, q)
    BY <1>1, <1>7, RoundFacts
  <2> HIDE DEF p, q
  <2>2. TypeOK' /\ SourceKept' /\ Placement' /\ HalvingInv'
    BY <1>1, <2>1, RoundInv
  <2>3. /\ pc = "halving" /\ UNCHANGED <<src, n, pc, uses, origins>>
        /\ \A x \in DOMAIN ops : x \in DOMAIN ops' /\ ops'[x] = ops[x]
    BY <2>1 DEF Round
  <2>4. DoneInv'
    BY <1>1, <2>3, DoneStays
  <2>5. LoopInv'
    BY <1>1, <2>3, LoopStays
  <2>6. QED BY <2>2, <2>4, <2>5 DEF BInv
<1>8. CASE AssignOperands
  <2> DEFINE K == Remaining(Head(origins))
  <2>1. Assigned(K)
    BY <1>1, <1>8, AssignFacts
  <2>2. TypeOK' /\ SourceKept' /\ Placement'
    <3> HIDE DEF K
    <3>1. QED BY <1>1, <2>1, AssignInv
  <2>3. LoopInv'
    BY <1>1, <2>1, <2>2, AssignLoop
  <2> HIDE DEF K
  <2>4. /\ pc' = "origins" /\ src' = src /\ n' = n /\ DOMAIN ops' = DOMAIN ops
        /\ \A x \in DOMAIN ops : x # Cur => ops'[x] = ops[x]
        /\ ops'[Cur] = [ops[Cur] EXCEPT !.args = ops'[Cur].args]
        /\ Cur \in DOMAIN ops /\ NeedsBatching(src.ops[Cur]) /\ Cur \in DOMAIN src.ops
    BY <2>1 DEF Assigned
  <2>5. /\ ops[Cur].kind # "rotate" /\ ops[Cur] \in Op
    BY <1>1, <2>4, KeptFacts DEF OpsKept, NeedsBatching, Arithmetic, TypeOK
  <2>6. ops'[Cur].kind = ops[Cur].kind /\ ops'[Cur].type = ops[Cur].type /\ ops'[Cur].i = ops[Cur].i
    <3> DEFINE o == ops[Cur]
               a == ops'[Cur].args
    <3>1. ops'[Cur] = [o EXCEPT !.args = a] /\ o \in Op
      BY <2>4, <2>5
    <3> HIDE DEF o, a
    <3>2. ops'[Cur].kind = o.kind /\ ops'[Cur].type = o.type /\ ops'[Cur].i = o.i
      BY <3>1 DEF Op
    <3>3. QED BY <3>2 DEF o
  <2>7. DoneInv'
    BY <1>1, <2>4, <2>5, <2>6, DoneStays
  <2>8. QED BY <2>2, <2>3, <2>4, <2>7 DEF BInv, HalvingInv
<1>9. CASE OriginsEnd
  <2>1. /\ pc = "origins" /\ pc' = "walk" /\ n' = n + 1 /\ half' = half /\ origins = << >>
        /\ UNCHANGED <<src, ops, sem>>
    BY <1>9 DEF OriginsEnd
  <2>2. TypeOK' /\ SourceKept' /\ Placement'
    BY <1>1, <1>2, <2>1, IdleInv
  <2>3. ReducibleIn([ops |-> ops], Cur) = {}
    BY <1>1, <2>1, CurReduced
  <2>4. DoneInv'
    BY <1>1, <2>1, <2>3, DoneMovesOn
  <2>5. QED BY <2>1, <2>2, <2>4 DEF BInv, LoopInv, HalvingInv
<1>10. CASE WalkEnds
  <2>1. /\ pc = "walk" /\ pc' = "done" /\ n' = n /\ half' = half /\ Cur \notin DOMAIN ops
        /\ UNCHANGED <<src, ops, sem>>
    BY <1>10 DEF WalkEnds
  <2>2. TypeOK' /\ SourceKept' /\ Placement'
    BY <1>1, <1>2, <2>1, IdleInv
  <2>3. Cur \notin DOMAIN src.ops
    BY <1>1, <2>1 DEF SourceKept
  <2>4. DoneInv'
    BY <1>1, <2>1, <2>3 DEF DoneInv, Cur, Batched, Arithmetic
  <2>5. QED BY <2>1, <2>2, <2>4 DEF BInv, LoopInv, HalvingInv
<1>11. CASE UNCHANGED vars
  <2>1. UNCHANGED <<src, ops, sem, n, pc, uses, origins, prev, half>>
    BY <1>11 DEF vars
  <2>2. TypeOK' /\ SourceKept' /\ Placement'
    BY <1>1, <1>2, <2>1, IdleInv
  <2>3. DoneInv'
    BY <1>1, <2>1 DEF DoneInv, Cur, Batched, Arithmetic
  <2>4. LoopInv'
    <3>1. CASE pc \in {"origins", "halving"}
      BY <1>1, <2>1, <3>1, LoopStays
    <3>2. CASE pc \notin {"origins", "halving"}
      BY <2>1, <3>2 DEF LoopInv
    <3>3. QED BY <3>1, <3>2
  <2>5. HalvingInv'
    <3>1. Reduced(Head(origins))' <=> Reduced(Head(origins))
      BY <2>1 DEF Reduced, CountOf, RotationsOf, From, By, IsPowerOfTwo
    <3>2. QED BY <1>1, <2>1, <3>1 DEF HalvingInv
  <2>6. QED BY <2>2, <2>3, <2>4, <2>5 DEF BInv
<1>12. QED BY <1>3, <1>4, <1>5, <1>6, <1>7, <1>8, <1>9, <1>10, <1>11 DEF Next

(***************************************************************************)
(* Whatever it reduces, internal operand batching leaves a body that the   *)
(* verifier accepts: every operand is defined before its use although      *)
(* rotations and sums are placed in the block while it is walked through.  *)
(***************************************************************************)
THEOREM InternalBatchingTypeCorrect == Spec => []TypeOK
<1>1. Init => BInv
  BY InitInv
<1>2. BInv /\ [Next]_vars => BInv'
  BY NextInv
<1>3. BInv => TypeOK
  BY DEF BInv
<1>4. QED BY <1>1, <1>2, <1>3, PTL DEF Spec

(***************************************************************************)
(* One walk and one pass over an operation's origins are enough: when the  *)
(* pass is done, no operation lists a vector with all of its rotations,    *)
(* although reducing one origin replaces the operands that the others are  *)
(* counted from.  So the pass reduces all there is, if it ends at all.     *)
(***************************************************************************)
THEOREM InternalBatchingReduces == Spec => []ReducedWhenDone /\ (Ends => Reduces)
<1>1. Init => BInv
  BY InitInv
<1>2. BInv /\ [Next]_vars => BInv'
  BY NextInv
<1>3. BInv => ReducedWhenDone
  <2> SUFFICES ASSUME BInv, pc = "done", NEW x \in Batched(src)
               PROVE  ReducibleIn([ops |-> ops], x) = {}
    BY DEF ReducedWhenDone, NothingLeftToReduce
  <2>1. x \in DOMAIN src.ops /\ src \in Source /\ n \in Nat \ {0}
    BY DEF BInv, SourceKept, Batched, TypeOK
  <2>2. x[1] \in Nat
    BY <2>1, SourceFacts
  <2>3. \A k \in 1 .. x[1] : <<k, 0>> \in DOMAIN src.ops
    BY <2>1, BlockAssumption
  <2>4. <<n, 0>> \notin DOMAIN src.ops
    BY DEF BInv, DoneInv, Cur
  <2>5. x[1] < n
    BY <2>1, <2>2, <2>3, <2>4
  <2>6. QED BY <2>5 DEF BInv, DoneInv
<1>4. ReducedWhenDone /\ pc = "done" => pc = "done" /\ NothingLeftToReduce
  BY DEF ReducedWhenDone
<1>5. QED BY <1>1, <1>2, <1>3, <1>4, PTL DEF Spec, Ends, Reduces

-----------------------------------------------------------------------------
(* What the body computes. *)

\* What is reduced in a program that the pass is meant for.
LEMMA FullSum ==
  ASSUME TypeOK, SourceKept, LoopInv, OnlyFullSums(src), pc \in {"origins", "halving"},
         NEW o, Reduced(o)
  PROVE  /\ src.ops[Cur].kind = "add" /\ CountOf(o) = N /\ IsPowerOfTwo(N)
         /\ o \in DOMAIN src.ops /\ o \in DOMAIN ops
<1>1. /\ UsesOK /\ uses \in Seq(Position) /\ Cur \in DOMAIN src.ops /\ uses = src.ops[Cur].args
      /\ NeedsBatching(src.ops[Cur])
  BY UsesFacts DEF LoopInv
<1>2. o \in DOMAIN src.ops
  BY <1>1, ReducedFacts
<1>3. \A y \in DOMAIN src.ops : FromIn(src.ops, y) = From(y) /\ IndexIn(src.ops, y) = By(y)
  <2> TAKE y \in DOMAIN src.ops
  <2>1. src.ops[y].kind = "rotate" => src.ops[y].type = "batched"
    BY SourceFacts DEF SourceKept, WellTyped
  <2>2. QED BY <2>1 DEF FromIn, From, IndexIn, By
<1>4. UsesIn(src.ops, Cur, o) = RotationsOf(o)
  BY <1>1, <1>3 DEF UsesIn, RotationsOf, UsesOK
<1>5. SizeIn(src.ops, Cur, o) = CountOf(o)
  BY <1>4 DEF SizeIn, CountOf
<1>6. {IndexIn(src.ops, src.ops[Cur].args[k]) : k \in UsesIn(src.ops, Cur, o)} = {By(uses[k]) : k \in RotationsOf(o)}
  <2>1. \A k \in RotationsOf(o) : IndexIn(src.ops, src.ops[Cur].args[k]) = By(uses[k])
    BY <1>1, <1>3 DEF RotationsOf, UsesOK
  <2>2. QED BY <1>4, <2>1
<1>7. ReducibleAt(src.ops, Cur, o)
  BY <1>5, <1>6 DEF ReducibleAt, Reduced
<1>8. <<o, CountOf(o)>> \in ReducibleIn(src, Cur)
  BY <1>2, <1>5, <1>7, ReducibleInFacts
<1>9. Cur \in Batched(src)
  BY <1>1 DEF Batched, NeedsBatching
<1>10. src.ops[Cur].kind = "add" /\ <<o, CountOf(o)>>[2] = N
  BY <1>8, <1>9 DEF OnlyFullSums
<1>11. CountOf(o) = N
  BY <1>10
<1>12. QED BY <1>2, <1>10, <1>11 DEF Reduced, SourceKept

LEMMA TermAt ==
  ASSUME NEW w, NEW s, NEW h, NEW t, NEW i \in 1 .. t
  PROVE  Terms(w, s, h, t)[i] = At(w, s, i, h)
BY DEF Terms

LEMMA TermsFacts ==
  ASSUME NEW V, NEW w, \A s \in Slots : w[s] \in V,
         NEW s \in Slots, NEW h \in Int, NEW t \in Nat \ {0}
  PROVE  Terms(w, s, h, t) \in Lists(V, t)
<1>1. ASSUME NEW i \in 1 .. t PROVE At(w, s, i, h) \in V
  <2>1. i - 1 \in Int /\ s \in Int
    BY DEF Slots
  <2>2. (i - 1) * h \in Int
    BY <2>1
  <2>3. s + (i - 1) * h \in Int
    BY <2>1, <2>2
  <2>4. QED BY <2>3, IndexNamesSlot DEF At
<1>2. QED BY <1>1 DEF Terms, Lists

LEMMA StartMeaning ==
  ASSUME TypeOK, SourceKept, LoopInv, OnlyFullSums(src), StartHalving,
         NEW V, Laws(V), Values(V)
  PROVE  Halved'
<1> DEFINE o == Head(origins)
<1>1. /\ pc = "origins" /\ Reducible(o) /\ prev' = o /\ half' = SizeOf(o) \div 2
      /\ sem' = sem /\ origins' = origins
  BY DEF StartHalving
<1> HIDE DEF o
<1>2. UsesOK
  BY <1>1, UsesFacts
<1>3. Reduced(o) /\ SizeOf(o) = CountOf(o)
  BY <1>1, <1>2, ReducibleFacts
<1>4. CountOf(o) = N /\ o \in DOMAIN ops
  BY <1>1, <1>3, FullSum
<1>5. N \in Nat \ {0} /\ 1 \in Nat \ {0} /\ 1 * N = N
  BY NAssumption
<1>6. ASSUME NEW s \in Slots
      PROVE  sem[o][s] = Sum(Terms(sem[o], s, N, 1))
  <2> DEFINE xs == Terms(sem[o], s, N, 1)
  <2>1. xs \in Lists(V, 1) /\ xs[1] = At(sem[o], s, 1, N)
    <3> DEFINE m == 1
               w == sem[o]
    <3>1. m \in Nat \ {0} /\ m \in 1 .. m /\ N \in Int /\ \A r \in Slots : w[r] \in V
      BY <1>4, <1>5 DEF Values
    <3> HIDE DEF m, w
    <3>2. Terms(w, s, N, m) \in Lists(V, m) /\ \A i \in 1 .. m : Terms(w, s, N, m)[i] = At(w, s, i, N)
      BY <3>1, TermsFacts, TermAt
    <3>3. QED BY <3>1, <3>2 DEF m, w
  <2>2. s + (1 - 1) * N = s /\ s % N = s
    BY <1>5, IndexNamesSlot DEF Slots
  <2>3. xs[1] = sem[o][s]
    BY <2>1, <2>2 DEF At
  <2> HIDE DEF xs
  <2>4. Sum(xs) = xs[1]
    BY <1>5, <2>1, LawFacts
  <2>5. QED BY <2>3, <2>4 DEF xs
<1>7. half' = N \div 2
  BY <1>1, <1>3, <1>4
<1>8. \A s \in Slots : sem'[prev'][s] = Sum(Terms(sem'[Head(origins')], s, N, 1))
  BY <1>1, <1>6 DEF o
<1>9. QED BY <1>5, <1>7, <1>8 DEF Halved, SumsUp

\* How far apart the terms are in the two sums and in the sum of both.
LEMMA Distances ==
  ASSUME NEW j \in Int, NEW k \in Int, NEW h \in Int, h = 2 * k
  PROVE  /\ ((2 * j - 1) - 1) * k = (j - 1) * h
         /\ (2 * j - 1) * k = (j - 1) * h + k
         /\ (j - 1) * h \in Int
OBVIOUS

LEMMA AtByTurns ==
  ASSUME NEW w, NEW s \in Slots, NEW j \in Int, NEW k \in Int, NEW h \in Int, h = 2 * k
  PROVE  /\ At(w, s, 2 * j - 1, k) = At(w, s, j, h)
         /\ At(w, s, 2 * j, k) = At(w, (s + k) % N, j, h)
<1>1. /\ ((2 * j - 1) - 1) * k = (j - 1) * h
      /\ (2 * j - 1) * k = (j - 1) * h + k
      /\ (j - 1) * h \in Int
  BY Distances
<1> DEFINE d == (j - 1) * h
<1>2. d \in Int /\ s \in Int
  BY <1>1 DEF Slots
<1> HIDE DEF d
<1>3. (((s + k) % N) + d) % N = ((s + k) + d) % N
  BY <1>2, SlotOfSum
<1>4. (s + k) + d = s + (d + k)
  BY <1>2
<1>5. QED BY <1>1, <1>3, <1>4 DEF At, d

LEMMA RoundSums ==
  ASSUME NEW V, Laws(V), NEW w, \A s \in Slots : w[s] \in V,
         NEW v, NEW t \in Nat \ {0}, NEW h \in Nat \ {0}, SumsUp(v, w, h, t),
         NEW k \in Nat \ {0}, h = 2 * k, NEW m, m = 2 * t, NEW s \in Slots
  PROVE  Sum(<<v[s], v[(s + k) % N]>>) = Sum(Terms(w, s, k, m))
<1> DEFINE r == (s + k) % N
           xs == Terms(w, s, h, t)
           ys == Terms(w, r, h, t)
           zs == Terms(w, s, k, m)
<1> HIDE DEF r, xs, ys, zs
<1>1. r \in Slots
  <2>1. s + k \in Int
    BY DEF Slots
  <2>2. QED BY <2>1, IndexNamesSlot DEF r
<1>2. m \in Nat \ {0} /\ h \in Int /\ k \in Int
  OBVIOUS
<1>3. xs \in Lists(V, t) /\ \A i \in 1 .. t : xs[i] = At(w, s, i, h)
  BY <1>2, TermsFacts, TermAt DEF xs
<1>4. ys \in Lists(V, t) /\ \A i \in 1 .. t : ys[i] = At(w, r, i, h)
  BY <1>1, <1>2, TermsFacts, TermAt DEF ys
<1>5. zs \in Lists(V, m) /\ \A i \in 1 .. m : zs[i] = At(w, s, i, k)
  BY <1>2, TermsFacts, TermAt DEF zs
<1>6. ASSUME NEW j \in 1 .. t PROVE zs[2 * j - 1] = xs[j] /\ zs[2 * j] = ys[j]
  <2>1. 2 * j - 1 \in 1 .. 2 * t /\ 2 * j \in 1 .. 2 * t /\ j \in Int
    OBVIOUS
  <2>2. At(w, s, 2 * j - 1, k) = At(w, s, j, h) /\ At(w, s, 2 * j, k) = At(w, r, j, h)
    BY <1>2, <2>1, AtByTurns DEF r
  <2>3. QED BY <1>3, <1>4, <1>5, <2>1, <2>2
<1>7. Sum(<<Sum(xs), Sum(ys)>>) = Sum(zs)
  <2>1. zs \in Lists(V, 2 * t)
    BY <1>5
  <2>2. QED BY <1>3, <1>4, <1>6, <2>1, SumOfTwoSums
<1>8. v[s] = Sum(xs) /\ v[r] = Sum(ys)
  BY <1>1 DEF SumsUp, xs, ys
<1>9. QED BY <1>7, <1>8 DEF r, zs

(* Operations that stay as they are compute what they did. *)
LEMMA EvalStays ==
  ASSUME TypeOK, Consistent(ops, sem), NEW x \in DOMAIN ops, ops[x].kind # "arg",
         ops'[x] = ops[x], \A y \in DOMAIN ops : sem'[y] = sem[y]
  PROVE  sem'[x] = Eval(ops'[x], sem')
<1> DEFINE o == ops[x]
<1>1. o \in Op /\ WellTyped(ops, o) /\ sem[x] = Eval(o, sem)
      /\ \A k \in DOMAIN o.args : o.args[k] \in DOMAIN ops
  BY DEF TypeOK, DefinedBeforeUse, Consistent
<1> HIDE DEF o
<1>2. o.kind \in Kinds \ {"arg"}
  BY <1>1 DEF Op, o
<1>3. /\ o.kind \in Arithmetic \/ o.kind = "constant" \/ 1 \in DOMAIN o.args
      /\ o.kind \in {"insert", "combine"} => 2 \in DOMAIN o.args
  BY <1>1, <1>2, Arity DEF Kinds
<1>4. \A k \in DOMAIN o.args : sem[o.args[k]] = sem'[o.args[k]]
  BY <1>1
<1>5. Eval(o, sem) = Eval(o, sem')
  BY <1>2, <1>3, <1>4, EvalAgrees
<1>6. QED BY <1>1, <1>5 DEF o

LEMMA RoundMeaning ==
  ASSUME TypeOK, SourceKept, Placement, LoopInv, HalvingInv, OnlyFullSums(src),
         NEW V, Laws(V), Meaning(V), NEW p, NEW q, Round(p, q)
  PROVE  Meaning(V)'
<1> DEFINE o == Head(origins)
           k == half
           w == sem[o]
           v == sem[prev]
<1>1. /\ pc = "halving" /\ k > 0 /\ k \in Nat /\ half' = k \div 2 /\ prev' = q
      /\ UNCHANGED <<src, n, pc, uses, origins>>
      /\ DOMAIN ops' = DOMAIN ops \cup {p, q}
      /\ \A x \in DOMAIN ops : ops'[x] = ops[x] /\ sem'[x] = sem[x]
      /\ ops'[p].kind = "rotate" /\ ops'[p].args = <<prev>> /\ ops'[p].i = -k
      /\ ops'[q].kind = "add" /\ ops'[q].args = <<prev, p>>
      /\ sem'[p] = Eval(ops'[p], sem') /\ sem'[q] = Eval(ops'[q], sem')
  BY DEF Round, TypeOK
<1>2. /\ Consistent(ops, sem) /\ Values(V) /\ \A x \in DOMAIN src.ops : sem[x] = src.sem[x]
  BY DEF Meaning
<1>3. prev \in DOMAIN ops /\ Reduced(o)
  BY <1>1 DEF HalvingInv
<1>4. IsPowerOfTwo(N) /\ o \in DOMAIN ops
  <2> HIDE DEF o
  <2>1. QED BY <1>1, <1>3, FullSum
<1>5. PICK t \in Nat \ {0}, h \in Nat \ {0} :
         t * h = N /\ k = h \div 2 /\ SumsUp(v, w, h, t)
  BY <1>1 DEF Meaning, Halved
<1>6. sem'[prev] = v /\ sem'[o] = w /\ \A s \in Slots : w[s] \in V /\ v[s] \in V
  BY <1>1, <1>2, <1>3, <1>4 DEF Values
<1> HIDE DEF o, w, v, k
<1>7. h = 2 * k /\ k \in Nat \ {0} /\ (2 * t) * k = N /\ 2 * t \in Nat \ {0}
  <2>1. h \div 2 > 0
    BY <1>1, <1>5
  <2>2. /\ h = 2 * (h \div 2) /\ h \div 2 \in Nat \ {0}
        /\ (2 * t) * (h \div 2) = N /\ 2 * t \in Nat \ {0}
    BY <1>4, <1>5, <2>1, DistanceHalves
  <2>3. QED BY <1>5, <2>2
<1>8. ASSUME NEW s \in Slots
      PROVE  /\ sem'[p][s] = v[(s + k) % N] /\ sem'[p][s] \in V
             /\ sem'[q][s] = Sum(<<v[s], v[(s + k) % N]>>)
  <2>1. sem'[p] = Rotate(v, -k)
    <3>1. ops'[p].args[1] = prev
      BY <1>1
    <3>2. Eval(ops'[p], sem') = Rotate(sem'[ops'[p].args[1]], ops'[p].i)
      BY <1>1, EvalByKind
    <3>3. QED BY <1>1, <1>6, <3>1, <3>2
  <2>2. sem'[p][s] = v[(s - (-k)) % N]
    BY <2>1 DEF Rotate
  <2>3. s - (-k) = s + k /\ s + k \in Int
    BY <1>7 DEF Slots
  <2>4. sem'[p][s] = v[(s + k) % N] /\ (s + k) % N \in Slots
    BY <2>2, <2>3, IndexNamesSlot
  <2>5. sem'[q][s] = Sum(<<v[s], v[(s + k) % N]>>)
    <3> DEFINE a == ops'[q].args
               f == [j \in DOMAIN a |-> sem'[a[j]]]
    <3>1. Eval(ops'[q], sem') = Lift("add", f)
      BY <1>1, EvalByKind DEF Arithmetic
    <3>2. DOMAIN a = {1, 2} /\ a[1] = prev /\ a[2] = p
      BY <1>1
    <3> HIDE DEF a
    <3>3. DOMAIN f = {1, 2} /\ f[1] = v /\ f[2] = sem'[p]
      BY <1>6, <3>2
    <3> HIDE DEF f
    <3>4. [j \in DOMAIN f |-> f[j][s]] = <<v[s], v[(s + k) % N]>>
      <4> DEFINE b == v[s]
                 c == v[(s + k) % N]
      <4>1. f[1][s] = b /\ f[2][s] = c
        BY <2>4, <3>3
      <4> HIDE DEF b, c
      <4>2. [j \in DOMAIN f |-> f[j][s]] = <<b, c>>
        BY <3>3, <4>1
      <4>3. QED BY <4>2 DEF b, c
    <3>5. Lift("add", f)[s] = Sum(<<v[s], v[(s + k) % N]>>)
      BY <3>4 DEF Lift, Sum
    <3>6. QED BY <1>1, <3>1, <3>5
  <2>6. QED BY <1>6, <2>4, <2>5
<1>9. ASSUME NEW s \in Slots
      PROVE  sem'[q][s] = Sum(Terms(w, s, k, 2 * t)) /\ sem'[q][s] \in V
  <2> DEFINE m == 2 * t
  <2>1. m \in Nat \ {0} /\ k \in Int /\ m = 2 * t
    BY <1>7
  <2> HIDE DEF m
  <2>2. Sum(<<v[s], v[(s + k) % N]>>) = Sum(Terms(w, s, k, m))
    BY <1>5, <1>6, <1>7, <2>1, RoundSums
  <2>3. Terms(w, s, k, m) \in Lists(V, m)
    BY <1>6, <2>1, TermsFacts
  <2>4. Sum(Terms(w, s, k, m)) \in V
    BY <2>1, <2>3, LawFacts
  <2>5. QED BY <1>8, <2>2, <2>4 DEF m
<1>10. Halved'
  <2>1. SumsUp(sem'[prev'], sem'[Head(origins')], k, 2 * t)
    BY <1>1, <1>6, <1>9 DEF o, SumsUp
  <2>2. half' = k \div 2
    BY <1>1 DEF k
  <2>3. QED BY <1>7, <2>1, <2>2 DEF Halved
<1>11. Values(V)'
  BY <1>1, <1>2, <1>8, <1>9 DEF Values
<1>12. Consistent(ops', sem')
  <2> SUFFICES ASSUME NEW x \in DOMAIN ops', ops'[x].kind # "arg" PROVE sem'[x] = Eval(ops'[x], sem')
    BY DEF Consistent
  <2>1. CASE x \in DOMAIN ops
    BY <1>1, <1>2, <2>1, EvalStays
  <2>2. QED BY <1>1, <2>1
<1>13. \A x \in DOMAIN src.ops : sem'[x] = src.sem[x]
  BY <1>1, <1>2 DEF SourceKept
<1>14. QED BY <1>1, <1>10, <1>11, <1>12, <1>13 DEF Meaning

-----------------------------------------------------------------------------
(* The value of the operation whose operands are replaced. *)

(* Going back from slot 0 step by step meets each slot once.               *)
LEMMA BackFacts ==
  ASSUME NEW i \in 1 .. N
  PROVE  (1 - i) % N \in Slots /\ (1 - i) % N = IF i = 1 THEN 0 ELSE N + 1 - i
<1>1. N \in Nat \ {0} /\ i \in Int /\ 1 - i \in Int
  BY NAssumption
<1>2. (1 - i) % N \in Slots
  BY <1>1, IndexNamesSlot
<1>3. CASE i = 1
  <2>1. 0 \in Slots
    BY <1>1 DEF Slots
  <2>2. 0 % N = 0
    BY <2>1, IndexNamesSlot
  <2>3. QED BY <1>2, <1>3, <2>2
<1>4. CASE i # 1
  <2> DEFINE a == N + 1 - i
  <2>1. a \in Slots /\ a \in Int /\ a - N = 1 - i
    BY <1>1, <1>4 DEF Slots
  <2> HIDE DEF a
  <2>2. (a - N) % N = a % N /\ a % N = a
    BY <2>1, IndexWrapsAround, IndexNamesSlot
  <2>3. QED BY <1>2, <1>4, <2>1, <2>2 DEF a
<1>5. QED BY <1>3, <1>4

LEMMA BackUnique ==
  ASSUME NEW i \in 1 .. N, NEW k \in 1 .. N, (1 - i) % N = (1 - k) % N
  PROVE  i = k
<1>1. N \in Nat \ {0}
  BY NAssumption
<1> DEFINE a == (1 - i) % N
           b == (1 - k) % N
<1>2. a = IF i = 1 THEN 0 ELSE N + 1 - i
  BY BackFacts
<1>3. b = IF k = 1 THEN 0 ELSE N + 1 - k
  BY BackFacts
<1>4. a = b
  OBVIOUS
<1> HIDE DEF a, b
<1>5. QED BY <1>1, <1>2, <1>3, <1>4

LEMMA BackMeets ==
  ASSUME NEW d \in Slots PROVE \E i \in 1 .. N : (1 - i) % N = d
<1>1. N \in Nat \ {0} /\ d \in 0 .. N - 1
  BY NAssumption DEF Slots
<1>2. CASE d = 0
  <2>1. 1 \in 1 .. N
    BY <1>1
  <2>2. (1 - 1) % N = 0
    BY <2>1, BackFacts
  <2>3. QED BY <1>2, <2>1, <2>2
<1>3. CASE d # 0
  <2> DEFINE i == N + 1 - d
  <2>1. i \in 1 .. N /\ i # 1 /\ N + 1 - i = d
    BY <1>1, <1>3
  <2> HIDE DEF i
  <2>2. (1 - i) % N = d
    BY <2>1, BackFacts
  <2>3. QED BY <2>1, <2>2
<1>4. QED BY <1>2, <1>3

(* A rotation of a vector has its values.                                  *)
LEMMA RotationValue ==
  ASSUME TypeOK, SourceKept, Consistent(ops, sem), NEW y \in DOMAIN src.ops,
         By(y) \in Slots, NEW s \in Slots
  PROVE  sem[y][s] = sem[From(y)][(s - By(y)) % N]
<1>1. /\ y \in DOMAIN ops /\ ops[y].kind = src.ops[y].kind /\ ops[y].i = src.ops[y].i
      /\ ~NeedsBatching(src.ops[y]) => ops[y] = src.ops[y]
  BY KeptFacts DEF OpsKept
<1>2. By(y) # Anywhere
  BY NAssumption DEF Slots, Anywhere
<1>3. CASE src.ops[y].kind = "rotate"
  <2>1. By(y) = src.ops[y].i
    BY <1>2, <1>3 DEF By
  <2>2. ops[y] = src.ops[y]
    BY <1>1, <1>3 DEF NeedsBatching, Arithmetic
  <2>3. sem[y] = Rotate(sem[ops[y].args[1]], ops[y].i)
    <3> DEFINE o == ops[y]
    <3>1. sem[y] = Eval(o, sem) /\ o.kind = "rotate"
      BY <1>1, <1>3 DEF Consistent
    <3> HIDE DEF o
    <3>2. Eval(o, sem) = Rotate(sem[o.args[1]], o.i)
      BY <3>1, EvalByKind
    <3>3. QED BY <3>1, <3>2 DEF o
  <2>4. From(y) = ops[y].args[1]
    BY <1>3, <2>2 DEF From
  <2>5. QED BY <2>1, <2>2, <2>3, <2>4 DEF Rotate
<1>4. CASE src.ops[y].kind # "rotate"
  <2>1. By(y) = 0 /\ From(y) = y
    BY <1>2, <1>4 DEF By, From
  <2>2. s - 0 = s /\ s % N = s
    BY IndexNamesSlot DEF Slots
  <2>3. QED BY <2>1, <2>2
<1>5. QED BY <1>3, <1>4

(* The operands that go are the rotations of the vector, one for each slot *)
(* back from slot 0.                                                       *)
AllRotations(e, args, o, K) ==
  /\ Enumerates(e, N, DOMAIN args \ K)
  /\ \A i \in 1 .. N : /\ args[e[i]] \in DOMAIN src.ops
                       /\ From(args[e[i]]) = o /\ By(args[e[i]]) = (1 - i) % N

LEMMA RotationsGo ==
  ASSUME TypeOK, SourceKept, Placement, LoopInv, pc = "halving", origins # << >>,
         NEW o, o = Head(origins), Reduced(o), CountOf(o) = N,
         NEW K, K = Remaining(o), NEW args, args = ops[Cur].args
  PROVE  \E e : AllRotations(e, args, o, K)
<1> DEFINE G == DOMAIN args \ K
           R == RotationsOf(o)
<1>1. /\ UsesOK /\ uses \in Seq(Position)
      /\ \A k \in DOMAIN args : args[k] \in DOMAIN ops
  BY UsesFacts
<1>2. UsesOf(o) = R
  BY <1>1, ReducibleFacts
<1>3. \A p : p \in G <=> p \in DOMAIN args /\ \E m \in R : args[p] = uses[m]
  BY <1>2 DEF Remaining
<1>4. PICK g \in [FromSource -> Kept] :
          /\ \A p, q \in FromSource : g[p] = g[q] => p = q
          /\ \A k \in Kept : \E p \in FromSource : g[p] = k
          /\ \A p \in FromSource : args[p] = uses[g[p]]
  BY DEF LoopInv, OperandsKept
<1>5. \A p : p \in FromSource <=> p \in DOMAIN args /\ args[p] \in DOMAIN src.ops
  BY DEF FromSource
<1>6. \A k : k \in R <=> k \in DOMAIN uses /\ From(uses[k]) = o
  BY DEF RotationsOf
<1>7. \A k \in R : k \in Kept
  <2>1. origins \in Seq(Position)
    BY DEF LoopInv
  <2>2. 1 \in DOMAIN origins /\ origins[1] = o
    BY <2>1, TailFacts
  <2>3. QED BY <1>6, <2>2 DEF Kept
<1>8. \A k \in Kept : k \in DOMAIN uses
  BY DEF Kept
<1>9. /\ Cardinality(R) = N /\ {By(uses[k]) : k \in R} = Slots
  BY DEF Reduced, CountOf, Slots
<1>10. IsFiniteSet(R)
  <2>1. R \in SUBSET (1 .. Len(uses)) /\ Len(uses) \in Nat
    BY <1>1, <1>6
  <2> HIDE DEF R
  <2>2. QED BY <2>1, IndicesFinite
<1> HIDE DEF G, R
<1>11. \A k, m \in R : By(uses[k]) = By(uses[m]) => k = m
  <2> DEFINE b == [k \in R |-> By(uses[k])]
  <2>1. b \in Surjection(R, Slots)
    <3>1. b \in [R -> Slots]
      BY <1>9
    <3>2. \A d \in Slots : \E k \in R : b[k] = d
      BY <1>9
    <3>3. QED BY <3>1, <3>2 DEF Surjection
  <2>2. IsFiniteSet(Slots) /\ Cardinality(Slots) = N
    <3>1. 0 \in Int /\ N - 1 \in Int /\ 0 <= N - 1 /\ (N - 1) - 0 + 1 = N
      BY NAssumption
    <3>2. IsFiniteSet(0 .. N - 1) /\ Cardinality(0 .. N - 1) = (N - 1) - 0 + 1
      BY <3>1, FS_Interval
    <3>3. QED BY <3>1, <3>2 DEF Slots
  <2> HIDE DEF b
  <2>3. b \in Injection(R, Slots)
    BY <1>9, <1>10, <2>1, <2>2, FS_Surjection
  <2>4. \A k, m \in R : b[k] = b[m] => k = m
    BY <2>3 DEF Injection, IsInjective
  <2>5. QED BY <2>4 DEF b
<1>12. ASSUME NEW p \in G
       PROVE  p \in FromSource /\ g[p] \in R /\ args[p] = uses[g[p]] /\ args[p] \in DOMAIN src.ops
  <2>1. PICK m \in R : args[p] = uses[m]
    BY <1>3
  <2>2. uses[m] \in DOMAIN src.ops /\ From(uses[m]) = o
    BY <1>1, <1>6 DEF UsesOK
  <2>3. p \in FromSource
    BY <1>3, <1>5, <2>1, <2>2
  <2>4. g[p] \in Kept /\ args[p] = uses[g[p]]
    BY <1>4, <2>3
  <2>5. g[p] \in R
    BY <1>6, <1>8, <2>1, <2>2, <2>4
  <2>6. QED BY <2>1, <2>2, <2>3, <2>4, <2>5
<1>13. ASSUME NEW d \in Slots PROVE \E p \in G : By(args[p]) = d
  <2>1. PICK k \in R : By(uses[k]) = d
    BY <1>9
  <2>2. PICK p \in FromSource : g[p] = k
    BY <1>4, <1>7
  <2>3. args[p] = uses[k] /\ p \in DOMAIN args
    BY <1>4, <1>5, <2>2
  <2>4. p \in G
    BY <1>3, <2>3
  <2>5. QED BY <2>1, <2>3, <2>4
<1>14. ASSUME NEW p \in G, NEW q \in G, By(args[p]) = By(args[q]) PROVE p = q
  <2>1. g[p] = g[q]
    BY <1>11, <1>12, <1>14
  <2>2. QED BY <1>4, <1>12, <2>1
<1>15. \A p \in G : By(args[p]) \in Slots /\ From(args[p]) = o
  BY <1>6, <1>9, <1>12
<1> DEFINE e == [i \in 1 .. N |-> CHOOSE p \in G : By(args[p]) = (1 - i) % N]
<1>16. ASSUME NEW i \in 1 .. N PROVE e[i] \in G /\ By(args[e[i]]) = (1 - i) % N
  <2>1. (1 - i) % N \in Slots
    BY BackFacts
  <2>2. \E p \in G : By(args[p]) = (1 - i) % N
    BY <1>13, <2>1
  <2>3. e[i] = CHOOSE p \in G : By(args[p]) = (1 - i) % N
    OBVIOUS
  <2> HIDE DEF e
  <2>4. QED BY <2>2, <2>3
<1>17. e \in [1 .. N -> G]
  BY <1>16
<1> HIDE DEF e
<1>18. ASSUME NEW i \in 1 .. N, NEW k \in 1 .. N, e[i] = e[k] PROVE i = k
  <2>1. (1 - i) % N = (1 - k) % N
    BY <1>16, <1>18
  <2>2. QED BY <2>1, BackUnique
<1>19. ASSUME NEW p \in G PROVE \E i \in 1 .. N : e[i] = p
  <2> DEFINE d == By(args[p])
  <2>1. d \in Slots
    BY <1>15
  <2> HIDE DEF d
  <2>2. PICK i \in 1 .. N : (1 - i) % N = d
    BY <2>1, BackMeets
  <2>3. e[i] \in G /\ By(args[e[i]]) = By(args[p])
    BY <1>16, <2>2 DEF d
  <2>4. QED BY <1>14, <2>3
<1>20. \A i \in 1 .. N : /\ args[e[i]] \in DOMAIN src.ops
                         /\ From(args[e[i]]) = o /\ By(args[e[i]]) = (1 - i) % N
  BY <1>12, <1>15, <1>16
<1>21. Enumerates(e, N, G)
  BY <1>17, <1>18, <1>19 DEF Enumerates
<1>22. QED BY <1>20, <1>21 DEF G, AllRotations

\* In one slot, what remains and the sum of what goes add up to what did.
LEMMA SlotStays ==
  ASSUME NEW V, Laws(V), NEW a \in Nat, NEW xs \in Lists(V, a), NEW K \in SUBSET (1 .. a),
         NEW w, \A r \in Slots : w[r] \in V, NEW v, SumsUp(v, w, 1, N), NEW s \in Slots,
         NEW e, Enumerates(e, N, (1 .. a) \ K),
         \A i \in 1 .. N : xs[e[i]] = w[(s - ((1 - i) % N)) % N]
  PROVE  Sum(Append(Picked(xs, K), v[s])) = Sum(xs)
<1>1. N \in Nat \ {0} /\ 1 \in Int /\ s \in Int
  BY NAssumption DEF Slots
<1> DEFINE ts == [i \in 1 .. N |-> xs[e[i]]]
<1>2. ASSUME NEW i \in 1 .. N PROVE At(w, s, i, 1) = xs[e[i]]
  <2>1. (1 - i) \in Int /\ s - (1 - i) = s + (i - 1) * 1
    BY <1>1
  <2>2. (s - ((1 - i) % N)) % N = (s - (1 - i)) % N
    BY <1>1, <2>1, SlotOfDifference
  <2>3. QED BY <2>1, <2>2 DEF At
<1>3. Terms(w, s, 1, N) = ts
  BY <1>2 DEF Terms
<1> HIDE DEF ts
<1>4. v[s] = Sum(ts)
  BY <1>3 DEF SumsUp
<1>5. ts \in Lists(V, N) /\ \A i \in 1 .. N : ts[i] = xs[e[i]]
  BY <1>1, <1>2, <1>3, TermsFacts, TermAt
<1>6. Sum(Append(Picked(xs, K), Sum(ts))) = Sum(xs)
  BY <1>1, <1>5, TermsReplaced
<1>7. QED BY <1>4, <1>6

\* The values of a list of operations in one slot, when one comes after those picked.
Column(l, f, s) == [k \in DOMAIN l |-> f[l[k]][s]]

LEMMA ColumnFacts ==
  ASSUME NEW args, NEW K, NEW c, c = Cardinality(K), c \in Nat, NEW y, NEW new, NEW f, NEW s,
         DOMAIN new = 1 .. c + 1, \A m \in 1 .. c : Nth(K, m) \in K /\ new[m] = args[Nth(K, m)],
         new[c + 1] = y, K \in SUBSET DOMAIN args,
         NEW xs, xs = Column(args, f, s)
  PROVE  Column(new, f, s) = Append(Picked(xs, K), f[y][s])
<1> DEFINE zs == Column(new, f, s)
           ps == Picked(xs, K)
           b  == f[y][s]
<1>1. ps = [m \in 1 .. c |-> xs[Nth(K, m)]]
  BY DEF Picked
<1>2. \A m \in 1 .. c : zs[m] = ps[m]
  <2> TAKE m \in 1 .. c
  <2>1. m \in DOMAIN new /\ Nth(K, m) \in DOMAIN args
    OBVIOUS
  <2>2. zs[m] = f[args[Nth(K, m)]][s] /\ ps[m] = xs[Nth(K, m)]
    BY <1>1, <2>1 DEF Column
  <2>3. xs[Nth(K, m)] = f[args[Nth(K, m)]][s]
    BY <2>1 DEF Column
  <2>4. QED BY <2>2, <2>3
<1>3. DOMAIN zs = 1 .. c + 1 /\ zs[c + 1] = b /\ zs = [m \in 1 .. c + 1 |-> zs[m]]
  BY DEF Column
<1>4. DOMAIN ps = 1 .. c /\ ps = [m \in 1 .. c |-> ps[m]]
  BY <1>1
<1> HIDE DEF zs, ps, b
<1>5. Len(ps) = c /\ Append(ps, b) = [m \in 1 .. c + 1 |-> IF m = c + 1 THEN b ELSE ps[m]]
  BY <1>4
<1>6. \A m \in 1 .. c + 1 : zs[m] = IF m = c + 1 THEN b ELSE ps[m]
  <2> TAKE m \in 1 .. c + 1
  <2>1. m = c + 1 \/ m \in 1 .. c
    OBVIOUS
  <2>2. QED BY <1>2, <1>3, <2>1
<1>7. zs = Append(ps, b)
  BY <1>3, <1>5, <1>6
<1>8. QED BY <1>7 DEF zs, ps, b

(* Replacing the operands does not change what the operation computes.     *)
LEMMA ValueStays ==
  ASSUME TypeOK, SourceKept, Placement, LoopInv, HalvingInv, OnlyFullSums(src),
         NEW V, Laws(V), Meaning(V), NEW K, K = Remaining(Head(origins)), Assigned(K)
  PROVE  Eval(ops'[Cur], sem) = Eval(ops[Cur], sem) /\ ops[Cur].kind = "add"
<1> DEFINE o == Head(origins)
           w == sem[o]
           v == sem[prev]
           args == ops[Cur].args
           new == ops'[Cur].args
           c == Cardinality(K)
<1>1. /\ pc = "halving" /\ half = 0 /\ origins # << >> /\ Cur \in DOMAIN src.ops
      /\ prev \in DOMAIN ops /\ K \in SUBSET DOMAIN args /\ c \in Nat
      /\ args \in Seq(Position) /\ ops'[Cur].kind = ops[Cur].kind
      /\ DOMAIN new = 1 .. c + 1 /\ new[c + 1] = prev
      /\ \A m \in 1 .. c : Nth(K, m) \in K /\ new[m] = args[Nth(K, m)]
  BY DEF Assigned
<1>2. Consistent(ops, sem) /\ Values(V) /\ Halved
  BY DEF Meaning
<1>3. /\ Reduced(o) /\ CountOf(o) = N /\ src.ops[Cur].kind = "add" /\ o \in DOMAIN ops
  <2>1. Reduced(o)
    BY <1>1 DEF HalvingInv
  <2> HIDE DEF o
  <2>2. QED BY <1>1, <2>1, FullSum
<1>4. ops[Cur].kind = "add" /\ ops'[Cur].kind = "add"
  BY <1>1, <1>3, KeptFacts DEF OpsKept
<1>5. SumsUp(v, w, 1, N)
  <2>1. PICK t \in Nat \ {0}, h \in Nat \ {0} :
           t * h = N /\ half = h \div 2 /\ SumsUp(v, w, h, t)
    BY <1>1, <1>2 DEF Halved
  <2>2. h = 1
    BY <1>1, <2>1
  <2>3. t = N
    BY <2>1, <2>2
  <2> HIDE DEF v, w
  <2>4. QED BY <2>1, <2>2, <2>3
<1>6. \A k \in DOMAIN args : args[k] \in DOMAIN ops
  BY <1>1, UsesFacts
<1>7. \A x \in DOMAIN ops : \A s \in Slots : sem[x][s] \in V
  BY <1>2 DEF Values
<1>8. PICK e : AllRotations(e, args, o, K)
  <2>1. o = Head(origins) /\ args = ops[Cur].args /\ K = Remaining(o)
    OBVIOUS
  <2> HIDE DEF o, args
  <2>2. QED BY <1>1, <1>3, <2>1, RotationsGo
<1> HIDE DEF o, args, new, c
<1>9. ASSUME NEW s \in Slots
      PROVE  Sum(Column(new, sem, s)) = Sum(Column(args, sem, s))
  <2> DEFINE xs == Column(args, sem, s)
             a == Len(args)
  <2>1. a \in Nat /\ DOMAIN args = 1 .. a
    BY <1>1
  <2>2. xs \in Lists(V, a)
    BY <1>6, <1>7, <2>1 DEF Lists, Column
  <2>3. ASSUME NEW i \in 1 .. N PROVE xs[e[i]] = w[(s - ((1 - i) % N)) % N]
    <3> DEFINE y == args[e[i]]
    <3>1. e[i] \in DOMAIN args
      BY <1>8 DEF AllRotations, Enumerates
    <3>2. xs[e[i]] = sem[y][s]
      BY <3>1 DEF Column
    <3>3. y \in DOMAIN src.ops /\ From(y) = o /\ By(y) = (1 - i) % N /\ By(y) \in Slots
      BY <1>8, BackFacts DEF AllRotations
    <3> HIDE DEF y
    <3>4. sem[y][s] = sem[From(y)][(s - By(y)) % N]
      BY <1>2, <3>3, RotationValue
    <3>5. QED BY <3>2, <3>3, <3>4
  <2>4. \A r \in Slots : w[r] \in V
    BY <1>3, <1>7
  <2>5. Column(new, sem, s) = Append(Picked(xs, K), sem[prev][s])
    <3> HIDE DEF xs
    <3>1. xs = Column(args, sem, s) /\ c = Cardinality(K)
      BY DEF xs, c
    <3>2. QED BY <1>1, <3>1, ColumnFacts
  <2> HIDE DEF xs, a, v, w
  <2>6. Sum(Append(Picked(xs, K), v[s])) = Sum(xs)
    <3>1. K \in SUBSET (1 .. a) /\ Enumerates(e, N, (1 .. a) \ K)
      BY <1>1, <1>8, <2>1 DEF AllRotations
    <3>2. QED BY <1>5, <2>1, <2>2, <2>3, <2>4, <3>1, SlotStays
  <2>7. QED BY <2>5, <2>6 DEF xs, v
<1> DEFINE f == [k \in DOMAIN args |-> sem[args[k]]]
           g == [m \in DOMAIN new |-> sem[new[m]]]
<1>10. Eval(ops[Cur], sem) = Lift("add", f) /\ Eval(ops'[Cur], sem) = Lift("add", g)
  BY <1>4, EvalByKind DEF args, new, Arithmetic
<1>11. ASSUME NEW s \in Slots
       PROVE  Apply("add", [m \in DOMAIN g |-> g[m][s]]) = Apply("add", [k \in DOMAIN f |-> f[k][s]])
  <2>1. [m \in DOMAIN g |-> g[m][s]] = Column(new, sem, s)
    BY DEF Column
  <2>2. [k \in DOMAIN f |-> f[k][s]] = Column(args, sem, s)
    BY DEF Column
  <2>3. QED BY <1>9, <2>1, <2>2 DEF Sum
<1> HIDE DEF f, g
<1>12. Lift("add", g) = Lift("add", f)
  BY <1>11 DEF Lift
<1>13. QED BY <1>4, <1>10, <1>12

LEMMA AssignMeaning ==
  ASSUME TypeOK, SourceKept, Placement, LoopInv, HalvingInv, OnlyFullSums(src),
         NEW V, Laws(V), Meaning(V), NEW K, K = Remaining(Head(origins)), Assigned(K)
  PROVE  Meaning(V)'
<1>1. /\ pc' = "origins" /\ src' = src /\ sem' = sem /\ n' = n
      /\ DOMAIN ops' = DOMAIN ops /\ Cur \in DOMAIN ops
      /\ \A x \in DOMAIN ops : x # Cur => ops'[x] = ops[x]
  BY DEF Assigned
<1>2. /\ Consistent(ops, sem) /\ Values(V) /\ \A x \in DOMAIN src.ops : sem[x] = src.sem[x]
  BY DEF Meaning
<1>3. Eval(ops'[Cur], sem) = Eval(ops[Cur], sem) /\ ops[Cur].kind = "add"
  BY ValueStays
<1>4. Consistent(ops', sem')
  <2> SUFFICES ASSUME NEW x \in DOMAIN ops', ops'[x].kind # "arg" PROVE sem'[x] = Eval(ops'[x], sem')
    BY DEF Consistent
  <2>1. CASE x = Cur
    <3>1. sem[Cur] = Eval(ops[Cur], sem)
      BY <1>1, <1>2, <1>3 DEF Consistent
    <3>2. QED BY <1>1, <1>3, <2>1, <3>1
  <2>2. CASE x # Cur
    BY <1>1, <1>2, <2>2, EvalStays
  <2>3. QED BY <2>1, <2>2
<1>5. QED BY <1>1, <1>2, <1>4 DEF Meaning, Values, Halved

-----------------------------------------------------------------------------
(* What the body computes never changes. *)
LEMMA InitMeaning ==
  ASSUME Init, NEW V, Scalars \subseteq V
  PROVE  Meaning(V)
<1>1. src \in Source /\ ops = src.ops /\ sem = src.sem /\ pc = "walk"
  BY DEF Init
<1>2. IsProgram(src)
  BY <1>1, SourceAssumption
<1>3. Consistent(ops, sem) /\ DOMAIN sem = DOMAIN ops
  BY <1>1, <1>2 DEF IsProgram
<1>4. Values(V)
  <2> SUFFICES ASSUME NEW x \in DOMAIN ops, NEW s \in Slots PROVE sem[x][s] \in V
    BY DEF Values
  <2>1. sem[x][s] \in {src.sem[y][r] : y \in DOMAIN src.sem, r \in Slots}
    BY <1>1, <1>3
  <2>2. QED BY <1>1, <2>1 DEF Scalars
<1>5. QED BY <1>1, <1>3, <1>4 DEF Meaning, Halved

LEMMA NextMeaning ==
  ASSUME BInv, [Next]_vars, NEW V, Laws(V), Meaning(V)
  PROVE  Meaning(V)'
<1>1. TypeOK /\ SourceKept /\ Placement /\ LoopInv /\ HalvingInv
  BY DEF BInv
<1> SUFFICES ASSUME OnlyFullSums(src) PROVE Meaning(V)'
  <2>1. src' = src
    <3>1. CASE RotateAndAdd
      BY <3>1 DEF RotateAndAdd
    <3>2. CASE ~RotateAndAdd
      BY <3>2 DEF Next, vars, WalkPast, CollectOrigins, IgnoreOrigin, StartHalving,
                  AssignOperands, OriginsEnd, WalkEnds
    <3>3. QED BY <3>1, <3>2
  <2>2. ~OnlyFullSums(src) => Meaning(V)'
    <3>1. OnlyFullSums(src') <=> OnlyFullSums(src)
      BY <2>1
    <3>2. QED BY <3>1 DEF Meaning
  <2>3. QED BY <2>2
<1>2. /\ Consistent(ops, sem) /\ Values(V) /\ \A x \in DOMAIN src.ops : sem[x] = src.sem[x]
      /\ Halved
  BY DEF Meaning
<1>3. CASE StartHalving
  <2>1. Halved'
    BY <1>1, <1>2, <1>3, StartMeaning
  <2>2. UNCHANGED <<src, ops, sem>>
    BY <1>3 DEF StartHalving
  <2>3. QED BY <1>2, <2>1, <2>2 DEF Meaning, Values
<1>4. CASE RotateAndAdd
  <2> DEFINE p == NewPos(1)
             q == NewPos(2)
  <2>1. Round(p, q)
    BY <1>1, <1>4, RoundFacts
  <2> HIDE DEF p, q
  <2>2. QED BY <1>1, <2>1, RoundMeaning
<1>5. CASE AssignOperands
  <2> DEFINE K == Remaining(Head(origins))
  <2>1. Assigned(K)
    BY <1>1, <1>5, AssignFacts
  <2>2. K = Remaining(Head(origins))
    OBVIOUS
  <2> HIDE DEF K
  <2>3. QED BY <1>1, <2>1, <2>2, AssignMeaning
<1>6. CASE WalkPast \/ CollectOrigins \/ IgnoreOrigin \/ OriginsEnd \/ WalkEnds
  <2>1. UNCHANGED <<src, ops, sem>> /\ pc' # "halving"
    BY <1>6 DEF WalkPast, CollectOrigins, IgnoreOrigin, OriginsEnd, WalkEnds
  <2>2. QED BY <1>2, <2>1 DEF Meaning, Values, Halved
<1>7. CASE UNCHANGED vars
  <2>1. UNCHANGED <<src, ops, sem, pc, origins, prev, half>>
    BY <1>7 DEF vars
  <2>2. Halved'
    BY <1>2, <2>1 DEF Halved, SumsUp, Terms, At
  <2>3. QED BY <1>2, <2>1, <2>2 DEF Meaning, Values
<1>8. QED BY <1>3, <1>4, <1>5, <1>6, <1>7 DEF Next

(* So the function returns what it did.                                    *)
LEMMA MeaningSuffices ==
  ASSUME BInv, NEW V, Meaning(V)
  PROVE  MeaningPreserved
<1> SUFFICES ASSUME OnlyFullSums(src) PROVE ReturnsSame
  BY DEF MeaningPreserved
<1>1. Consistent(ops, sem) /\ \A x \in DOMAIN src.ops : sem[x] = src.sem[x]
  BY DEF Meaning
<1>2. SourceKept /\ Placement
  BY DEF BInv
<1>3. \A x \in DOMAIN ops : x \notin DOMAIN src.ops => ops[x].kind \in {"add", "rotate"}
  <2> SUFFICES ASSUME NEW x \in DOMAIN ops, x \notin DOMAIN src.ops
               PROVE  ops[x].kind \in {"add", "rotate"}
    OBVIOUS
  <2>1. x \in Position /\ x[2] # 0 /\ (x[2] > 0 => ops[x].kind \in {"add", "rotate"})
    BY <1>2 DEF Placement
  <2>2. x[2] > 0
    BY <2>1 DEF Position
  <2>3. QED BY <2>1, <2>2
<1>4. \A x \in DOMAIN src.ops : x \in DOMAIN ops /\ ops[x].kind = src.ops[x].kind
  BY <1>2, KeptFacts DEF OpsKept
<1>5. ReturnsOf(ops) = ReturnsOf(src.ops)
  BY <1>3, <1>4 DEF ReturnsOf
<1>6. ASSUME NEW x \in ReturnsOf(src.ops)
      PROVE  sem[ops[x].args[1]] = src.sem[src.ops[x].args[1]]
  <2>1. x \in DOMAIN src.ops /\ src.ops[x].kind = "return"
    BY DEF ReturnsOf
  <2>2. ops[x] = src.ops[x]
    BY <1>2, <2>1, KeptFacts DEF OpsKept, NeedsBatching, Arithmetic
  <2>3. src.ops[x] \in Op /\ WellTyped(src.ops, src.ops[x])
    BY <1>2, <2>1, SourceFacts DEF SourceKept
  <2>4. 1 \in DOMAIN src.ops[x].args
    BY <2>1, <2>3, Arity
  <2>5. src.ops[x].args[1] \in DOMAIN src.ops
    BY <1>2, <2>1, <2>4, SourceFacts DEF SourceKept
  <2>6. QED BY <1>1, <2>2, <2>5
<1>7. ValuesReturned(ops, sem) = ValuesReturned(src.ops, src.sem)
  BY <1>5, <1>6 DEF ValuesReturned
<1>8. QED BY <1>1, <1>7 DEF ReturnsSame

(***************************************************************************)
(* In a program in which all that is reduced are sums of a vector over all *)
(* of its slots, rotating by halves and adding computes the same sums, if  *)
(* addition is such that its operands may be rearranged and nested.        *)
(***************************************************************************)
THEOREM InternalBatchingPreservesMeaning == SumLaws => (Spec => []MeaningPreserved)
<1> SUFFICES ASSUME SumLaws PROVE Spec => []MeaningPreserved
  OBVIOUS
<1>1. PICK V : Scalars \subseteq V /\ Laws(V)
  BY DEF SumLaws, Laws
<1>2. Init => BInv /\ Meaning(V)
  BY <1>1, InitInv, InitMeaning
<1>3. BInv /\ Meaning(V) /\ [Next]_vars => (BInv /\ Meaning(V))'
  BY <1>1, NextInv, NextMeaning
<1>4. BInv /\ Meaning(V) => MeaningPreserved
  BY MeaningSuffices
<1>5. QED BY <1>2, <1>3, <1>4, PTL DEF Spec
=============================================================================
