-------------------------- MODULE StructureLemmas --------------------------
(***************************************************************************)
(* What the library has no theorems about: subsequences at given indices   *)
(* (it can prove nothing about SelectSeq, which is recursive), and forests *)
(* of nodes that own nodes.                                                *)
(***************************************************************************)
EXTENDS Subsequences, FiniteSetTheorems, SequenceTheorems, TLAPS

(* Any set of indices is finite. *)
LEMMA IndicesFinite ==
  ASSUME NEW n \in Nat, NEW K \in SUBSET (1 .. n)
  PROVE  /\ IsFiniteSet(K) /\ Cardinality(K) \in Nat /\ Cardinality(K) <= n
         /\ Cardinality(K) = n => K = 1 .. n
         /\ Cardinality(K) = 0 <=> K = {}
<1>1. IsFiniteSet(1 .. n) /\ Cardinality(1 .. n) = n
  BY FS_Interval
<1>2. IsFiniteSet(K) /\ Cardinality(K) <= n /\ (Cardinality(K) = n => K = 1 .. n)
  BY <1>1, FS_Subset
<1>3. QED BY <1>2, FS_CardinalityType, FS_EmptySet

(* Later indices have greater ranks. *)
LEMMA RankIncreases ==
  ASSUME NEW n \in Nat, NEW K \in SUBSET (1 .. n), NEW k \in K, NEW l \in K
  PROVE  /\ Rank(K, k) \in 1 .. Cardinality(K)
         /\ k < l => Rank(K, k) < Rank(K, l)
<1> DEFINE A == {x \in K : x <= k}
           B == {x \in K : x <= l}
<1>1. IsFiniteSet(K) /\ Cardinality(K) \in Nat
  BY IndicesFinite
<1>2. A \in SUBSET K /\ B \in SUBSET K /\ k \in A
  OBVIOUS
<1>3. /\ IsFiniteSet(A) /\ Cardinality(A) <= Cardinality(K) /\ Cardinality(A) \in Nat
      /\ IsFiniteSet(B) /\ Cardinality(B) \in Nat
  BY <1>1, <1>2, FS_Subset, FS_CardinalityType
<1>4. Cardinality(A) # 0
  BY <1>2, <1>3, FS_EmptySet
<1>5. ASSUME k < l PROVE Cardinality(A) < Cardinality(B)
  <2>1. A \in SUBSET B /\ l \in B /\ l \notin A
    <3>1. k \in Int /\ l \in Int /\ \A x \in K : x \in Int
      OBVIOUS
    <3>2. \A x \in K : x <= k => x <= l
      BY <1>5, <3>1
    <3>3. l <= l /\ ~(l <= k)
      BY <1>5, <3>1
    <3>4. QED BY <3>2, <3>3
  <2>2. Cardinality(A) <= Cardinality(B) /\ Cardinality(A) # Cardinality(B)
    BY <1>3, <2>1, FS_Subset
  <2>3. QED BY <1>3, <2>2
<1>6. QED BY <1>1, <1>3, <1>4, <1>5 DEF Rank

(* Each number up to the size of the set is the rank of one index. *)
LEMMA NthFacts ==
  ASSUME NEW n \in Nat, NEW K \in SUBSET (1 .. n), NEW m \in 1 .. Cardinality(K)
  PROVE  Nth(K, m) \in K /\ Rank(K, Nth(K, m)) = m
<1> DEFINE M == 1 .. Cardinality(K)
           f == [k \in K |-> Rank(K, k)]
<1>1. IsFiniteSet(K) /\ Cardinality(K) \in Nat
  BY IndicesFinite
<1>2. SUFFICES ASSUME ~ \E k \in K : Rank(K, k) = m PROVE FALSE
  BY DEF Nth
<1>3. f \in [K -> M \ {m}]
  BY <1>2, RankIncreases
<1>4. IsFiniteSet(M \ {m}) /\ Cardinality(M \ {m}) = Cardinality(K) - 1
  <2>1. IsFiniteSet(M) /\ Cardinality(M) = Cardinality(K)
    BY <1>1, FS_Interval
  <2>2. m \in M
    OBVIOUS
  <2> HIDE DEF M
  <2>3. QED BY <2>1, <2>2, FS_RemoveElement
<1>5. PICK k \in K, l \in K : k # l /\ f[k] = f[l]
  <2> HIDE DEF f, M
  <2>1. Cardinality(M \ {m}) < Cardinality(K)
    BY <1>1, <1>4
  <2>2. QED BY <1>1, <1>3, <1>4, <2>1, FS_PigeonHole
<1>6. Rank(K, k) = Rank(K, l) /\ Rank(K, k) \in Nat /\ Rank(K, l) \in Nat
  <2>1. Rank(K, k) \in 1 .. Cardinality(K) /\ Rank(K, l) \in 1 .. Cardinality(K)
    BY RankIncreases
  <2>2. QED BY <1>1, <1>5, <2>1
<1>7. k < l \/ l < k
  <2>1. k \in Int /\ l \in Int
    OBVIOUS
  <2>2. QED BY <1>5, <2>1
<1>8. QED BY <1>6, <1>7, RankIncreases

(* Each index is the one of its rank, and indices keep their order. *)
LEMMA RankOfNth ==
  ASSUME NEW n \in Nat, NEW K \in SUBSET (1 .. n), NEW k \in K
  PROVE  /\ Rank(K, k) \in 1 .. Cardinality(K)
         /\ Nth(K, Rank(K, k)) = k
<1> DEFINE l == Nth(K, Rank(K, k))
<1>1. Rank(K, k) \in 1 .. Cardinality(K)
  BY RankIncreases
<1>2. l \in K /\ Rank(K, l) = Rank(K, k)
  BY <1>1, NthFacts
<1>3. k < l \/ l < k \/ k = l
  <2>1. k \in Int /\ l \in Int
    <3>1. k \in 1 .. n /\ l \in 1 .. n
      BY <1>2
    <3>2. QED BY <3>1
  <2>2. QED BY <2>1
<1>4. Rank(K, k) \in Nat
  BY <1>1, IndicesFinite
<1>5. ~(k < l) /\ ~(l < k)
  <2>1. k < l => Rank(K, k) < Rank(K, l)
    BY <1>2, RankIncreases
  <2>2. l < k => Rank(K, l) < Rank(K, k)
    BY <1>2, RankIncreases
  <2>3. QED BY <1>2, <1>4, <2>1, <2>2
<1>6. QED BY <1>1, <1>3, <1>5

(* What is picked from a sequence is a sequence of entries of it: all that *)
(* are at the indices, and none that is not.                               *)
LEMMA PickedFacts ==
  ASSUME NEW S, NEW s \in Seq(S), NEW K \in SUBSET DOMAIN s
  PROVE  /\ Picked(s, K) \in Seq(S)
         /\ Len(Picked(s, K)) = Cardinality(K) /\ Cardinality(K) \in Nat
         /\ Cardinality(K) <= Len(s)
         /\ DOMAIN Picked(s, K) = 1 .. Cardinality(K)
         /\ \A m \in DOMAIN Picked(s, K) :
              Nth(K, m) \in K /\ Picked(s, K)[m] = s[Nth(K, m)]
         /\ \A k \in K : \E m \in DOMAIN Picked(s, K) : Picked(s, K)[m] = s[k]
<1>1. Len(s) \in Nat /\ DOMAIN s = 1 .. Len(s)
  OBVIOUS
<1>2. K \in SUBSET (1 .. Len(s))
  BY <1>1
<1>3. Cardinality(K) \in Nat /\ Cardinality(K) <= Len(s)
  BY <1>1, <1>2, IndicesFinite
<1>4. \A m \in 1 .. Cardinality(K) : Nth(K, m) \in K /\ Picked(s, K)[m] = s[Nth(K, m)]
  BY <1>1, <1>2, NthFacts DEF Picked
<1>5. Picked(s, K) \in [1 .. Cardinality(K) -> S]
  BY <1>1, <1>2, <1>4 DEF Picked
<1>6. /\ Picked(s, K) \in Seq(S) /\ Len(Picked(s, K)) = Cardinality(K)
      /\ DOMAIN Picked(s, K) = 1 .. Cardinality(K)
  BY <1>3, <1>5
<1>7. \A k \in K : \E m \in DOMAIN Picked(s, K) : Picked(s, K)[m] = s[k]
  <2>1. ASSUME NEW k \in K
        PROVE  Rank(K, k) \in DOMAIN Picked(s, K) /\ Picked(s, K)[Rank(K, k)] = s[k]
    <3>1. Rank(K, k) \in 1 .. Cardinality(K) /\ Nth(K, Rank(K, k)) = k
      BY <1>1, <1>2, RankOfNth
    <3>2. QED BY <1>4, <1>6, <3>1
  <2>2. QED BY <2>1
<1>8. QED BY <1>3, <1>4, <1>6, <1>7

(* The first entry stays the first when it is kept. *)
LEMMA FirstIsPicked ==
  ASSUME NEW n \in Nat, NEW K \in SUBSET (1 .. n), 1 \in K
  PROVE  1 \in 1 .. Cardinality(K) /\ Nth(K, 1) = 1
<1>1. {l \in K : l <= 1} = {1}
  <2>1. \A l \in 1 .. n : l <= 1 <=> l = 1
    OBVIOUS
  <2>2. \A l \in K : l <= 1 <=> l = 1
    BY <2>1
  <2>3. QED BY <2>2, Zenon
<1>2. Rank(K, 1) = 1
  BY <1>1, FS_Singleton DEF Rank
<1>3. QED BY <1>2, RankOfNth

(* Picking from values is picking what they are the values of. *)
LEMMA PickedValues ==
  ASSUME NEW s, NEW v, NEW K, \A m \in 1 .. Cardinality(K) : v[Nth(K, m)] = s[Nth(K, m)]
  PROVE  Picked(v, K) = Picked(s, K)
BY DEF Picked

(* A set of indices that is not empty has a least one.                     *)
LEMMA LeastIndex ==
  ASSUME NEW n \in Nat, NEW K \in SUBSET (1 .. n), K # {}
  PROVE  \E k \in K : \A l \in K : k <= l
<1>1. 1 \in 1 .. Cardinality(K)
  <2>1. Cardinality(K) \in Nat /\ Cardinality(K) # 0
    BY IndicesFinite
  <2>2. QED BY <2>1
<1>2. Nth(K, 1) \in K /\ Rank(K, Nth(K, 1)) = 1
  BY <1>1, NthFacts
<1>3. ASSUME NEW l \in K, ~ Nth(K, 1) <= l PROVE FALSE
  <2>1. l < Nth(K, 1)
    <3> DEFINE m == Nth(K, 1)
    <3>1. l \in 1 .. n /\ m \in 1 .. n /\ ~ m <= l
      BY <1>2, <1>3
    <3> HIDE DEF m
    <3>2. l < m
      BY <3>1
    <3>3. QED BY <3>2 DEF m
  <2>2. Rank(K, l) < Rank(K, Nth(K, 1)) /\ Rank(K, l) \in 1 .. Cardinality(K)
    BY <1>2, <2>1, RankIncreases
  <2>3. QED BY <1>1, <1>2, <2>2, IndicesFinite
<1>4. QED BY <1>2, <1>3

(* And a greatest one.                                                     *)
LEMMA GreatestIndex ==
  ASSUME NEW n \in Nat, NEW K \in SUBSET (1 .. n), K # {}
  PROVE  \E k \in K : \A l \in K : l <= k
<1> DEFINE c == Cardinality(K)
           m == Nth(K, c)
<1>1. c \in Nat /\ c # 0
  BY IndicesFinite
<1>2. c \in 1 .. c
  BY <1>1
<1>3. m \in K /\ Rank(K, m) = c
  BY <1>2, NthFacts
<1> HIDE DEF m
<1>4. ASSUME NEW l \in K, ~ l <= m PROVE FALSE
  <2>1. l \in 1 .. n /\ m \in 1 .. n
    BY <1>3
  <2>2. m < l
    BY <1>4, <2>1
  <2>3. Rank(K, m) < Rank(K, l) /\ Rank(K, l) \in 1 .. c
    BY <1>3, <2>2, RankIncreases
  <2>4. QED BY <1>1, <1>3, <2>3
<1>5. QED BY <1>3, <1>4

(* A sequence without its first element.                                   *)
LEMMA TailFacts ==
  ASSUME NEW S, NEW s \in Seq(S), s # << >>
  PROVE  /\ Tail(s) \in Seq(S) /\ 1 \in DOMAIN s /\ Head(s) = s[1]
         /\ \A i \in DOMAIN Tail(s) : i + 1 \in DOMAIN s /\ i + 1 # 1 /\ Tail(s)[i] = s[i + 1]
         /\ \A i, k \in DOMAIN Tail(s) : i + 1 = k + 1 => i = k
         /\ \A k \in DOMAIN s : k # 1 => \E i \in DOMAIN Tail(s) : Tail(s)[i] = s[k]
<1> DEFINE t == Tail(s)
<1>1. /\ t \in Seq(S) /\ Len(t) = Len(s) - 1 /\ Len(s) \in Nat \ {0} /\ Head(s) = s[1]
      /\ \A i \in 1 .. Len(s) - 1 : t[i] = s[i + 1]
  BY HeadTailProperties, EmptySeq
<1> HIDE DEF t
<1>2. DOMAIN t = 1 .. Len(s) - 1 /\ DOMAIN s = 1 .. Len(s)
  BY <1>1
<1>3. \A i \in DOMAIN t : i + 1 \in DOMAIN s /\ i + 1 # 1 /\ t[i] = s[i + 1]
  BY <1>1, <1>2
<1>4. ASSUME NEW k \in DOMAIN s, k # 1 PROVE \E i \in DOMAIN t : t[i] = s[k]
  <2>1. k - 1 \in DOMAIN t /\ t[k - 1] = s[k]
    BY <1>1, <1>2, <1>4
  <2>2. QED BY <2>1
<1>5. \A i, k \in DOMAIN t : i + 1 = k + 1 => i = k
  BY <1>2
<1>6. QED BY <1>1, <1>2, <1>3, <1>4, <1>5 DEF t

-----------------------------------------------------------------------------
(***************************************************************************)
(* Forests: nodes that own nodes, each owned once or held from outside,    *)
(* and nothing that cannot be reached from what is held.  What taking      *)
(* nodes out, putting them in, deleting and copying them does to a forest, *)
(* whatever the nodes are; kid says for every place what is owned there.   *)
(***************************************************************************)
ClosedUnder(kid, S) == \A m \in S : kid[m] \subseteq S

\* What is reached from R, itself included.
Under(kid, R) ==
  {m \in DOMAIN kid :
     \A S \in SUBSET DOMAIN kid : R \subseteq S /\ ClosedUnder(kid, S) => m \in S}

\* The nodes alive are a forest and these are its roots.
Forest(kid, alive, roots) ==
  /\ alive \subseteq DOMAIN kid
  /\ \A o \in DOMAIN kid : kid[o] \subseteq alive /\ (o \notin alive => kid[o] = {})
  /\ \A o, q \in DOMAIN kid : \A m \in kid[o] : m \in kid[q] => o = q
  /\ roots = {m \in alive : \A o \in DOMAIN kid : m \notin kid[o]}
  /\ alive \subseteq Under(kid, roots)

\* What is done to what a place owns.
Without(kid, n, D) == [m \in DOMAIN kid |-> IF m = n THEN kid[n] \ D ELSE kid[m]]

With(kid, n, X) == [m \in DOMAIN kid |-> IF m = n THEN kid[n] \cup X ELSE kid[m]]

Killed(kid, D) == [m \in DOMAIN kid |-> IF m \in Under(kid, D) THEN {} ELSE kid[m]]

Replaced(kid, n, D, X) == [Killed(kid, D) EXCEPT ![n] = (kid[n] \ D) \cup X]

\* Nothing in R is below something else in R.
Topmost(kid, R) == \A m \in Under(kid, R) : \A r \in R : r \notin kid[m]

\* Where copies of all that is below R may be, and what is owned when they are made.
Copies(kid, R, free) ==
  {f \in [Under(kid, R) -> free] : \A m, z \in Under(kid, R) : f[m] = f[z] => m = z}

Images(f, S) == {f[x] : x \in S}

Copied(kid, f) ==
  [m \in DOMAIN kid |-> IF \E z \in DOMAIN f : f[z] = m
                        THEN Images(f, kid[CHOOSE z \in DOMAIN f : f[z] = m]) ELSE kid[m]]

-----------------------------------------------------------------------------
(* What is reached from a set is the least closed set that contains it.    *)
LEMMA UnderFacts ==
  ASSUME NEW V, NEW kid \in [V -> SUBSET V], NEW R \in SUBSET V
  PROVE  /\ Under(kid, R) \in SUBSET V /\ R \subseteq Under(kid, R)
         /\ ClosedUnder(kid, Under(kid, R))
         /\ \A S \in SUBSET V : R \subseteq S /\ ClosedUnder(kid, S) => Under(kid, R) \subseteq S
BY DEF Under, ClosedUnder

LEMMA UnderNothing ==
  ASSUME NEW V, NEW kid \in [V -> SUBSET V] PROVE Under(kid, {}) = {}
<1>1. {} \in SUBSET V /\ {} \subseteq {} /\ ClosedUnder(kid, {})
  BY DEF ClosedUnder
<1>2. Under(kid, {}) \subseteq {}
  BY <1>1, UnderFacts
<1>3. QED BY <1>2

(* Less is reached from less, where places own no more.                    *)
LEMMA UnderLess ==
  ASSUME NEW V, NEW kid \in [V -> SUBSET V], NEW less \in [V -> SUBSET V],
         NEW R \in SUBSET V, NEW Q \in SUBSET Under(kid, R),
         \A m \in Under(kid, R) : less[m] \subseteq kid[m]
  PROVE  Under(less, Q) \subseteq Under(kid, R)
<1>1. Under(kid, R) \in SUBSET V /\ ClosedUnder(kid, Under(kid, R))
  BY UnderFacts
<1>2. ClosedUnder(less, Under(kid, R))
  BY <1>1 DEF ClosedUnder
<1>3. Q \in SUBSET V
  BY <1>1
<1>4. QED BY <1>1, <1>2, <1>3, UnderFacts

(* What is reached depends only on what is owned there.                    *)
LEMMA UnderAgrees ==
  ASSUME NEW V, NEW kid \in [V -> SUBSET V], NEW other \in [V -> SUBSET V],
         NEW R \in SUBSET V, \A m \in Under(kid, R) : other[m] = kid[m]
  PROVE  Under(other, R) = Under(kid, R)
<1>1. R \in SUBSET Under(kid, R) /\ R \in SUBSET Under(other, R)
  BY UnderFacts
<1>2. Under(other, R) \subseteq Under(kid, R)
  BY <1>1, UnderLess
<1>3. \A m \in Under(other, R) : kid[m] \subseteq other[m]
  BY <1>2
<1>4. QED BY <1>1, <1>2, <1>3, UnderLess

(* What is reached from a set is reached from one of its members.          *)
LEMMA UnderEach ==
  ASSUME NEW V, NEW kid \in [V -> SUBSET V], NEW R \in SUBSET V
  PROVE  \A m \in Under(kid, R) : \E r \in R : m \in Under(kid, {r})
<1> DEFINE S == UNION {Under(kid, {r}) : r \in R}
<1>1. \A r \in R : /\ Under(kid, {r}) \in SUBSET V /\ r \in Under(kid, {r})
                   /\ ClosedUnder(kid, Under(kid, {r}))
  BY UnderFacts
<1>2. S \in SUBSET V /\ R \subseteq S
  BY <1>1
<1>3. ClosedUnder(kid, S)
  BY <1>1 DEF ClosedUnder
<1> HIDE DEF S
<1>4. Under(kid, R) \subseteq S
  BY <1>2, <1>3, UnderFacts
<1>5. QED BY <1>4 DEF S

(* What is reached and not there from the start is owned by what is        *)
(* reached.                                                                *)
LEMMA UnderIsOwned ==
  ASSUME NEW V, NEW kid \in [V -> SUBSET V], NEW R \in SUBSET V,
         NEW m \in Under(kid, R), m \notin R
  PROVE  \E o \in Under(kid, R) : m \in kid[o]
<1> SUFFICES ASSUME \A o \in Under(kid, R) : m \notin kid[o] PROVE FALSE
  OBVIOUS
<1> DEFINE S == Under(kid, R) \ {m}
<1>1. /\ Under(kid, R) \in SUBSET V /\ R \subseteq Under(kid, R)
      /\ ClosedUnder(kid, Under(kid, R))
  BY UnderFacts
<1>2. S \in SUBSET V /\ R \subseteq S
  BY <1>1
<1>3. ClosedUnder(kid, S)
  BY <1>1 DEF ClosedUnder
<1>4. QED BY <1>2, <1>3, UnderFacts

-----------------------------------------------------------------------------
(* A root is not below anything else. *)
LEMMA RootsApart ==
  ASSUME NEW V, NEW kid \in [V -> SUBSET V], NEW alive, NEW roots,
         Forest(kid, alive, roots),
         NEW R \in SUBSET V, NEW h \in roots, h \notin R
  PROVE  h \notin Under(kid, R)
<1>1. Under(kid, R) \in SUBSET V
  BY UnderFacts
<1>2. \A o \in V : h \notin kid[o]
  BY DEF Forest
<1>3. QED BY <1>1, <1>2, UnderIsOwned

(* What is reached from nodes alive is alive. *)
LEMMA UnderAlive ==
  ASSUME NEW V, NEW kid \in [V -> SUBSET V], NEW alive, NEW roots,
         Forest(kid, alive, roots), NEW R \in SUBSET alive
  PROVE  Under(kid, R) \subseteq alive
<1>1. alive \in SUBSET V /\ R \in SUBSET V /\ ClosedUnder(kid, alive)
  BY DEF Forest, ClosedUnder
<1>2. QED BY <1>1, UnderFacts

(* An owner is not below what it owns. *)
LEMMA OwnerAbove ==
  ASSUME NEW V, NEW kid \in [V -> SUBSET V], NEW alive, NEW roots,
         Forest(kid, alive, roots), NEW n \in V, NEW D \in SUBSET kid[n]
  PROVE  n \notin Under(kid, D)
<1> SUFFICES ASSUME n \in Under(kid, D) PROVE FALSE
  OBVIOUS
<1> DEFINE S == alive \ Under(kid, D)
<1>1. D \in SUBSET alive /\ D \in SUBSET V /\ alive \in SUBSET V /\ n \in V
  BY DEF Forest
<1>2. /\ Under(kid, D) \subseteq alive /\ D \subseteq Under(kid, D)
      /\ Under(kid, D) \in SUBSET V /\ ClosedUnder(kid, Under(kid, D))
  BY <1>1, UnderAlive, UnderFacts
<1>3. \A h \in roots : h \notin D
  BY <1>1 DEF Forest
<1>4. roots \subseteq S
  <2>1. \A h \in roots : h \notin Under(kid, D)
    BY <1>1, <1>3, RootsApart
  <2>2. QED BY <2>1 DEF Forest
<1>5. ASSUME NEW m \in S, NEW z \in kid[m], z \in Under(kid, D) PROVE FALSE
  <2>1. m \in V /\ m \notin Under(kid, D)
    BY <1>1
  <2>2. CASE z \in D
    <3>1. m = n
      BY <1>1, <2>1, <2>2, <1>5 DEF Forest
    <3>2. QED BY <2>1, <3>1
  <2>3. CASE z \notin D
    <3>1. PICK o \in Under(kid, D) : z \in kid[o]
      BY <1>1, <1>5, <2>3, UnderIsOwned
    <3>2. o = m
      BY <1>2, <1>5, <2>1, <3>1 DEF Forest
    <3>3. QED BY <2>1, <3>1, <3>2
  <2>4. QED BY <2>2, <2>3
<1>6. ClosedUnder(kid, S)
  <2>1. \A m \in S : kid[m] \subseteq alive
    BY <1>1 DEF Forest
  <2>2. QED BY <1>5, <2>1 DEF ClosedUnder
<1>7. S \in SUBSET V
  BY <1>1
<1>8. Under(kid, roots) \subseteq S
  <2>1. roots \in SUBSET V
    BY <1>4, <1>7
  <2>2. QED BY <1>4, <1>6, <1>7, <2>1, UnderFacts
<1>9. n \in alive
  BY <1>2
<1>10. QED BY <1>8, <1>9 DEF Forest

-----------------------------------------------------------------------------
(* A new node that owns nothing. *)
LEMMA ForestAdd ==
  ASSUME NEW V, NEW kid \in [V -> SUBSET V], NEW alive, NEW roots,
         Forest(kid, alive, roots), NEW a \in V \ alive
  PROVE  Forest(kid, alive \cup {a}, roots \cup {a})
<1>1. \A o \in V : a \notin kid[o]
  BY DEF Forest
<1>2. roots \cup {a} = {m \in alive \cup {a} : \A o \in V : m \notin kid[o]}
  BY <1>1 DEF Forest
<1>3. roots \in SUBSET V /\ roots \cup {a} \in SUBSET V
  BY DEF Forest
<1>4. roots \cup {a} \subseteq Under(kid, roots \cup {a})
  BY <1>3, UnderFacts
<1>5. Under(kid, roots) \subseteq Under(kid, roots \cup {a})
  BY <1>3, <1>4, UnderLess
<1>6. alive \cup {a} \subseteq Under(kid, roots \cup {a})
  BY <1>4, <1>5 DEF Forest
<1>7. QED BY <1>2, <1>6 DEF Forest

(* Taking nodes out of the one that owns them. *)
LEMMA ForestDetach ==
  ASSUME NEW V, NEW kid \in [V -> SUBSET V], NEW alive, NEW roots,
         Forest(kid, alive, roots),
         NEW n \in V, NEW D \in SUBSET kid[n]
  PROVE  Forest(Without(kid, n, D), alive, roots \cup D)
<1> DEFINE next == Without(kid, n, D)
<1>0. /\ next \in [V -> SUBSET V]
      /\ \A m \in V : next[m] = IF m = n THEN kid[n] \ D ELSE kid[m]
  BY DEF Without
<1> HIDE DEF next
<1> USE <1>0
<1>1. D \in SUBSET alive /\ alive \in SUBSET V /\ roots \cup D \in SUBSET V
  BY DEF Forest
<1>2. roots \cup D = {m \in alive : \A o \in V : m \notin next[o]}
  <2>1. \A m \in D : \A o \in V : m \notin next[o]
    BY DEF Forest
  <2>2. \A m \in alive : (\A o \in V : m \notin next[o]) => m \in roots \cup D
    BY DEF Forest
  <2>3. \A m \in roots : m \in alive /\ \A o \in V : m \notin next[o]
    BY DEF Forest
  <2>4. QED BY <1>1, <2>1, <2>2, <2>3
<1>3. ClosedUnder(kid, Under(next, roots \cup D))
  <2>1. roots \cup D \subseteq Under(next, roots \cup D)
        /\ ClosedUnder(next, Under(next, roots \cup D))
        /\ Under(next, roots \cup D) \in SUBSET V
    BY <1>1, UnderFacts
  <2>2. QED BY <2>1 DEF ClosedUnder
<1>4. alive \subseteq Under(next, roots \cup D)
  <2>1. roots \cup D \subseteq Under(next, roots \cup D)
        /\ Under(next, roots \cup D) \in SUBSET V
    BY <1>1, UnderFacts
  <2>2. Under(kid, roots) \subseteq Under(next, roots \cup D)
    BY <1>1, <1>3, <2>1, UnderFacts
  <2>3. QED BY <2>2 DEF Forest
<1>5. \A o, q \in V : \A m \in next[o] : m \in next[q] => o = q
  BY DEF Forest
<1>6. \A o \in V : next[o] \subseteq alive /\ (o \notin alive => next[o] = {})
  BY DEF Forest
<1>7. QED BY <1>1, <1>2, <1>4, <1>5, <1>6 DEF next, Forest

(* Giving roots to a node that is not below them. *)
LEMMA ForestAttach ==
  ASSUME NEW V, NEW kid \in [V -> SUBSET V], NEW alive, NEW roots,
         Forest(kid, alive, roots),
         NEW n \in alive, NEW X \in SUBSET roots, n \notin Under(kid, X)
  PROVE  Forest(With(kid, n, X), alive, roots \ X)
<1> DEFINE next == With(kid, n, X)
<1>0. /\ next \in [V -> SUBSET V]
      /\ \A m \in V : next[m] = IF m = n THEN kid[n] \cup X ELSE kid[m]
  BY DEF With, Forest
<1> HIDE DEF next
<1> USE <1>0
<1>1. /\ n \in V /\ X \in SUBSET alive /\ alive \in SUBSET V /\ roots \in SUBSET V
      /\ X \in SUBSET V /\ roots \ X \in SUBSET V
      /\ \A x \in X : \A o \in V : x \notin kid[o]
  BY DEF Forest
<1>2. roots \ X = {m \in alive : \A o \in V : m \notin next[o]}
  BY <1>1 DEF Forest
<1>3. alive \subseteq Under(next, roots \ X)
  <2> DEFINE U == Under(next, roots \ X)
             T == U \cup Under(kid, X)
  <2>1. U \in SUBSET V /\ roots \ X \subseteq U /\ ClosedUnder(next, U)
    BY <1>1, UnderFacts
  <2>2. Under(kid, X) \in SUBSET V /\ X \subseteq Under(kid, X) /\ ClosedUnder(kid, Under(kid, X))
    BY <1>1, UnderFacts
  <2> HIDE DEF U
  <2>3. T \in SUBSET V /\ roots \subseteq T
    BY <2>1, <2>2
  <2>4. ClosedUnder(kid, T)
    <3>1. \A m \in V : kid[m] \subseteq next[m]
      OBVIOUS
    <3>2. \A m \in U : kid[m] \subseteq U
      BY <2>1, <3>1 DEF ClosedUnder
    <3>3. QED BY <2>2, <3>2 DEF ClosedUnder
  <2>5. n \in U
    <3>1. Under(kid, roots) \subseteq T
      BY <1>1, <2>3, <2>4, UnderFacts
    <3>2. QED BY <3>1 DEF Forest
  <2>6. X \subseteq U
    BY <1>1, <2>1, <2>5 DEF ClosedUnder
  <2>7. roots \subseteq U /\ ClosedUnder(kid, U)
    BY <2>1, <2>6 DEF ClosedUnder
  <2>8. Under(kid, roots) \subseteq U
    BY <1>1, <2>1, <2>7, UnderFacts
  <2>9. QED BY <2>8 DEF Forest, U
<1>4. \A o, q \in V : \A m \in next[o] : m \in next[q] => o = q
  BY <1>1 DEF Forest
<1>5. \A o \in V : next[o] \subseteq alive /\ (o \notin alive => next[o] = {})
  BY <1>1 DEF Forest
<1>6. QED BY <1>1, <1>2, <1>3, <1>4, <1>5 DEF next, Forest

(* Deleting roots, and with them all that is below. *)
LEMMA ForestKill ==
  ASSUME NEW V, NEW kid \in [V -> SUBSET V], NEW alive, NEW roots,
         Forest(kid, alive, roots), NEW D \in SUBSET roots
  PROVE  /\ Forest(Killed(kid, D), alive \ Under(kid, D), roots \ D)
         /\ roots \ D = roots \ Under(kid, D)
         /\ \A m \in alive \ Under(kid, D) : kid[m] \cap Under(kid, D) = {}
<1> DEFINE dead == Under(kid, D)
           next == Killed(kid, D)
<1>0. /\ next \in [V -> SUBSET V]
      /\ \A m \in V : next[m] = IF m \in dead THEN {} ELSE kid[m]
  BY DEF Killed
<1> HIDE DEF next
<1> USE <1>0
<1>1. /\ alive \in SUBSET V /\ roots \in SUBSET V /\ roots \subseteq alive
      /\ D \in SUBSET V /\ D \in SUBSET alive
  BY DEF Forest
<1>2. /\ dead \in SUBSET V /\ D \subseteq dead /\ ClosedUnder(kid, dead) /\ dead \subseteq alive
  BY <1>1, UnderFacts, UnderAlive
<1>3. \A h \in roots \ D : h \notin dead
  BY <1>1, RootsApart
<1>4. \A m \in alive \ dead : kid[m] \cap dead = {}
  <2> SUFFICES ASSUME NEW m \in alive \ dead, NEW z \in kid[m], z \in dead PROVE FALSE
    OBVIOUS
  <2>1. z \notin D
    BY <1>1 DEF Forest
  <2>2. PICK o \in dead : z \in kid[o]
    BY <1>1, <2>1, UnderIsOwned
  <2>3. o = m
    BY <1>1, <1>2, <2>2 DEF Forest
  <2>4. QED BY <2>3
<1> HIDE DEF dead
<1>5. roots \ D = {m \in alive \ dead : \A o \in V : m \notin next[o]}
  <2>1. \A m \in alive \ dead : (\A o \in V : m \notin next[o]) => m \in roots \ D
    <3> SUFFICES ASSUME NEW m \in alive \ dead, \A o \in V : m \notin next[o]
                 PROVE  m \in roots \ D
      OBVIOUS
    <3>1. \A o \in V : m \notin kid[o]
      BY <1>2 DEF dead, ClosedUnder
    <3>2. QED BY <1>2, <3>1 DEF Forest
  <2>2. \A m \in roots \ D : m \in alive \ dead /\ \A o \in V : m \notin next[o]
    BY <1>1, <1>3 DEF Forest
  <2>3. QED BY <2>1, <2>2
<1>6. alive \ dead \subseteq Under(next, roots \ D)
  <2> DEFINE U == Under(next, roots \ D)
             T == U \cup dead
  <2>1. roots \ D \in SUBSET V
    BY <1>1
  <2>2. U \in SUBSET V /\ roots \ D \subseteq U /\ ClosedUnder(next, U)
    BY <2>1, UnderFacts
  <2> HIDE DEF U
  <2>3. T \in SUBSET V /\ roots \subseteq T
    BY <1>2, <2>2
  <2>4. ClosedUnder(kid, T)
    BY <1>2, <2>2 DEF ClosedUnder, dead
  <2>5. Under(kid, roots) \subseteq T
    BY <1>1, <2>3, <2>4, UnderFacts
  <2>6. QED BY <2>5 DEF Forest, U
<1>7. \A o \in V : next[o] \subseteq alive \ dead /\ (o \notin alive \ dead => next[o] = {})
  BY <1>4 DEF Forest, dead
<1>8. \A o, q \in V : \A m \in next[o] : m \in next[q] => o = q
  BY DEF Forest
<1>9. Forest(next, alive \ dead, roots \ D)
  <2>1. alive \ dead \subseteq V /\ DOMAIN next = V
    BY <1>1
  <2>2. QED BY <1>5, <1>6, <1>7, <1>8, <2>1 DEF Forest
<1>10. QED BY <1>2, <1>3, <1>4, <1>9 DEF next, dead

(* Copies of nodes and of all that is below them: their topmost are new    *)
(* roots.                                                                  *)
LEMMA ForestCopy ==
  ASSUME NEW V, NEW kid \in [V -> SUBSET V], NEW alive, NEW roots,
         Forest(kid, alive, roots),
         NEW R \in SUBSET alive, Topmost(kid, R),
         NEW f \in Copies(kid, R, V \ alive)
  PROVE  Forest(Copied(kid, f), alive \cup Images(f, Under(kid, R)), roots \cup Images(f, R))
<1> USE DEF Images
<1> DEFINE B == Under(kid, R)
           C == {f[m] : m \in B}
           all == alive \cup C
           tops == {f[r] : r \in R}
           next == Copied(kid, f)
<1>0. /\ f \in [B -> V \ alive] /\ DOMAIN kid = V /\ R \in SUBSET V
      /\ \A m, z \in B : f[m] = f[z] => m = z
      /\ \A m \in B : kid[m] \subseteq B
  BY UnderFacts DEF Copies, ClosedUnder, Forest
<1> HIDE DEF B
<1>a. /\ next \in [V -> SUBSET V]
      /\ \A m \in B : next[f[m]] = {f[z] : z \in kid[m]}
      /\ \A m \in V : (\A z \in B : f[z] # m) => next[m] = kid[m]
  <2>1. \A m \in V : next[m] = IF \E z \in B : f[z] = m
                               THEN {f[x] : x \in kid[CHOOSE z \in B : f[z] = m]} ELSE kid[m]
    BY <1>0 DEF Copied
  <2>2. \A m \in B : (CHOOSE z \in B : f[z] = f[m]) = m
    BY <1>0
  <2>3. \A m \in B : next[f[m]] = {f[z] : z \in kid[m]}
    BY <1>0, <2>1, <2>2
  <2>4. \A m \in V : next[m] \in SUBSET V
    <3> SUFFICES ASSUME NEW m \in V, NEW z \in B, f[z] = m PROVE next[m] \in SUBSET V
      BY <2>1
    <3>1. next[m] = {f[x] : x \in kid[z]}
      BY <2>3
    <3>2. QED BY <1>0, <3>1
  <2>5. next \in [V -> SUBSET V]
    <3>1. next = [m \in V |-> next[m]]
      BY <1>0 DEF Copied
    <3> HIDE DEF next
    <3>2. QED BY <2>4, <3>1
  <2>6. QED BY <2>1, <2>3, <2>5
<1> HIDE DEF next
<1> USE DEF B
<1> USE <1>a
<1>b. \A m \in Under(kid, R) : \A r \in R : r \notin kid[m]
  BY DEF Topmost
<1> USE <1>b, <1>0
<1>1. /\ alive \in SUBSET V /\ roots \in SUBSET alive /\ R \in SUBSET V
  BY DEF Forest
<1>2. B \in SUBSET alive /\ R \subseteq B /\ ClosedUnder(kid, B) /\ B \in SUBSET V
  BY <1>1, UnderFacts, UnderAlive
<1>3. \A m \in B : f[m] \in V /\ f[m] \notin alive
  OBVIOUS
<1>4. \A m \in alive : next[m] = kid[m]
  BY <1>1, <1>3
<1>5. \A m \in B : kid[m] \subseteq B
  BY <1>2 DEF ClosedUnder
<1>6. \A m, z \in B : f[m] = f[z] => m = z
  OBVIOUS
<1>7. \A m \in B : next[f[m]] = {f[z] : z \in kid[m]}
  OBVIOUS
<1>8. \A m \in V \ all : next[m] = {}
  <2> SUFFICES ASSUME NEW m \in V \ all PROVE next[m] = {}
    OBVIOUS
  <2>1. next[m] = kid[m]
    OBVIOUS
  <2>2. QED BY <2>1 DEF Forest
<1>9. \A r \in R : \A m \in B : r \notin kid[m]
  OBVIOUS
<1>10. \A z \in B \ R : \E o \in B : z \in kid[o]
  BY <1>1, UnderIsOwned
<1> HIDE DEF B
<1>11. \A o \in V : next[o] \subseteq all /\ (o \notin all => next[o] = {})
  <2> SUFFICES ASSUME NEW o \in all PROVE next[o] \subseteq all
    BY <1>8
  <2>1. CASE o \in alive
    BY <1>1, <1>4, <2>1 DEF Forest
  <2>2. CASE o \in C
    BY <1>5, <1>7, <2>2
  <2>3. QED BY <2>1, <2>2
<1>12. \A o, q \in V : \A m \in next[o] : m \in next[q] => o = q
  <2> SUFFICES ASSUME NEW o \in V, NEW q \in V, NEW m \in next[o], m \in next[q]
               PROVE  o = q
    OBVIOUS
  <2>1. o \in alive \cup C /\ q \in alive \cup C
    BY <1>8
  <2>2. \A p \in alive : next[p] \subseteq alive
    BY <1>1, <1>4 DEF Forest
  <2>3. \A p \in C : next[p] \cap alive = {}
    BY <1>3, <1>5, <1>7
  <2>4. CASE o \in alive
    <3>1. q \in alive
      BY <2>1, <2>2, <2>3, <2>4
    <3>2. QED BY <1>1, <1>4, <2>4, <3>1 DEF Forest
  <2>5. CASE o \in C
    <3>1. q \in C
      BY <2>1, <2>2, <2>3, <2>5
    <3>2. PICK x \in B, y \in B : o = f[x] /\ q = f[y]
      BY <2>5, <3>1
    <3>3. PICK z \in kid[x], w \in kid[y] : m = f[z] /\ m = f[w]
      BY <1>7, <3>2
    <3>4. z \in kid[x] /\ z \in kid[y]
      BY <1>5, <1>6, <3>3
    <3>5. x = y
      BY <1>2, <3>4 DEF Forest
    <3>6. QED BY <3>2, <3>5
  <2>6. QED BY <2>1, <2>4, <2>5
<1>13. roots \cup tops = {m \in all : \A o \in V : m \notin next[o]}
  <2>1. \A m \in roots : \A o \in V : m \notin next[o]
    <3> SUFFICES ASSUME NEW m \in roots, NEW o \in V, m \in next[o] PROVE FALSE
      OBVIOUS
    <3>1. o \in alive \cup C
      BY <1>8
    <3>2. o \notin C
      BY <1>1, <1>3, <1>5, <1>7
    <3>3. QED BY <1>1, <1>4, <3>1, <3>2 DEF Forest
  <2>2. \A r \in R : \A o \in V : f[r] \notin next[o]
    <3> SUFFICES ASSUME NEW r \in R, NEW o \in V, f[r] \in next[o] PROVE FALSE
      OBVIOUS
    <3>1. r \in B /\ f[r] \notin alive
      BY <1>2, <1>3
    <3>2. o \in C
      BY <1>1, <1>4, <1>8, <3>1 DEF Forest
    <3>3. PICK x \in B : o = f[x]
      BY <3>2
    <3>4. PICK z \in kid[x] : f[r] = f[z]
      BY <1>7, <3>3
    <3>5. r \in kid[x]
      BY <1>5, <1>6, <3>1, <3>4
    <3>6. QED BY <1>9, <3>5
  <2>3. \A m \in all : (\A o \in V : m \notin next[o]) => m \in roots \cup tops
    <3> SUFFICES ASSUME NEW m \in all, \A o \in V : m \notin next[o]
                 PROVE  m \in roots \cup tops
      OBVIOUS
    <3>1. CASE m \in alive
      <4>1. \A o \in V : m \notin kid[o]
        BY <1>4, <3>1 DEF Forest
      <4>2. QED BY <3>1, <4>1 DEF Forest
    <3>2. CASE m \in C
      <4>1. PICK z \in B : m = f[z]
        BY <3>2
      <4>2. ASSUME z \notin R PROVE FALSE
        <5>1. PICK o \in B : z \in kid[o]
          BY <1>10, <4>2
        <5>2. m \in next[f[o]] /\ f[o] \in V
          BY <1>3, <1>7, <4>1, <5>1
        <5>3. QED BY <5>2
      <4>3. QED BY <4>1, <4>2
    <3>3. QED BY <3>1, <3>2
  <2>4. QED BY <1>1, <1>2, <2>1, <2>2, <2>3
<1>14. all \subseteq Under(next, roots \cup tops)
  <2> DEFINE U == Under(next, roots \cup tops)
             S == {m \in B : f[m] \in U}
  <2>1. roots \cup tops \in SUBSET V
    BY <1>1, <1>2, <1>3
  <2>2. U \in SUBSET V /\ roots \cup tops \subseteq U /\ ClosedUnder(next, U)
    BY <2>1, UnderFacts
  <2> HIDE DEF U
  <2>3. alive \subseteq U
    <3>1. U \cap alive \in SUBSET V /\ roots \subseteq U \cap alive
      BY <1>1, <2>2
    <3>2. ClosedUnder(kid, U \cap alive)
      BY <1>1, <1>4, <2>2 DEF ClosedUnder, Forest
    <3>3. roots \in SUBSET V
      BY <1>1
    <3>4. Under(kid, roots) \subseteq U \cap alive
      BY <3>1, <3>2, <3>3, UnderFacts
    <3>5. QED BY <3>4 DEF Forest
  <2>4. S \in SUBSET V /\ R \subseteq S
    BY <1>2, <2>2
  <2>5. ClosedUnder(kid, S)
    <3> SUFFICES ASSUME NEW m \in S, NEW z \in kid[m] PROVE z \in S
      BY DEF ClosedUnder
    <3>1. z \in B /\ f[z] \in next[f[m]]
      BY <1>5, <1>7
    <3>2. QED BY <2>2, <3>1 DEF ClosedUnder
  <2> HIDE DEF S
  <2>6. B \subseteq S
    BY <1>1, <2>4, <2>5, UnderFacts DEF B
  <2>7. C \subseteq U
    BY <2>6 DEF S
  <2>8. QED BY <2>3, <2>7 DEF U
<1>15. all \subseteq V
  BY <1>1, <1>3
<1> HIDE DEF all, C, tops
<1>16. Forest(next, all, roots \cup tops)
  BY <1>11, <1>12, <1>13, <1>14, <1>15 DEF Forest
<1>17. QED BY <1>5, <1>16 DEF all, C, tops, B, next

(* Deleting some of what a node owns, and giving it roots instead.         *)
LEMMA ForestReplace ==
  ASSUME NEW V, NEW kid \in [V -> SUBSET V], NEW alive, NEW roots,
         Forest(kid, alive, roots),
         NEW n \in alive, NEW D \in SUBSET kid[n],
         NEW X \in SUBSET roots, n \notin Under(kid, X)
  PROVE  /\ Forest(Replaced(kid, n, D, X), alive \ Under(kid, D), roots \ X)
         /\ Under(kid, D) \subseteq alive
         /\ n \notin Under(kid, D) /\ roots \cap Under(kid, D) = {}
<1> DEFINE dead == Under(kid, D)
           next == Replaced(kid, n, D, X)
           k1 == Without(kid, n, D)
           k2 == Killed(k1, D)
<1>1. /\ n \in V /\ D \in SUBSET alive /\ D \in SUBSET V /\ alive \in SUBSET V
      /\ roots \subseteq alive /\ roots \cap D = {} /\ X \in SUBSET V /\ X \in SUBSET alive
  BY DEF Forest
<1>2. /\ n \notin dead /\ dead \subseteq alive /\ dead \in SUBSET V /\ D \subseteq dead
      /\ \A m \in dead : kid[m] \subseteq dead
  BY <1>1, OwnerAbove, UnderAlive, UnderFacts DEF ClosedUnder
<1> HIDE DEF next
<1>0. next \in [V -> SUBSET V]
      /\ \A m \in V : next[m] = IF m \in Under(kid, D) THEN {}
                               ELSE IF m = n THEN (kid[n] \ D) \cup X ELSE kid[m]
  BY <1>1, <1>2 DEF next, Replaced, Killed
<1> USE <1>0
<1>3. k1 \in [V -> SUBSET V] /\ \A m \in V : k1[m] = IF m = n THEN kid[n] \ D ELSE kid[m]
  BY <1>1 DEF Without
<1>4. Forest(k1, alive, roots \cup D)
  BY <1>1, ForestDetach
<1> HIDE DEF k1, dead
<1>5. Under(k1, D) = dead
  BY <1>1, <1>2, <1>3, UnderAgrees DEF dead
<1>6. k2 \in [V -> SUBSET V] /\ \A m \in V : k2[m] = IF m \in dead THEN {} ELSE k1[m]
  BY <1>3, <1>5 DEF Killed
<1>7. /\ Forest(k2, alive \ dead, (roots \cup D) \ D)
      /\ (roots \cup D) \ D = (roots \cup D) \ dead
      /\ \A m \in alive \ dead : k1[m] \cap dead = {}
  <2>1. D \in SUBSET (roots \cup D)
    OBVIOUS
  <2>2. /\ Forest(k2, alive \ Under(k1, D), (roots \cup D) \ D)
        /\ (roots \cup D) \ D = (roots \cup D) \ Under(k1, D)
        /\ \A m \in alive \ Under(k1, D) : k1[m] \cap Under(k1, D) = {}
    BY <1>3, <1>4, <2>1, ForestKill
  <2>3. QED BY <1>5, <2>2
<1> HIDE DEF k2
<1>8. Forest(k2, alive \ dead, roots) /\ roots \cap dead = {}
  <2>1. (roots \cup D) \ D = roots
    BY <1>1
  <2>2. QED BY <1>7, <2>1
<1>9. n \notin Under(k2, X)
  <2>1. \A m \in V : k2[m] \subseteq kid[m]
    BY <1>3, <1>6
  <2>2. X \in SUBSET Under(kid, X) /\ Under(kid, X) \in SUBSET V
    BY <1>1, UnderFacts
  <2>3. Under(k2, X) \subseteq Under(kid, X)
    BY <1>1, <1>6, <2>1, <2>2, UnderLess
  <2>4. QED BY <2>3
<1>10. next = With(k2, n, X)
  <2>1. \A m \in V : next[m] = IF m = n THEN k2[n] \cup X ELSE k2[m]
    BY <1>1, <1>2, <1>3, <1>6 DEF dead
  <2>2. QED BY <1>6, <2>1 DEF With
<1>11. Forest(next, alive \ dead, roots \ X)
  <2>1. n \in alive \ dead
    BY <1>2
  <2>2. QED BY <1>6, <1>8, <1>9, <1>10, <2>1, ForestAttach
<1>12. QED BY <1>2, <1>8, <1>11 DEF dead, next
=============================================================================
