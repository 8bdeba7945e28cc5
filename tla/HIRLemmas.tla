------------------------------ MODULE HIRLemmas ------------------------------
(***************************************************************************)
(* Facts about slot vectors and about the rewriter, used by the proofs     *)
(* about the passes.                                                       *)
(***************************************************************************)
EXTENDS HIR, SequenceTheorems, TLAPS

(* An index is read modulo the number of slots: it always names a slot,    *)
(* and a slot names itself.                                                *)
LEMMA IndexNamesSlot ==
  /\ \A i \in Int : i % N \in Slots
  /\ \A s \in Slots : s % N = s /\ s \in Int
BY NAssumption, SMT DEF Slots

(* Dividing by the number of slots, and that there is but one way to.      *)
LEMMA DivisionFacts ==
  ASSUME NEW a \in Int
  PROVE  /\ a \div N \in Int /\ a % N \in Slots
         /\ a = N * (a \div N) + (a % N)
BY NAssumption, SMT DEF Slots

LEMMA DivisionUnique ==
  ASSUME NEW q \in Int, NEW p \in Int, NEW r \in Slots, NEW s \in Slots,
         N * q + r = N * p + s
  PROVE  q = p /\ r = s
<1>1. N \in Int /\ N > 0 /\ r \in 0 .. N - 1 /\ s \in 0 .. N - 1
  BY NAssumption DEF Slots
<1>2. N * p \in Int /\ N * q \in Int
  BY <1>1
<1>3. ~(q >= p + 1)
  <2> SUFFICES ASSUME q >= p + 1 PROVE FALSE
    OBVIOUS
  <2>1. N * q >= N * (p + 1)
    BY <1>1, SMT
  <2>2. N * (p + 1) = N * p + N
    BY <1>1, SMT
  <2>3. QED BY <1>1, <1>2, <2>1, <2>2, SMT
<1>4. ~(p >= q + 1)
  <2> SUFFICES ASSUME p >= q + 1 PROVE FALSE
    OBVIOUS
  <2>1. N * p >= N * (q + 1)
    BY <1>1, SMT
  <2>2. N * (q + 1) = N * q + N
    BY <1>1, SMT
  <2>3. QED BY <1>1, <1>2, <2>1, <2>2, SMT
<1>5. q = p
  BY <1>3, <1>4
<1>6. QED BY <1>1, <1>2, <1>5, SMT

(* An index and the one a whole vector before it name the same slot.       *)
LEMMA IndexWrapsAround ==
  ASSUME NEW a \in Int PROVE (a - N) % N = a % N
<1> DEFINE q == (a - N) \div N
           p == a \div N
<1>1. N \in Int /\ a - N \in Int
  BY NAssumption
<1>2. a - N = N * q + ((a - N) % N) /\ q \in Int /\ (a - N) % N \in Slots
  BY <1>1, DivisionFacts
<1>3. a = N * p + (a % N) /\ p \in Int /\ a % N \in Slots
  BY DivisionFacts
<1> HIDE DEF q, p
<1>4. (a - N) % N \in Int /\ a % N \in Int
  BY <1>2, <1>3 DEF Slots
<1>5. N * (q + 1) = N * q + N
  BY <1>1, <1>2, SMT
<1>6. N * (q + 1) + ((a - N) % N) = N * p + (a % N)
  <2>1. N * q \in Int /\ N * p \in Int
    BY <1>1, <1>2, <1>3
  <2>2. QED BY <1>1, <1>2, <1>3, <1>4, <1>5, <2>1, SMT
<1>7. q + 1 \in Int
  BY <1>2
<1>8. QED BY <1>2, <1>3, <1>6, <1>7, DivisionUnique

(* Rotating a vector by t - i brings what was in slot i to slot t; also    *)
(* when no target slot is defined, since then the rotation is by zero.     *)
LEMMA RotationAligns ==
  ASSUME NEW v, NEW t \in Slots \cup {-1}, NEW i \in Slots \cup {-1},
         t = -1 => i = -1
  PROVE  Read(Rotate(v, t - i), t) = Read(v, i)
<1>1. CASE t \in Slots
  <2>1. t % N = t /\ t \in Int /\ i \in Int
    BY <1>1, IndexNamesSlot
  <2>2. t - (t - i) = i
    BY <2>1, SMT
  <2>3. QED BY <1>1, <2>1, <2>2 DEF Read, Rotate
<1>2. CASE t = -1
  <2>1. i = -1 /\ t - i = 0
    BY <1>2, SMT
  <2>2. t % N \in Slots
    BY <1>2, IndexNamesSlot
  <2>3. ((t % N) - 0) % N = t % N
    BY <2>2, IndexNamesSlot, SMT
  <2>4. QED BY <1>2, <2>1, <2>2, <2>3 DEF Read, Rotate
<1>3. QED BY <1>1, <1>2

(* A list without gaps, as long as the vector, that starts with slot 0     *)
(* names every slot.                                                       *)
LEMMA ListsAllSlots ==
  ASSUME NEW l \in Seq(Int), Ascending(l), Len(l) = N, l[1] = 0
  PROVE  {l[k] : k \in DOMAIN l} = Slots
<1>1. DOMAIN l = 1 .. N /\ N \in Nat
  BY NAssumption
<1>2. \A k \in 1 .. N : l[k] = k - 1
  BY <1>1 DEF Ascending
<1> HIDE DEF Slots
<1>3. \A k \in 1 .. N : k - 1 \in Slots
  BY <1>1 DEF Slots
<1>4. \A s \in Slots : s + 1 \in 1 .. N /\ (s + 1) - 1 = s
  BY <1>1 DEF Slots
<1>5. QED BY <1>1, <1>2, <1>3, <1>4

(* Extracting a slot yields a scalar. *)
LEMMA UniformIsScalar ==
  ASSUME NEW x PROVE IsVector(Uniform(x)) /\ IsUniform(Uniform(x))
BY DEF IsVector, IsUniform, Uniform

LEMMA ExtractIsScalar ==
  ASSUME NEW v, NEW i
  PROVE  IsVector(Extract(v, i)) /\ IsUniform(Extract(v, i))
BY UniformIsScalar DEF Extract

(* A uniform vector stays uniform and stays what it is when rotated by 0. *)
LEMMA RotateUniform ==
  ASSUME NEW v, NEW k \in Int, IsUniform(v) PROVE IsUniform(Rotate(v, k))
BY IndexNamesSlot, SMT DEF IsUniform, Rotate, Slots

(* Arithmetic on vectors is arithmetic in each slot: where the operands    *)
(* agree in a slot, so do the results.                                     *)
LEMMA LiftAtSlot ==
  ASSUME NEW kind, NEW u, NEW v, DOMAIN u = DOMAIN v, NEW s \in Slots, NEW t \in Slots,
         \A k \in DOMAIN u : u[k][s] = v[k][t]
  PROVE  Lift(kind, u)[s] = Lift(kind, v)[t]
<1>1. [k \in DOMAIN u |-> u[k][s]] = [k \in DOMAIN v |-> v[k][t]]
  OBVIOUS
<1>2. QED BY <1>1 DEF Lift

(* What an operation computes depends only on the values of its operands. *)
LEMMA EvalAgrees ==
  ASSUME NEW o, NEW p, NEW f, NEW g,
         o.kind = p.kind, o.kind \in Kinds \ {"arg"},
         o.kind \notin Arithmetic => o.i = p.i /\ o.val = p.val /\ o.slots = p.slots,
         DOMAIN o.args = DOMAIN p.args,
         o.kind \in Arithmetic \/ o.kind = "constant" \/ 1 \in DOMAIN o.args,
         o.kind \in {"insert", "combine"} => 2 \in DOMAIN o.args,
         \A k \in DOMAIN o.args : f[o.args[k]] = g[p.args[k]]
  PROVE  Eval(o, f) = Eval(p, g)
<1>1. CASE o.kind \in Arithmetic
  <2>1. [k \in DOMAIN o.args |-> f[o.args[k]]] = [k \in DOMAIN p.args |-> g[p.args[k]]]
    BY <1>1
  <2>2. QED BY <1>1, <2>1 DEF Eval, Arithmetic, PlainArithmetic
<1>2. CASE o.kind \in Kinds \ Arithmetic
  BY <1>2 DEF Eval, Arithmetic, PlainArithmetic, Kinds, Listed
<1>3. QED BY <1>1, <1>2 DEF Kinds

(* Whether an operation is well typed depends only on its operands' types. *)
LEMMA WellTypedAgrees ==
  ASSUME NEW o, NEW p, NEW f, NEW g,
         o.kind = p.kind, o.type = p.type, o.kind \in Kinds,
         o.args \in Seq(Position), p.args \in Seq(Position),
         DOMAIN o.args = DOMAIN p.args,
         \A k \in DOMAIN o.args : f[o.args[k]].type = g[p.args[k]].type,
         WellTyped(f, o)
  PROVE  WellTyped(g, p)
<1>1. ArgTypes(f, o) = ArgTypes(g, p)
  BY DEF ArgTypes
<1>2. InferredType(f, o.args) = InferredType(g, p.args)
  BY DEF InferredType
<1>3. QED BY <1>1, <1>2 DEF WellTyped, Kinds, Arithmetic, PlainArithmetic

LEMMA SameTypesSuffice ==
  ASSUME NEW o, NEW f, NEW g, WellTyped(f, o),
         \A k \in DOMAIN o.args : f[o.args[k]].type = g[o.args[k]].type
  PROVE  WellTyped(g, o)
<1>1. ArgTypes(f, o) = ArgTypes(g, o)
  BY DEF ArgTypes
<1>2. InferredType(f, o.args) = InferredType(g, o.args)
  BY DEF InferredType
<1>3. QED BY <1>1, <1>2 DEF WellTyped

(* The order of the block is transitive. *)
LEMMA BeforeTransitive ==
  ASSUME NEW x \in Position, NEW y \in Position, NEW z \in Position,
         Before(x, y), Before(y, z)
  PROVE  Before(x, z)
BY DEF Before, Position

(* The operands that the kinds of operations have. *)
LEMMA Arity ==
  ASSUME NEW o \in Op, NEW f, WellTyped(f, o)
  PROVE  /\ Len(o.args) \in Nat /\ DOMAIN o.args = 1 .. Len(o.args)
         /\ o.kind \in {"arg", "constant"} => DOMAIN o.args = {}
         /\ o.kind \in {"extract", "rotate", "relinearize", "return"} => DOMAIN o.args = {1}
         /\ o.kind \in PlainArithmetic \cup {"insert", "combine"} => DOMAIN o.args = {1, 2}
         /\ o.kind \in Arithmetic => DOMAIN o.args # {}
<1>1. DOMAIN o.args = 1 .. Len(o.args) /\ Len(o.args) \in Nat
  BY DEF Op
<1>2. Len(ArgTypes(f, o)) = Len(o.args) /\ DOMAIN ArgTypes(f, o) = DOMAIN o.args
  <2>1. ArgTypes(f, o) = [k \in 1 .. Len(o.args) |-> f[o.args[k]].type]
    BY <1>1 DEF ArgTypes
  <2>2. QED BY <1>1, <2>1
<1>3. o.kind \in {"arg", "constant"} => Len(o.args) = 0
  BY <1>2 DEF WellTyped
<1>4. o.kind \in {"extract", "rotate", "relinearize", "return"} => Len(o.args) = 1
  BY <1>2 DEF WellTyped
<1>5. o.kind \in PlainArithmetic \cup {"insert", "combine"} => Len(o.args) = 2
  BY <1>2 DEF WellTyped
<1>6. o.kind \in Arithmetic => DOMAIN o.args # {}
  BY <1>2 DEF WellTyped
<1>7. 1 .. 0 = {} /\ 1 .. 1 = {1} /\ 1 .. 2 = {1, 2}
  OBVIOUS
<1>8. QED BY <1>1, <1>3, <1>4, <1>5, <1>6, <1>7

(* Scalar arithmetic has scalar operands only. *)
LEMMA ScalarOperands ==
  ASSUME NEW f, NEW o \in Op, o.kind \in Arithmetic, WellTyped(f, o), o.type = "secret",
         \A k \in DOMAIN o.args : f[o.args[k]].type \in Types
  PROVE  /\ \A k \in DOMAIN o.args : f[o.args[k]].type \in {"secret", "plain"}
         /\ \E k \in DOMAIN o.args : f[o.args[k]].type = "secret"
BY DEF WellTyped, ArgTypes, InferredType, Arithmetic, PlainArithmetic, Types

(* Replacing operands keeps everything else of an operation. *)
LEMMA ReplaceOperandFacts ==
  ASSUME NEW o \in Op, NEW x, NEW y \in Position
  PROVE  LET p == ReplaceOperand(o, x, y) IN
         /\ p \in Op
         /\ p.kind = o.kind /\ p.type = o.type /\ p.i = o.i
         /\ p.slots = o.slots /\ p.val = o.val
         /\ DOMAIN p.args = DOMAIN o.args
         /\ Len(p.args) = Len(o.args)
         /\ \A k \in DOMAIN o.args : p.args[k] = IF o.args[k] = x THEN y ELSE o.args[k]
<1> DEFINE a == [k \in DOMAIN o.args |-> IF o.args[k] = x THEN y ELSE o.args[k]]
<1>1. o.args \in Seq(Position)
  BY DEF Op
<1>2. a \in Seq(Position) /\ Len(a) = Len(o.args) /\ DOMAIN a = DOMAIN o.args
  <2>1. DOMAIN o.args = 1 .. Len(o.args) /\ Len(o.args) \in Nat
    BY <1>1
  <2>2. \A k \in 1 .. Len(o.args) : a[k] \in Position
    BY <1>1, <2>1
  <2>3. a \in [1 .. Len(o.args) -> Position]
    BY <2>1, <2>2
  <2>4. a \in Seq(Position)
    BY <2>1, <2>3, SeqDef
  <2>5. QED BY <2>1, <2>3, <2>4, LenProperties
<1>3. QED BY <1>2 DEF ReplaceOperand, Op

(* What the kinds of operations compute that passes insert. *)
LEMMA EvalByKind ==
  ASSUME NEW o, NEW f
  PROVE  /\ o.kind \in Arithmetic
               => Eval(o, f) = Lift(o.kind, [k \in DOMAIN o.args |-> f[o.args[k]]])
         /\ o.kind = "constant" => Eval(o, f) = Uniform(o.val)
         /\ o.kind = "extract"  => Eval(o, f) = Extract(f[o.args[1]], o.i)
         /\ o.kind = "rotate"   => Eval(o, f) = Rotate(f[o.args[1]], o.i)
         /\ o.kind = "return"   => Eval(o, f) = f[o.args[1]]
<1>1. o.kind \in Arithmetic
        => Eval(o, f) = Lift(o.kind, [k \in DOMAIN o.args |-> f[o.args[k]]])
  BY Zenon DEF Eval, Arithmetic, PlainArithmetic
<1>2. o.kind = "constant" => Eval(o, f) = Uniform(o.val)
  BY Zenon DEF Eval, Arithmetic, PlainArithmetic
<1>3. o.kind = "extract" => Eval(o, f) = Extract(f[o.args[1]], o.i)
  BY Zenon DEF Eval, Arithmetic, PlainArithmetic
<1>4. o.kind = "rotate" => Eval(o, f) = Rotate(f[o.args[1]], o.i)
  BY Zenon DEF Eval, Arithmetic, PlainArithmetic
<1>5. o.kind = "return" => Eval(o, f) = f[o.args[1]]
  BY Zenon DEF Eval, Arithmetic, PlainArithmetic
<1>6. QED BY <1>1, <1>2, <1>3, <1>4, <1>5

(* What a combine computes.                                                *)
LEMMA EvalCombine ==
  ASSUME NEW o, NEW f, o.kind = "combine"
  PROVE  Eval(o, f) = Combine(f[o.args[1]], Listed(o), f[o.args[2]])
BY Zenon DEF Eval, Arithmetic, PlainArithmetic

(* What an insert computes.                                                *)
LEMMA EvalInsert ==
  ASSUME NEW o, NEW f, o.kind = "insert"
  PROVE  Eval(o, f) = Insert(f[o.args[1]], f[o.args[2]], o.i)
BY Zenon DEF Eval, Arithmetic, PlainArithmetic

(* The operations that the passes make. *)
LEMMA RotateOpFacts ==
  ASSUME NEW v \in Position, NEW k \in Int
  PROVE  LET o == RotateOp(v, k) IN
         /\ o \in Op /\ o.kind = "rotate" /\ o.type = "batched"
         /\ o.args = <<v>> /\ o.i = k
<1>1. <<v>> \in Seq(Position) /\ << >> \in Seq(Int)
  OBVIOUS
<1>2. RotateOp(v, k) = [kind |-> "rotate", type |-> "batched", args |-> <<v>>,
                        i |-> k, slots |-> << >>, val |-> NoLiteral]
  BY DEF RotateOp, MakeIndexed, MakeOp
<1>3. QED BY <1>1, <1>2 DEF Op, Kinds, Types

LEMMA CombineOpFacts ==
  ASSUME NEW v \in Position, NEW slots \in Seq(Int), NEW w \in Position
  PROVE  LET o == CombineOp(v, slots, w) IN
         /\ o \in Op /\ o.kind = "combine" /\ o.type = "batched"
         /\ o.args = <<v, w>> /\ o.slots = slots
<1> DEFINE a == <<v, w>>
<1>1. a \in Seq(Position)
  OBVIOUS
<1>2. CombineOp(v, slots, w) = [kind |-> "combine", type |-> "batched", args |-> a,
                                i |-> 0, slots |-> slots, val |-> NoLiteral]
  <2>1. CombineOp(v, slots, w) = [MakeOp("combine", "batched", a) EXCEPT !.slots = slots]
    BY DEF CombineOp
  <2> HIDE DEF a
  <2>2. QED BY <2>1 DEF MakeOp
<1>3. QED
  <2> HIDE DEF a
  <2>1. CombineOp(v, slots, w) \in Op
    BY <1>1, <1>2 DEF Op, Kinds, Types
  <2>2. QED BY <1>2, <2>1 DEF a

LEMMA ExtractOpFacts ==
  ASSUME NEW v \in Position, NEW k \in Int
  PROVE  LET o == ExtractOp(v, k) IN
         /\ o \in Op /\ o.kind = "extract" /\ o.type = "secret"
         /\ o.args = <<v>> /\ o.i = k
<1>1. <<v>> \in Seq(Position) /\ << >> \in Seq(Int)
  OBVIOUS
<1>2. ExtractOp(v, k) = [kind |-> "extract", type |-> "secret", args |-> <<v>>,
                         i |-> k, slots |-> << >>, val |-> NoLiteral]
  BY DEF ExtractOp, MakeIndexed, MakeOp
<1>3. QED BY <1>1, <1>2 DEF Op, Kinds, Types

LEMMA ConstantOpFacts ==
  ASSUME NEW type \in Types, NEW c \in Literal \cup {NoLiteral}
  PROVE  LET o == ConstantOp(type, c) IN
         /\ o \in Op /\ o.kind = "constant" /\ o.type = type
         /\ o.args = << >> /\ o.val = c
<1>1. << >> \in Seq(Position) /\ << >> \in Seq(Int)
  OBVIOUS
<1>2. ConstantOp(type, c) = [kind |-> "constant", type |-> type, args |-> << >>,
                             i |-> 0, slots |-> << >>, val |-> c]
  BY DEF ConstantOp, MakeOp
<1>3. QED BY <1>1, <1>2 DEF Op, Kinds
=============================================================================
