----------------------- MODULE FHECanonicalize_proofs -----------------------
(***************************************************************************)
(* Proofs about the canonicalizer, for every number of slots, every set of *)
(* programs and every arithmetic in which neutral elements are neutral.    *)
(* Nothing is assumed about the order of rewrites.                         *)
(***************************************************************************)
EXTENDS FHECanonicalize, HIRLemmas, StructureLemmas

\* The canonicalizer was given one of the programs, and never forgets which.
SourceKept == src \in Source

\* Operations may vanish, except returns; those that stay keep their types
\* and values, and what they are: only an insert may become a combine.
Descends ==
  /\ ReturnsOf(src.ops) \subseteq DOMAIN ops
  /\ \A x \in DOMAIN ops :
       /\ x \in DOMAIN src.ops
       /\ sem[x] = src.sem[x]
       /\ ops[x].type = src.ops[x].type
       /\ \/ ops[x].kind = src.ops[x].kind
          \/ src.ops[x].kind = "insert" /\ ops[x].kind = "combine"

\* The numbers of operands that the laws of arithmetic are about.
Counts == UNION {1 .. k : k \in OperandCounts}

\* What an operation needs to be evaluated, with or without types.
ShapeOK(o) ==
  /\ o.kind \in Arithmetic => Len(o.args) \in Counts
  /\ o.kind \notin Arithmetic \cup {"arg", "constant"} => 1 \in DOMAIN o.args
  /\ o.kind \in {"insert", "combine"} => 2 \in DOMAIN o.args
  /\ o.kind = "insert" => o.i \in Slots
  /\ o.kind = "combine" => Ascending(o.slots)

Shapes == \A x \in DOMAIN ops : ShapeOK(ops[x])

TypesStayUniform == UniformTypes(src.ops) => UniformTypes(ops)

\* As long as nothing is subtracted from zero, operations compute what they
\* are meant to, and nothing will ever be subtracted from zero.
NeverFromZero ==
  \A x \in DOMAIN ops : ops[x].kind = "sub" => sem[ops[x].args[1]] # Uniform(Zero)

Meaning == ~SubtractsFromZero(src) => Consistent(ops, sem) /\ NeverFromZero

\* The inductive invariant.
IInv ==
  /\ TypeOK
  /\ SourceKept
  /\ Descends
  /\ Shapes
  /\ TypesStayUniform
  /\ Meaning

-----------------------------------------------------------------------------
(* What the invariant says of one operation of the body. *)
LEMMA BodyFacts ==
  ASSUME IInv, NEW x \in DOMAIN ops
  PROVE  /\ x \in Position /\ ops[x] \in Op
         /\ ops[x].kind \in Kinds /\ ops[x].type \in Types
         /\ ops[x].args \in Seq(Position)
         /\ Len(ops[x].args) \in Nat
         /\ DOMAIN ops[x].args = 1 .. Len(ops[x].args)
         /\ \A k \in DOMAIN ops[x].args :
              ops[x].args[k] \in DOMAIN ops /\ Before(ops[x].args[k], x)
         /\ x \in DOMAIN sem /\ IsVector(sem[x])
         /\ ShapeOK(ops[x])
         /\ x \in DOMAIN src.ops /\ sem[x] = src.sem[x]
         /\ UniformTypes(src.ops) => WellTyped(ops, ops[x])
<1>1. /\ ops[x] \in Op /\ IsVector(sem[x]) /\ x \in DOMAIN sem
      /\ UniformTypes(src.ops) => WellTyped(ops, ops[x])
  BY DEF IInv, TypeOK
<1>2. ops[x].kind \in Kinds /\ ops[x].type \in Types /\ ops[x].args \in Seq(Position)
  BY <1>1 DEF Op
<1>3. x \in DOMAIN src.ops /\ sem[x] = src.sem[x]
  BY DEF IInv, Descends
<1>4. x \in Position
  BY <1>3, SourceAssumption DEF IInv, SourceKept, IsProgram, Position
<1>5. QED BY <1>1, <1>2, <1>3, <1>4 DEF IInv, TypeOK, DefinedBeforeUse, Shapes

(* An operation is not an operand of itself. *)
LEMMA NotBeforeItself ==
  ASSUME NEW x \in Position PROVE ~Before(x, x)
BY DEF Before, Position

-----------------------------------------------------------------------------
LEMMA InitIInv == Init => IInv
<1> SUFFICES ASSUME Init PROVE IInv
  OBVIOUS
<1>1. /\ IsProgram(src) /\ src \in Source /\ ops = src.ops /\ sem = src.sem
      /\ status = "running"
  BY SourceAssumption DEF Init
<1>2. TypeOK
  BY <1>1 DEF TypeOK, IsProgram
<1>3. Descends
  BY <1>1 DEF Descends, ReturnsOf
<1>4. Shapes
  <2> SUFFICES ASSUME NEW x \in DOMAIN ops PROVE ShapeOK(ops[x])
    BY DEF Shapes
  <2>1. ops[x] \in Op /\ WellTyped(ops, ops[x]) /\ ops[x].kind \in Kinds
    BY <1>1 DEF IsProgram, Op
  <2>2. Len(ops[x].args) \in OperandCounts
    BY <1>1 DEF OperandCounts
  <2>3. ops[x].kind \in Arithmetic => Len(ops[x].args) \in Counts
    <3>1. ops[x].kind \in Arithmetic => Len(ops[x].args) \in 1 .. Len(ops[x].args)
      BY <2>1, Arity
    <3>2. QED BY <2>2, <3>1 DEF Counts
  <2>4. ops[x].kind = "insert" => ops[x].i \in Slots
    BY <1>1 DEF IsProgram
  <2>5. ops[x].kind = "combine" => Ascending(ops[x].slots)
    BY <1>1, ListsAssumption
  <2>6. QED
    BY <2>1, <2>3, <2>4, <2>5, Arity DEF ShapeOK, Kinds, PlainArithmetic
<1>5. TypesStayUniform
  BY <1>1 DEF TypesStayUniform
<1>6. Meaning
  BY <1>1 DEF Meaning, NeverFromZero, SubtractsFromZero, IsProgram
<1>7. QED
  BY <1>1, <1>2, <1>3, <1>4, <1>5, <1>6 DEF IInv, SourceKept

-----------------------------------------------------------------------------
(* Replacing an operation by an operand that has its type and its value:   *)
(* nothing but the operation itself is lost.                               *)
LEMMA ReplaceByIInv ==
  ASSUME IInv, NEW x \in DOMAIN ops, NEW k \in DOMAIN ops[x].args,
         ops[x].kind # "return", ReplaceBy(x, ops[x].args[k]),
         UniformTypes(src.ops) => ops[ops[x].args[k]].type = ops[x].type,
         ~SubtractsFromZero(src) => sem[ops[x].args[k]] = sem[x]
  PROVE  IInv'
<1> DEFINE y == ops[x].args[k]
           R(u) == ReplaceOperand(ops[u], x, y)
<1>1. /\ x \in Position /\ y \in DOMAIN ops /\ y \in Position /\ Before(y, x) /\ y # x
  BY BodyFacts, NotBeforeItself
<1>2. /\ DOMAIN ops' = DOMAIN ops \ {x} /\ DOMAIN sem' = DOMAIN ops \ {x}
      /\ \A u \in DOMAIN ops \ {x} : ops'[u] = R(u) /\ sem'[u] = sem[u]
      /\ src' = src /\ status' = status
  BY DEF ReplaceBy, Erased, ReplaceAllUses, IInv, TypeOK
<1> HIDE DEF y
<1>3. ASSUME NEW u \in DOMAIN ops
      PROVE  /\ R(u) \in Op
             /\ R(u).kind = ops[u].kind /\ R(u).type = ops[u].type /\ R(u).i = ops[u].i
             /\ R(u).slots = ops[u].slots /\ R(u).val = ops[u].val
             /\ DOMAIN R(u).args = DOMAIN ops[u].args
             /\ Len(R(u).args) = Len(ops[u].args)
             /\ \A m \in DOMAIN ops[u].args :
                  /\ R(u).args[m] = IF ops[u].args[m] = x THEN y ELSE ops[u].args[m]
                  /\ R(u).args[m] \in DOMAIN ops \ {x}
                  /\ Before(R(u).args[m], u)
  <2>1. /\ ops[u] \in Op /\ u \in Position
        /\ \A m \in DOMAIN ops[u].args :
             /\ ops[u].args[m] \in DOMAIN ops /\ ops[u].args[m] \in Position
             /\ Before(ops[u].args[m], u)
    BY BodyFacts
  <2>2. /\ R(u) \in Op
        /\ R(u).kind = ops[u].kind /\ R(u).type = ops[u].type /\ R(u).i = ops[u].i
        /\ R(u).slots = ops[u].slots /\ R(u).val = ops[u].val
        /\ DOMAIN R(u).args = DOMAIN ops[u].args
        /\ Len(R(u).args) = Len(ops[u].args)
        /\ \A m \in DOMAIN ops[u].args :
             R(u).args[m] = IF ops[u].args[m] = x THEN y ELSE ops[u].args[m]
    BY <1>1, <2>1, ReplaceOperandFacts
  <2>3. ASSUME NEW m \in DOMAIN ops[u].args
        PROVE  R(u).args[m] \in DOMAIN ops \ {x} /\ Before(R(u).args[m], u)
    BY <1>1, <2>1, <2>2, BeforeTransitive
  <2> HIDE DEF R
  <2>4. QED BY <2>2, <2>3
<1> HIDE DEF R
<1>4. TypeOK'
  <2>1. ASSUME NEW u \in DOMAIN ops \ {x}, UniformTypes(src.ops)
        PROVE  WellTyped(ops', ops'[u])
    <3>1. WellTyped(ops, ops[u]) /\ ops[u].kind \in Kinds
          /\ ops[u].args \in Seq(Position) /\ R(u).args \in Seq(Position)
      BY <1>3, <2>1, BodyFacts DEF Op
    <3>2. \A m \in DOMAIN ops[u].args : ops[ops[u].args[m]].type = ops'[R(u).args[m]].type
      <4>1. y \in DOMAIN ops \ {x} /\ ops[y].type = ops[x].type
        BY <1>1, <2>1 DEF y
      <4>2. QED BY <1>2, <1>3, <4>1
    <3>3. WellTyped(ops', R(u))
      BY <1>3, <3>1, <3>2, WellTypedAgrees
    <3>4. QED BY <1>2, <3>3
  <2>2. DefinedBeforeUse(ops')
    BY <1>2, <1>3 DEF DefinedBeforeUse
  <2>3. \A u \in DOMAIN ops \ {x} : ops'[u] \in Op /\ IsVector(sem'[u])
    BY <1>2, <1>3, BodyFacts
  <2>4. status' \in {"running", "undefined"}
    BY <1>2 DEF IInv, TypeOK
  <2>5. QED BY <1>2, <2>1, <2>2, <2>3, <2>4 DEF TypeOK
<1>5. SourceKept'
  BY <1>2 DEF IInv, SourceKept
<1>6. Descends'
  <2>1. x \notin ReturnsOf(src.ops)
    BY DEF IInv, Descends, ReturnsOf
  <2>2. QED BY <1>2, <1>3, <2>1 DEF IInv, Descends
<1>7. Shapes'
  BY <1>2, <1>3, BodyFacts DEF Shapes, ShapeOK
<1>8. TypesStayUniform'
  <2> SUFFICES ASSUME UniformTypes(src.ops), NEW u \in DOMAIN ops \ {x},
                      ops'[u].kind \in Arithmetic, NEW m \in DOMAIN ops'[u].args
               PROVE  ops'[ops'[u].args[m]].type = ops'[u].type
    BY <1>2 DEF TypesStayUniform, UniformTypes
  <2>1. UniformTypes(ops)
    BY DEF IInv, TypesStayUniform
  <2>2. m \in DOMAIN ops[u].args /\ ops[u].kind \in Arithmetic
    BY <1>2, <1>3
  <2>3. ops[ops[u].args[m]].type = ops[u].type
    BY <2>1, <2>2 DEF UniformTypes
  <2>4. ops[y].type = ops[x].type /\ y \in DOMAIN ops \ {x}
    BY <1>1 DEF y
  <2>5. ops'[R(u).args[m]].type = ops[ops[u].args[m]].type
    BY <1>2, <1>3, <2>2, <2>4
  <2>6. QED BY <1>2, <1>3, <2>3, <2>5
<1>9. Meaning'
  <2> SUFFICES ASSUME ~SubtractsFromZero(src) PROVE Consistent(ops', sem') /\ NeverFromZero'
    BY <1>2 DEF Meaning
  <2>1. Consistent(ops, sem) /\ NeverFromZero
    BY DEF IInv, Meaning
  <2>2. sem[y] = sem[x]
    BY DEF y
  <2>3. \A u \in DOMAIN ops : \A m \in DOMAIN ops[u].args :
          sem'[R(u).args[m]] = sem[ops[u].args[m]]
    BY <1>2, <1>3, <2>2
  <2>4. ASSUME NEW u \in DOMAIN ops \ {x}, ops'[u].kind # "arg"
        PROVE  sem'[u] = Eval(ops'[u], sem')
    <3>1. ops[u].kind \in Kinds \ {"arg"}
      BY <1>2, <1>3, <2>4, BodyFacts
    <3>2. ShapeOK(ops[u])
      BY BodyFacts
    <3>3. Eval(ops[u], sem) = Eval(R(u), sem')
      BY <1>3, <2>3, <3>1, <3>2, EvalAgrees DEF ShapeOK
    <3>4. sem[u] = Eval(ops[u], sem)
      BY <2>1, <3>1 DEF Consistent
    <3>5. QED BY <1>2, <3>3, <3>4
  <2>5. ASSUME NEW u \in DOMAIN ops \ {x}, ops'[u].kind = "sub"
        PROVE  sem'[ops'[u].args[1]] # Uniform(Zero)
    <3>1. ops[u].kind = "sub" /\ 1 \in DOMAIN ops[u].args
      <4>1. ops[u].kind = "sub"
        BY <1>2, <1>3, <2>5
      <4>2. Len(ops[u].args) \in Counts
        BY <4>1, BodyFacts DEF ShapeOK, Arithmetic
      <4>3. QED BY <4>1, <4>2, BodyFacts DEF Counts
    <3>2. QED BY <1>2, <2>1, <2>3, <3>1 DEF NeverFromZero
  <2>6. QED BY <1>2, <2>4, <2>5 DEF Consistent, NeverFromZero
<1>10. QED
  BY <1>4, <1>5, <1>6, <1>7, <1>8, <1>9 DEF IInv

-----------------------------------------------------------------------------
(* An operation that nobody uses can go. *)
LEMMA EraseDeadIInv ==
  ASSUME IInv, NEW x \in DOMAIN ops, EraseDead(x) PROVE IInv'
<1>1. /\ DOMAIN ops' = DOMAIN ops \ {x} /\ DOMAIN sem' = DOMAIN ops \ {x}
      /\ \A u \in DOMAIN ops \ {x} : ops'[u] = ops[u] /\ sem'[u] = sem[u]
      /\ src' = src /\ status' = status /\ ops[x].kind # "return"
  BY DEF EraseDead, Dead, Erased, IInv, TypeOK
<1>2. \A u \in DOMAIN ops : \A k \in DOMAIN ops[u].args : ops[u].args[k] \in DOMAIN ops \ {x}
  BY BodyFacts DEF EraseDead, Dead, Users
<1>3. \A u \in DOMAIN ops : \A k \in DOMAIN ops[u].args :
        /\ ops'[ops[u].args[k]] = ops[ops[u].args[k]]
        /\ sem'[ops[u].args[k]] = sem[ops[u].args[k]]
  BY <1>1, <1>2
<1>4. TypeOK'
  <2>1. ASSUME NEW u \in DOMAIN ops \ {x}, UniformTypes(src.ops)
        PROVE  WellTyped(ops', ops'[u])
    <3>1. WellTyped(ops, ops[u])
      BY <2>1, BodyFacts
    <3>2. WellTyped(ops', ops[u])
      BY <1>3, <3>1, SameTypesSuffice
    <3>3. QED BY <1>1, <3>2
  <2>2. DefinedBeforeUse(ops')
    BY <1>1, <1>2, BodyFacts DEF DefinedBeforeUse
  <2>3. \A u \in DOMAIN ops \ {x} : ops'[u] \in Op /\ IsVector(sem'[u])
    BY <1>1, BodyFacts
  <2>4. status' \in {"running", "undefined"}
    BY <1>1 DEF IInv, TypeOK
  <2>5. QED BY <1>1, <2>1, <2>2, <2>3, <2>4 DEF TypeOK
<1>5. Descends'
  <2>1. x \notin ReturnsOf(src.ops)
    BY <1>1 DEF IInv, Descends, ReturnsOf
  <2>2. QED BY <1>1, <2>1 DEF IInv, Descends
<1>6. Shapes'
  BY <1>1, BodyFacts DEF Shapes
<1>7. TypesStayUniform'
  BY <1>1, <1>3 DEF IInv, TypesStayUniform, UniformTypes
<1>8. Meaning'
  <2> SUFFICES ASSUME ~SubtractsFromZero(src) PROVE Consistent(ops', sem') /\ NeverFromZero'
    BY <1>1 DEF Meaning
  <2>1. Consistent(ops, sem) /\ NeverFromZero
    BY DEF IInv, Meaning
  <2>2. ASSUME NEW u \in DOMAIN ops \ {x}, ops'[u].kind # "arg"
        PROVE  sem'[u] = Eval(ops'[u], sem')
    <3>1. ops[u].kind \in Kinds \ {"arg"} /\ ShapeOK(ops[u])
      BY <1>1, <2>2, BodyFacts
    <3>2. Eval(ops[u], sem) = Eval(ops[u], sem')
      BY <1>3, <3>1, EvalAgrees DEF ShapeOK
    <3>3. sem[u] = Eval(ops[u], sem)
      BY <2>1, <3>1 DEF Consistent
    <3>4. QED BY <1>1, <3>2, <3>3
  <2>3. ASSUME NEW u \in DOMAIN ops \ {x}, ops'[u].kind = "sub"
        PROVE  sem'[ops'[u].args[1]] # Uniform(Zero)
    <3>1. 1 \in DOMAIN ops[u].args
      BY <1>1, <2>3, BodyFacts DEF ShapeOK, Arithmetic, Counts
    <3>2. QED BY <1>1, <1>3, <2>1, <2>3, <3>1 DEF NeverFromZero
  <2>4. QED BY <1>1, <2>2, <2>3 DEF Consistent, NeverFromZero
<1>9. QED
  BY <1>1, <1>4, <1>5, <1>6, <1>7, <1>8 DEF IInv, SourceKept

(* Replacing an operation, in place, by one that has its type, refers to   *)
(* what comes before it and computes the same value.                       *)
LEMMA RewriteIInv ==
  ASSUME IInv, NEW x \in DOMAIN ops, NEW o \in Op, Rewrite(x, o),
         o.type = ops[x].type, ShapeOK(o), o.kind \notin {"arg", "return"},
         \/ o.kind = ops[x].kind
         \/ ops[x].kind = "insert" /\ o.kind = "combine",
         \A k \in DOMAIN o.args : o.args[k] \in DOMAIN ops /\ Before(o.args[k], x),
         UniformTypes(src.ops) => WellTyped(ops, o),
         UniformTypes(src.ops) /\ o.kind \in Arithmetic
           => \A k \in DOMAIN o.args : ops[o.args[k]].type = o.type,
         ~SubtractsFromZero(src) => /\ Eval(o, sem) = sem[x]
                                    /\ o.kind = "sub" => sem[o.args[1]] # Uniform(Zero)
  PROVE  IInv'
<1>1. /\ DOMAIN ops' = DOMAIN ops /\ ops'[x] = o /\ sem' = sem /\ DOMAIN sem = DOMAIN ops
      /\ \A u \in DOMAIN ops : u # x => ops'[u] = ops[u]
      /\ \A u \in DOMAIN ops : ops'[u].type = ops[u].type
      /\ src' = src /\ status' = status
  BY DEF Rewrite, IInv, TypeOK
<1>2. TypeOK'
  <2>1. ASSUME NEW u \in DOMAIN ops, UniformTypes(src.ops)
        PROVE  WellTyped(ops', ops'[u])
    <3>1. WellTyped(ops, ops'[u])
      BY <1>1, <2>1, BodyFacts
    <3>2. \A k \in DOMAIN ops'[u].args : ops'[u].args[k] \in DOMAIN ops
      BY <1>1, BodyFacts
    <3>3. QED BY <1>1, <3>1, <3>2, SameTypesSuffice
  <2>2. DefinedBeforeUse(ops')
    BY <1>1, BodyFacts DEF DefinedBeforeUse
  <2>3. \A u \in DOMAIN ops : ops'[u] \in Op /\ IsVector(sem'[u])
    BY <1>1, BodyFacts
  <2>4. status' \in {"running", "undefined"}
    BY <1>1 DEF IInv, TypeOK
  <2>5. QED BY <1>1, <2>1, <2>2, <2>3, <2>4 DEF TypeOK
<1>3. Descends'
  <2>1. /\ ReturnsOf(src.ops) \subseteq DOMAIN ops
        /\ \A u \in DOMAIN ops :
             /\ u \in DOMAIN src.ops /\ sem[u] = src.sem[u] /\ ops[u].type = src.ops[u].type
             /\ \/ ops[u].kind = src.ops[u].kind
                \/ src.ops[u].kind = "insert" /\ ops[u].kind = "combine"
    BY DEF IInv, Descends
  <2>2. \/ o.kind = src.ops[x].kind
        \/ src.ops[x].kind = "insert" /\ o.kind = "combine"
    BY <2>1
  <2>3. QED BY <1>1, <2>1, <2>2 DEF Descends
<1>4. Shapes'
  BY <1>1, BodyFacts DEF Shapes
<1>5. TypesStayUniform'
  <2> SUFFICES ASSUME UniformTypes(src.ops), NEW u \in DOMAIN ops,
                      ops'[u].kind \in Arithmetic, NEW k \in DOMAIN ops'[u].args
               PROVE  ops'[ops'[u].args[k]].type = ops'[u].type
    BY <1>1 DEF TypesStayUniform, UniformTypes
  <2>1. UniformTypes(ops)
    BY DEF IInv, TypesStayUniform
  <2>2. ops'[u].args[k] \in DOMAIN ops
    BY <1>1, BodyFacts
  <2>3. CASE u = x
    BY <1>1, <2>2, <2>3
  <2>4. CASE u # x
    BY <1>1, <2>1, <2>2, <2>4 DEF UniformTypes
  <2>5. QED BY <2>3, <2>4
<1>6. Meaning'
  BY <1>1 DEF IInv, Meaning, Consistent, NeverFromZero
<1>7. QED
  BY <1>1, <1>2, <1>3, <1>4, <1>5, <1>6 DEF IInv, SourceKept

-----------------------------------------------------------------------------
(* Rotations. *)

(* A rotation by nothing and one around the whole vector change nothing.   *)
LEMMA RotateByNothing ==
  ASSUME NEW v, IsVector(v) PROVE Rotate(v, 0) = v
<1>1. \A s \in Slots : (s - 0) % N = s
  BY IndexNamesSlot
<1>2. QED BY <1>1 DEF Rotate, IsVector

LEMMA RotateAround ==
  ASSUME NEW v, NEW i \in Int PROVE Rotate(v, N + i) = Rotate(v, i)
<1>1. \A s \in Slots : (s - (N + i)) % N = (s - i) % N
  <2> SUFFICES ASSUME NEW s \in Slots PROVE (s - (N + i)) % N = (s - i) % N
    OBVIOUS
  <2>1. s \in Int /\ N \in Int
    BY IndexNamesSlot, NAssumption
  <2>2. s - i \in Int /\ s - (N + i) = (s - i) - N
    BY <2>1
  <2>3. QED BY <2>2, IndexWrapsAround
<1>2. QED BY <1>1 DEF Rotate

LEMMA FoldRotateIInv ==
  ASSUME IInv, NEW x \in DOMAIN ops, FoldRotate(x) PROVE IInv'
<1>1. ops[x].kind = "rotate" /\ ops[x].i = 0 /\ ReplaceBy(x, ops[x].args[1])
  BY DEF FoldRotate, IsKind
<1>2. 1 \in DOMAIN ops[x].args
  BY <1>1, BodyFacts DEF ShapeOK, Arithmetic
<1>3. UniformTypes(src.ops) => ops[ops[x].args[1]].type = ops[x].type
  <2>1. UniformTypes(src.ops) => WellTyped(ops, ops[x])
    BY BodyFacts
  <2>2. QED BY <1>1, <1>2, <2>1 DEF WellTyped, ArgTypes
<1>4. ~SubtractsFromZero(src) => sem[ops[x].args[1]] = sem[x]
  <2> SUFFICES ASSUME ~SubtractsFromZero(src) PROVE sem[ops[x].args[1]] = sem[x]
    OBVIOUS
  <2>1. sem[x] = Eval(ops[x], sem)
    BY <1>1 DEF IInv, Meaning, Consistent
  <2>2. IsVector(sem[ops[x].args[1]])
    BY <1>2, BodyFacts
  <2>3. QED BY <1>1, <2>1, <2>2, EvalByKind, RotateByNothing
<1>5. QED BY <1>1, <1>2, <1>3, <1>4, ReplaceByIInv

LEMMA WrapRotateIInv ==
  ASSUME IInv, NEW x \in DOMAIN ops, WrapRotate(x) PROVE IInv'
<1> DEFINE o == [ops[x] EXCEPT !.i = Wrapped(@)]
<1>1. ops[x].kind = "rotate" /\ Rewrite(x, o) /\ ops[x] \in Op /\ ops[x].i \in Int
  BY BodyFacts DEF WrapRotate, IsKind, Op
<1>2. /\ o.kind = "rotate" /\ o.type = ops[x].type /\ o.args = ops[x].args
      /\ o.i = N + ops[x].i /\ o.i \in Int /\ o \in Op
  <2>1. N + ops[x].i \in Int
    BY <1>1, NAssumption
  <2>2. o = [ops[x] EXCEPT !.i = N + ops[x].i]
    BY DEF Wrapped
  <2>3. QED BY <1>1, <2>1, <2>2 DEF Op
<1> HIDE DEF o
<1>3. ShapeOK(o)
  BY <1>1, <1>2, BodyFacts DEF ShapeOK, Arithmetic
<1>4. UniformTypes(src.ops) => WellTyped(ops, o)
  <2> SUFFICES ASSUME UniformTypes(src.ops) PROVE WellTyped(ops, o)
    OBVIOUS
  <2>1. WellTyped(ops, ops[x]) /\ ops[x].args \in Seq(Position) /\ ops[x].kind \in Kinds
    BY BodyFacts
  <2>2. QED BY <1>1, <1>2, <2>1, WellTypedAgrees
<1>5. ~SubtractsFromZero(src) => Eval(o, sem) = sem[x]
  <2> SUFFICES ASSUME ~SubtractsFromZero(src) PROVE Eval(o, sem) = sem[x]
    OBVIOUS
  <2>1. sem[x] = Eval(ops[x], sem)
    BY <1>1 DEF IInv, Meaning, Consistent
  <2>2. Eval(ops[x], sem) = Rotate(sem[ops[x].args[1]], ops[x].i)
    BY <1>1, EvalByKind
  <2>3. Eval(o, sem) = Rotate(sem[ops[x].args[1]], N + ops[x].i)
    BY <1>2, EvalByKind
  <2>4. QED BY <1>1, <2>1, <2>2, <2>3, RotateAround
<1>6. QED
  BY <1>1, <1>2, <1>3, <1>4, <1>5, BodyFacts, RewriteIInv DEF Arithmetic

-----------------------------------------------------------------------------
(* Combines. *)

(* A combine whose list names every slot is a copy of its first vector.    *)
LEMMA FoldCombineIInv ==
  ASSUME IInv, NEW x \in DOMAIN ops, FoldCombine(x) PROVE IInv'
<1> DEFINE o == ops[x]
           v == sem[o.args[1]]
<1>1. /\ o.kind = "combine" /\ ReplaceBy(x, o.args[1])
      /\ Len(o.slots) = N /\ o.slots[1] = 0
  BY DEF FoldCombine, Covers, IsKind
<1>2. /\ 1 \in DOMAIN o.args /\ Ascending(o.slots) /\ o.slots \in Seq(Int)
      /\ (UniformTypes(src.ops) => WellTyped(ops, o))
  BY <1>1, BodyFacts DEF ShapeOK, Arithmetic, Op
<1>3. UniformTypes(src.ops) => ops[o.args[1]].type = o.type
  BY <1>1, <1>2 DEF WellTyped, ArgTypes
<1>4. ~SubtractsFromZero(src) => v = sem[x]
  <2> SUFFICES ASSUME ~SubtractsFromZero(src) PROVE v = sem[x]
    OBVIOUS
  <2>1. sem[x] = Eval(o, sem)
    BY <1>1 DEF IInv, Meaning, Consistent
  <2>2. sem[x] = Combine(v, {o.slots[k] : k \in DOMAIN o.slots}, sem[o.args[2]])
    BY <1>1, <2>1, EvalCombine DEF Listed
  <2>3. sem[x] = Combine(v, Slots, sem[o.args[2]])
    BY <1>1, <1>2, <2>2, ListsAllSlots
  <2>4. Combine(v, Slots, sem[o.args[2]]) = [s \in Slots |-> v[s]]
    BY DEF Combine
  <2>5. IsVector(v)
    BY <1>2, BodyFacts
  <2>6. QED BY <2>3, <2>4, <2>5 DEF IsVector
<1>5. QED BY <1>1, <1>2, <1>3, <1>4, ReplaceByIInv

(* Inserting what was extracted from the same slot copies that slot.       *)
LEMMA CopiedSlot ==
  ASSUME NEW v, NEW w, NEW i \in Slots
  PROVE  Insert(Extract(v, i), w, i) = Combine(v, {i}, w)
<1>1. i % N = i
  BY IndexNamesSlot
<1>2. QED BY <1>1 DEF Insert, Extract, Combine, Uniform, Read

LEMMA InsertToCombineIInv ==
  ASSUME IInv, NEW x \in DOMAIN ops, InsertToCombine(x) PROVE IInv'
<1> DEFINE e == ops[x].args[1]
           v == ops[e].args[1]
           w == ops[x].args[2]
           i == ops[x].i
           o == CombineOp(v, <<i>>, w)
<1>1. ops[x].kind = "insert" /\ ops[e].kind = "extract" /\ ops[e].i = i /\ Rewrite(x, o)
  BY DEF InsertToCombine, MatchesSlot, IsKind
<1>2. 1 \in DOMAIN ops[x].args /\ 2 \in DOMAIN ops[x].args /\ i \in Slots
  BY <1>1, BodyFacts DEF ShapeOK, Arithmetic
<1>3. e \in DOMAIN ops /\ w \in DOMAIN ops /\ Before(e, x) /\ Before(w, x)
  BY <1>2, BodyFacts
<1>4. 1 \in DOMAIN ops[e].args
  BY <1>1, <1>3, BodyFacts DEF ShapeOK, Arithmetic
<1>5. v \in DOMAIN ops /\ Before(v, e)
  BY <1>3, <1>4, BodyFacts
<1>6. /\ x \in Position /\ e \in Position /\ v \in Position /\ w \in Position
      /\ Before(v, x)
  <2>1. x \in Position /\ e \in Position /\ v \in Position /\ w \in Position
    BY <1>3, <1>5, BodyFacts
  <2>2. QED BY <1>3, <1>5, <2>1, BeforeTransitive
<1>7. i \in Int /\ <<i>> \in Seq(Int)
  BY <1>2, IndexNamesSlot
<1> HIDE DEF v, w, e, i
<1>8. /\ o \in Op /\ o.kind = "combine" /\ o.type = "batched"
      /\ o.args = <<v, w>> /\ o.slots = <<i>>
  <2> DEFINE l == <<i>>
  <2>1. l \in Seq(Int)
    BY <1>7
  <2> HIDE DEF l
  <2>2. /\ CombineOp(v, l, w) \in Op /\ CombineOp(v, l, w).kind = "combine"
        /\ CombineOp(v, l, w).type = "batched"
        /\ CombineOp(v, l, w).args = <<v, w>> /\ CombineOp(v, l, w).slots = l
    BY <1>6, <2>1, CombineOpFacts
  <2>3. QED BY <2>2 DEF l
<1> HIDE DEF o
<1>9. o.type = ops[x].type
  <2>1. /\ x \in DOMAIN src.ops /\ src.ops[x].kind = "insert"
        /\ ops[x].type = src.ops[x].type
    BY <1>1 DEF IInv, Descends
  <2>2. WellTyped(src.ops, src.ops[x])
    BY <2>1, SourceAssumption DEF IInv, SourceKept, IsProgram
  <2>3. QED BY <1>8, <2>1, <2>2 DEF WellTyped
<1>10. DOMAIN o.args = {1, 2} /\ o.args[1] = v /\ o.args[2] = w
  BY <1>8
<1>11. ShapeOK(o)
  <2>1. Ascending(o.slots)
    BY <1>7, <1>8 DEF Ascending
  <2>2. QED BY <1>8, <1>10, <2>1 DEF ShapeOK, Arithmetic
<1>12. UniformTypes(src.ops) => WellTyped(ops, o)
  <2> SUFFICES ASSUME UniformTypes(src.ops) PROVE WellTyped(ops, o)
    OBVIOUS
  <2>1. ops[v].type = "batched"
    <3>1. WellTyped(ops, ops[e])
      BY <1>3, BodyFacts
    <3>2. QED BY <1>1, <1>4, <3>1 DEF WellTyped, ArgTypes, v
  <2>2. ops[w].type = "batched"
    <3>1. WellTyped(ops, ops[x])
      BY BodyFacts
    <3>2. QED BY <1>1, <1>2, <3>1 DEF WellTyped, ArgTypes, w
  <2>3. ArgTypes(ops, o) = <<"batched", "batched">>
    BY <1>8, <2>1, <2>2 DEF ArgTypes
  <2>4. QED BY <1>8, <2>3 DEF WellTyped, Arithmetic, PlainArithmetic
<1>13. ~SubtractsFromZero(src) => Eval(o, sem) = sem[x]
  <2> SUFFICES ASSUME ~SubtractsFromZero(src) PROVE Eval(o, sem) = sem[x]
    OBVIOUS
  <2>1. Consistent(ops, sem)
    BY DEF IInv, Meaning
  <2>2. sem[x] = Insert(sem[e], sem[w], i)
    <3>1. sem[x] = Eval(ops[x], sem)
      BY <1>1, <2>1 DEF Consistent
    <3>2. QED BY <1>1, <3>1, EvalInsert DEF e, w, i
  <2>3. sem[e] = Extract(sem[v], i)
    <3>1. sem[e] = Eval(ops[e], sem)
      BY <1>1, <1>3, <2>1 DEF Consistent
    <3>2. QED BY <1>1, <3>1, EvalByKind DEF v
  <2>4. Listed(o) = {i}
    BY <1>8 DEF Listed
  <2>5. Eval(o, sem) = Combine(sem[v], {i}, sem[w])
    BY <1>8, <1>10, <2>4, EvalCombine
  <2>6. QED BY <1>2, <2>2, <2>3, <2>5, CopiedSlot
<1>14. \A k \in DOMAIN o.args : o.args[k] \in DOMAIN ops /\ Before(o.args[k], x)
  BY <1>3, <1>5, <1>6, <1>10
<1>15. QED
  BY <1>1, <1>8, <1>9, <1>11, <1>12, <1>13, <1>14, RewriteIInv DEF Arithmetic

-----------------------------------------------------------------------------
(* Arithmetic. *)

\* Where the operands are that are kept.
KeptIndices(o) ==
  {k \in DOMAIN o.args :
     ~(ops[o.args[k]].kind = "constant" /\ ops[o.args[k]].val = Neutral(o.kind))}

(* The operands that are kept are operands, in the same order. *)
LEMMA KeptFacts ==
  ASSUME IInv, NEW x \in DOMAIN ops
  PROVE  LET o == ops[x] IN
         /\ KeptIndices(o) \in SUBSET (1 .. Len(o.args))
         /\ Kept(o) = Picked(o.args, KeptIndices(o))
         /\ Kept(o) \in Seq(Position) /\ Len(Kept(o)) \in 0 .. Len(o.args)
         /\ Len(Kept(o)) = Cardinality(KeptIndices(o))
         /\ DOMAIN Kept(o) = 1 .. Len(Kept(o))
         /\ \A m \in DOMAIN Kept(o) :
              Nth(KeptIndices(o), m) \in DOMAIN o.args /\ Kept(o)[m] = o.args[Nth(KeptIndices(o), m)]
<1> DEFINE o == ops[x]
           K == KeptIndices(o)
<1>1. o.args \in Seq(Position) /\ Len(o.args) \in Nat /\ DOMAIN o.args = 1 .. Len(o.args)
  BY BodyFacts
<1>2. K \in SUBSET DOMAIN o.args
  BY DEF KeptIndices
<1>3. Kept(o) = Picked(o.args, K)
  BY DEF Kept, KeptIndices
<1> HIDE DEF o, K
<1>4. /\ Picked(o.args, K) \in Seq(Position)
      /\ Len(Picked(o.args, K)) = Cardinality(K) /\ Cardinality(K) \in Nat
      /\ Cardinality(K) <= Len(o.args)
      /\ DOMAIN Picked(o.args, K) = 1 .. Cardinality(K)
      /\ \A m \in DOMAIN Picked(o.args, K) :
           Nth(K, m) \in K /\ Picked(o.args, K)[m] = o.args[Nth(K, m)]
  BY <1>1, <1>2, PickedFacts
<1>5. /\ K \in SUBSET (1 .. Len(o.args))
      /\ Kept(o) = Picked(o.args, K)
      /\ Kept(o) \in Seq(Position) /\ Len(Kept(o)) \in 0 .. Len(o.args)
      /\ Len(Kept(o)) = Cardinality(K)
      /\ DOMAIN Kept(o) = 1 .. Len(Kept(o))
      /\ \A m \in DOMAIN Kept(o) : Nth(K, m) \in DOMAIN o.args /\ Kept(o)[m] = o.args[Nth(K, m)]
  BY <1>1, <1>2, <1>3, <1>4
<1>6. QED BY <1>5 DEF o, K

(* What is dropped is neutral, and a difference keeps what it subtracts    *)
(* from.                                                                   *)
LEMMA DroppedIsNeutral ==
  ASSUME IInv, ~SubtractsFromZero(src), NEW x \in DOMAIN ops, ops[x].kind \in Arithmetic
  PROVE  /\ \A k \in DOMAIN ops[x].args \ KeptIndices(ops[x]) :
              sem[ops[x].args[k]] = Uniform(Neutral(ops[x].kind))
         /\ ops[x].kind = "sub" => 1 \in KeptIndices(ops[x])
<1>1. Consistent(ops, sem) /\ NeverFromZero
  BY DEF IInv, Meaning
<1>2. ASSUME NEW k \in DOMAIN ops[x].args \ KeptIndices(ops[x])
      PROVE  sem[ops[x].args[k]] = Uniform(Neutral(ops[x].kind))
  <2>1. /\ ops[x].args[k] \in DOMAIN ops /\ ops[ops[x].args[k]].kind = "constant"
        /\ ops[ops[x].args[k]].val = Neutral(ops[x].kind)
    BY <1>2, BodyFacts DEF KeptIndices
  <2>2. sem[ops[x].args[k]] = Eval(ops[ops[x].args[k]], sem)
    BY <1>1, <2>1 DEF Consistent
  <2>3. QED BY <2>1, <2>2, EvalByKind
<1>3. 1 \in DOMAIN ops[x].args
  BY BodyFacts DEF ShapeOK, Counts
<1>4. ASSUME ops[x].kind = "sub" PROVE 1 \in KeptIndices(ops[x])
  <2>1. Neutral(ops[x].kind) = Zero
    BY <1>4 DEF Neutral
  <2>2. sem[ops[x].args[1]] # Uniform(Zero)
    BY <1>1, <1>4 DEF NeverFromZero
  <2>3. QED BY <1>2, <1>3, <2>1, <2>2
<1>5. QED BY <1>2, <1>4

(* What operands are left compute what all of them do. *)
LEMMA KeptComputesTheSame ==
  ASSUME IInv, ~SubtractsFromZero(src), NEW x \in DOMAIN ops, ops[x].kind \in Arithmetic,
         Len(Kept(ops[x])) # 0
  PROVE  LET ys == Kept(ops[x]) IN
         /\ Lift(ops[x].kind, [m \in DOMAIN ys |-> sem[ys[m]]]) = sem[x]
         /\ ops[x].kind = "sub" => ys[1] = ops[x].args[1]
<1> DEFINE o == ops[x]
           K == KeptIndices(o)
           n == Len(o.args)
           ys == Kept(o)
           xs(s) == [k \in 1 .. n |-> sem[o.args[k]][s]]
<1>1. /\ K \in SUBSET (1 .. n) /\ n \in Nat /\ DOMAIN o.args = 1 .. n
      /\ DOMAIN ys = 1 .. Cardinality(K) /\ Cardinality(K) # 0
      /\ \A m \in 1 .. Cardinality(K) : Nth(K, m) \in 1 .. n /\ ys[m] = o.args[Nth(K, m)]
  BY KeptFacts, BodyFacts
<1>2. /\ \A k \in (1 .. n) \ K : sem[o.args[k]] = Uniform(Neutral(o.kind))
      /\ o.kind = "sub" => 1 \in K
  BY <1>1, DroppedIsNeutral
<1>3. n \in Counts /\ o.kind \in Arithmetic
  BY BodyFacts DEF ShapeOK
<1>4. src \in Source /\ \A k \in 1 .. n : sem[o.args[k]] = src.sem[o.args[k]]
                                         /\ o.args[k] \in DOMAIN src.ops
  BY <1>1, BodyFacts DEF IInv, SourceKept
<1> HIDE DEF K, ys
<1>5. K # {}
  BY <1>1, IndicesFinite
<1> HIDE DEF o, n
<1>6. \A s \in Slots : Apply(o.kind, Picked(xs(s), K)) = Apply(o.kind, xs(s))
  <2> SUFFICES ASSUME NEW s \in Slots
               PROVE  Apply(o.kind, Picked(xs(s), K)) = Apply(o.kind, xs(s))
    OBVIOUS
  <2>1. \A k \in 1 .. n : sem[o.args[k]][s] \in Scalars
    BY <1>4 DEF Scalars
  <2>2. xs(s) \in [1 .. n -> Scalars]
    BY <2>1
  <2>3. \A k \in (1 .. n) \ K : xs(s)[k] = Neutral(o.kind)
    BY <1>2 DEF Uniform
  <2> HIDE DEF xs
  <2>4. n \in UNION {1 .. k : k \in OperandCounts}
    BY <1>3 DEF Counts
  <2>5. QED BY <1>1, <1>2, <1>3, <1>5, <2>2, <2>3, <2>4, NeutralAssumption
<1>7. \A s \in Slots : Picked(xs(s), K) = [m \in DOMAIN ys |-> sem[ys[m]][s]]
  BY <1>1 DEF Picked
<1>8. sem[x] = Lift(o.kind, [k \in 1 .. n |-> sem[o.args[k]]])
  <2>1. sem[x] = Eval(o, sem)
    BY <1>3 DEF IInv, Meaning, Consistent, Arithmetic, o
  <2>2. QED BY <1>1, <1>3, <2>1, EvalByKind
<1>9. \A s \in Slots : Lift(o.kind, [m \in DOMAIN ys |-> sem[ys[m]]])[s] = sem[x][s]
  <2> SUFFICES ASSUME NEW s \in Slots
               PROVE  Lift(o.kind, [m \in DOMAIN ys |-> sem[ys[m]]])[s] = sem[x][s]
    OBVIOUS
  <2>1. Lift(o.kind, [m \in DOMAIN ys |-> sem[ys[m]]])[s]
          = Apply(o.kind, [m \in DOMAIN ys |-> sem[ys[m]][s]])
    <3>1. [j \in DOMAIN [m \in DOMAIN ys |-> sem[ys[m]]] |-> [m \in DOMAIN ys |-> sem[ys[m]]][j][s]]
            = [m \in DOMAIN ys |-> sem[ys[m]][s]]
      OBVIOUS
    <3>2. QED BY <3>1 DEF Lift
  <2>2. sem[x][s] = Apply(o.kind, xs(s))
    <3>1. [j \in DOMAIN [k \in 1 .. n |-> sem[o.args[k]]] |-> [k \in 1 .. n |-> sem[o.args[k]]][j][s]]
            = xs(s)
      OBVIOUS
    <3>2. QED BY <1>8, <3>1 DEF Lift
  <2> HIDE DEF xs
  <2>3. QED BY <1>6, <1>7, <2>1, <2>2
<1>10. Lift(o.kind, [m \in DOMAIN ys |-> sem[ys[m]]]) = sem[x]
  <2>1. IsVector(sem[x])
    BY BodyFacts
  <2>2. QED BY <1>9, <2>1 DEF IsVector, Lift
<1>11. ASSUME o.kind = "sub" PROVE ys[1] = o.args[1]
  <2>1. 1 \in K
    BY <1>2, <1>11
  <2>2. 1 \in 1 .. Cardinality(K) /\ Nth(K, 1) = 1
    BY <1>1, <2>1, FirstIsPicked
  <2>3. QED BY <1>1, <2>2
<1>12. QED BY <1>10, <1>11 DEF o, ys

(* Some operands are neutral, and two or more are not: the operation stays *)
(* without the neutral ones.                                               *)
LEMMA FoldInPlaceIInv ==
  ASSUME IInv, NEW x \in DOMAIN ops, FoldInPlace(x) PROVE IInv'
<1> DEFINE ys == Kept(ops[x])
           o == [ops[x] EXCEPT !.args = ys]
<1>1. ops[x].kind \in Arithmetic /\ Len(ys) > 1 /\ Rewrite(x, o) /\ ops[x] \in Op
  BY BodyFacts DEF FoldInPlace, IsArithmetic
<1>2. /\ ys \in Seq(Position) /\ DOMAIN ys = 1 .. Len(ys) /\ Len(ys) \in 0 .. Len(ops[x].args)
      /\ \A m \in DOMAIN ys : \E k \in DOMAIN ops[x].args : ys[m] = ops[x].args[k]
  BY KeptFacts
<1> HIDE DEF ys
<1>3. o \in Op /\ o.kind = ops[x].kind /\ o.type = ops[x].type /\ o.args = ys
  BY <1>1, <1>2 DEF Op
<1>4. o.kind \notin {"arg", "constant", "return", "insert", "combine"}
  BY <1>1, <1>3 DEF Arithmetic
<1> HIDE DEF o
<1>5. \A m \in DOMAIN o.args : o.args[m] \in DOMAIN ops /\ Before(o.args[m], x)
  BY <1>2, <1>3, BodyFacts
<1>6. ShapeOK(o)
  <2>1. Len(ops[x].args) \in Counts
    BY <1>1, BodyFacts DEF ShapeOK
  <2>2. PICK c \in OperandCounts : Len(ops[x].args) \in 1 .. c
    BY <2>1 DEF Counts
  <2>3. c \in Int
    <3>1. PICK p \in Source : \E z \in DOMAIN p.ops : c = Len(p.ops[z].args)
      BY DEF OperandCounts
    <3>2. \A z \in DOMAIN p.ops : p.ops[z].args \in Seq(Position)
      BY SourceAssumption DEF IsProgram, Op
    <3>3. QED BY <3>1, <3>2
  <2>4. Len(ys) \in 1 .. c
    BY <1>1, <1>2, <2>2, <2>3
  <2>5. Len(ys) \in Counts
    BY <2>4 DEF Counts
  <2>6. QED BY <1>1, <1>3, <1>4, <2>5 DEF ShapeOK
<1>7. UniformTypes(src.ops) => \A m \in DOMAIN o.args : ops[o.args[m]].type = o.type
  <2>1. UniformTypes(src.ops) =>
          \A k \in DOMAIN ops[x].args : ops[ops[x].args[k]].type = ops[x].type
    BY <1>1 DEF IInv, TypesStayUniform, UniformTypes
  <2>2. QED BY <1>2, <1>3, <2>1
<1>8. UniformTypes(src.ops) => WellTyped(ops, o)
  <2> SUFFICES ASSUME UniformTypes(src.ops) PROVE WellTyped(ops, o)
    OBVIOUS
  <2>1. o.type = InferredType(ops, ops[x].args) /\ o.type \in {"secret", "batched"}
    <3>1. WellTyped(ops, ops[x])
      BY BodyFacts
    <3>2. QED BY <1>1, <1>3, <3>1 DEF WellTyped, InferredType
  <2>2. ArgTypes(ops, o) = [m \in DOMAIN o.args |-> o.type]
    BY <1>7 DEF ArgTypes
  <2>3. 1 \in DOMAIN o.args
    BY <1>1, <1>2, <1>3
  <2>4. o.type = InferredType(ops, o.args)
    BY <1>7, <2>1, <2>3 DEF InferredType
  <2>5. QED
    BY <1>1, <1>3, <2>1, <2>2, <2>3, <2>4 DEF WellTyped, Arithmetic, PlainArithmetic
<1>9. ~SubtractsFromZero(src) => /\ Eval(o, sem) = sem[x]
                                 /\ o.kind = "sub" => sem[o.args[1]] # Uniform(Zero)
  <2> SUFFICES ASSUME ~SubtractsFromZero(src)
               PROVE  /\ Eval(o, sem) = sem[x]
                      /\ o.kind = "sub" => sem[o.args[1]] # Uniform(Zero)
    OBVIOUS
  <2>1. Len(Kept(ops[x])) # 0
    BY <1>1 DEF ys
  <2>2. /\ Lift(ops[x].kind, [m \in DOMAIN ys |-> sem[ys[m]]]) = sem[x]
        /\ ops[x].kind = "sub" => ys[1] = ops[x].args[1]
    BY <1>1, <2>1, KeptComputesTheSame DEF ys
  <2>3. NeverFromZero
    BY DEF IInv, Meaning
  <2>4. Eval(o, sem) = sem[x]
    BY <1>1, <1>3, <2>2, EvalByKind
  <2>5. QED BY <1>3, <2>2, <2>3, <2>4 DEF NeverFromZero
<1>10. QED
  BY <1>1, <1>3, <1>4, <1>5, <1>6, <1>7, <1>8, <1>9, RewriteIInv

(* All operands but one are neutral: it takes the place of the operation.  *)
LEMMA FoldToOperandIInv ==
  ASSUME IInv, NEW x \in DOMAIN ops, FoldToOperand(x) PROVE IInv'
<1> DEFINE ys == Kept(ops[x])
<1>1. ops[x].kind \in Arithmetic /\ Len(ys) = 1 /\ ReplaceBy(x, ys[1])
  BY DEF FoldToOperand, IsArithmetic
<1>2. DOMAIN ys = {1}
  BY <1>1, KeptFacts
<1>3. PICK k \in DOMAIN ops[x].args : ys[1] = ops[x].args[k]
  BY <1>2, KeptFacts
<1>4. UniformTypes(src.ops) => ops[ops[x].args[k]].type = ops[x].type
  BY <1>1 DEF IInv, TypesStayUniform, UniformTypes
<1>5. ~SubtractsFromZero(src) => sem[ops[x].args[k]] = sem[x]
  <2> SUFFICES ASSUME ~SubtractsFromZero(src) PROVE sem[ys[1]] = sem[x]
    BY <1>3
  <2>1. Lift(ops[x].kind, [m \in DOMAIN ys |-> sem[ys[m]]]) = sem[x]
    <3>1. Len(Kept(ops[x])) # 0 /\ ops[x].kind \in Arithmetic
      BY <1>1
    <3>2. QED BY <3>1, KeptComputesTheSame
  <2>2. /\ ys[1] \in DOMAIN ops /\ ys[1] \in DOMAIN src.ops
        /\ sem[ys[1]] = src.sem[ys[1]] /\ IsVector(sem[ys[1]])
    BY <1>3, BodyFacts
  <2> HIDE DEF ys
  <2> DEFINE vs == [m \in DOMAIN ys |-> sem[ys[m]]]
  <2>3. \A s \in Slots : sem[ys[1]][s] \in Scalars
    BY <2>2 DEF Scalars, IInv, SourceKept
  <2>4. \A s \in Slots : [m \in DOMAIN vs |-> vs[m][s]] = <<sem[ys[1]][s]>>
    BY <1>2
  <2>5. sem[x] = Lift(ops[x].kind, vs)
    BY <2>1
  <2>6. \A s \in Slots : Apply(ops[x].kind, <<sem[ys[1]][s]>>) = sem[ys[1]][s]
    BY <1>1, <2>3, UnaryAssumption
  <2> HIDE DEF vs
  <2>7. sem[x] = [s \in Slots |-> sem[ys[1]][s]]
    BY <2>5, <2>4, <2>6 DEF Lift
  <2>8. QED BY <2>2, <2>7 DEF IsVector
<1>6. ops[x].kind # "return"
  BY <1>1 DEF Arithmetic
<1>7. ReplaceBy(x, ops[x].args[k])
  BY <1>1, <1>3
<1>8. QED BY <1>4, <1>5, <1>6, <1>7, ReplaceByIInv

(* When no operand is left there is no defined state to go to. *)
LEMMA FoldNothingLeftIInv ==
  ASSUME IInv, NEW x \in DOMAIN ops, FoldNothingLeft(x) PROVE IInv'
BY DEF FoldNothingLeft, IInv, TypeOK, SourceKept, Descends, Shapes, TypesStayUniform,
       Meaning, NeverFromZero

-----------------------------------------------------------------------------
LEMMA NextIInv == IInv /\ [Next]_vars => IInv'
<1> SUFFICES ASSUME IInv, [Next]_vars PROVE IInv'
  OBVIOUS
<1>1. ASSUME NEW x \in DOMAIN ops, RewriteAt(x) PROVE IInv'
  BY <1>1, FoldInPlaceIInv, FoldToOperandIInv, FoldNothingLeftIInv, FoldRotateIInv,
     WrapRotateIInv, FoldCombineIInv, InsertToCombineIInv, EraseDeadIInv DEF RewriteAt
<1>2. CASE UNCHANGED vars
  BY <1>2 DEF vars, IInv, TypeOK, SourceKept, Descends, Shapes, TypesStayUniform,
              Meaning, NeverFromZero
<1>3. QED BY <1>1, <1>2 DEF Next

LEMMA InductiveInvariant == Spec => []IInv
<1>1. Init => IInv
  BY InitIInv
<1>2. IInv /\ [Next]_vars => IInv'
  BY NextIInv
<1>3. QED BY <1>1, <1>2, PTL DEF Spec

(* Whatever is rewritten and in whatever order, operations refer to what   *)
(* is there and before them, and pass the verifier where arithmetic does   *)
(* not mix types.                                                          *)
THEOREM CanonicalizerTypeCorrect == Spec => []TypeOK
<1>1. IInv => TypeOK
  BY DEF IInv
<1>2. QED BY <1>1, InductiveInvariant, PTL

(* Whatever is rewritten and in whatever order, every operation that is    *)
(* left computes what it is meant to and the function returns what it      *)
(* returned before, unless something is subtracted from zero.              *)
THEOREM CanonicalizerPreservesMeaning == Spec => []MeaningPreserved
<1>1. IInv => MeaningPreserved
  <2> SUFFICES ASSUME IInv, ~SubtractsFromZero(src) PROVE ReturnsSame
    BY DEF MeaningPreserved
  <2>1. Consistent(ops, sem) /\ Consistent(src.ops, src.sem)
    BY SourceAssumption DEF IInv, Meaning, SourceKept, IsProgram
  <2>2. ReturnsOf(ops) = ReturnsOf(src.ops)
    BY DEF IInv, Descends, ReturnsOf
  <2>3. ASSUME NEW x \in ReturnsOf(ops)
        PROVE  sem[ops[x].args[1]] = src.sem[src.ops[x].args[1]]
    <3>1. /\ x \in DOMAIN ops /\ ops[x].kind = "return"
          /\ x \in DOMAIN src.ops /\ src.ops[x].kind = "return"
      BY <2>2 DEF ReturnsOf
    <3>2. sem[x] = Eval(ops[x], sem) /\ src.sem[x] = Eval(src.ops[x], src.sem)
      BY <2>1, <3>1 DEF Consistent
    <3>3. sem[x] = src.sem[x]
      BY <3>1, BodyFacts
    <3>4. QED BY <3>1, <3>2, <3>3, EvalByKind
  <2>4. QED BY <2>1, <2>2, <2>3 DEF ReturnsSame, ValuesReturned
<1>2. QED BY <1>1, InductiveInvariant, PTL
=============================================================================
