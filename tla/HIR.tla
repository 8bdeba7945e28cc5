-------------------------------- MODULE HIR --------------------------------
(***************************************************************************)
(* HECO's high-level intermediate representation: the body of one function *)
(* as a set of SSA operations of the fhe dialect (FHE.td), and what the    *)
(* hir2hir passes do to it through MLIR's rewriter (use lists, replace all *)
(* uses, erase).                                                           *)
(*                                                                         *)
(* A body is a function from positions to operations.  A position is a     *)
(* pair <<n, k>>: the n-th operation of the block when the pass starts is  *)
(* at <<n, 0>>, and the operations a rewrite places between it and its     *)
(* successor are at <<n, 1>>, <<n, 2>>, ...  So positions name operations  *)
(* and their lexicographic order is the order of the block.                *)
(*                                                                         *)
(* Beside the body goes its denotation: what value every operation has for *)
(* one input of the function.  Nothing in the code holds it; the passes    *)
(* never read it, and the properties are stated with it.                   *)
(***************************************************************************)
EXTENDS SlotVectors

CONSTANTS
  Literal,      \* the values of the constants that programs use
  NoLiteral     \* the value attribute of what is not a constant

ASSUME LiteralAssumption == NoLiteral \notin Literal

Arithmetic == {"add", "sub", "multiply"}

\* Arithmetic on plaintexts, of MLIR's arith dialect.
PlainArithmetic == {"addi", "subi", "muli"}

Kinds == Arithmetic \cup PlainArithmetic \cup
  {"arg", "constant", "extract", "insert", "rotate", "combine",
   "relinearize", "return"}

\* Secret, BatchedSecret, any plaintext type, and no result at all.
Types == {"secret", "batched", "plain", "none"}

Position == Nat \X Nat

Before(x, y) == x[1] < y[1] \/ (x[1] = y[1] /\ x[2] < y[2])

(***************************************************************************)
(* Operations.  i is the index attribute of extract and insert and the     *)
(* amount of rotate; slots lists the slots combine takes from its first    *)
(* vector; val is the value of a constant, one for all slots.              *)
(***************************************************************************)
Op == [kind : Kinds, type : Types, args : Seq(Position),
       i : Int, slots : Seq(Int), val : Literal \cup {NoLiteral}]

MakeOp(kind, type, args) ==
  [kind |-> kind, type |-> type, args |-> args,
   i |-> 0, slots |-> << >>, val |-> NoLiteral]

MakeIndexed(kind, type, args, i) == [MakeOp(kind, type, args) EXCEPT !.i = i]

ConstantOp(type, c) == [MakeOp("constant", type, << >>) EXCEPT !.val = c]

ExtractOp(v, i) == MakeIndexed("extract", "secret", <<v>>, i)

RotateOp(v, k) == MakeIndexed("rotate", "batched", <<v>>, k)

CombineOp(v, slots, w) ==
  [MakeOp("combine", "batched", <<v, w>>) EXCEPT !.slots = slots]

\* inferReturnTypes of AddOp, SubOp and MultiplyOp
InferredType(ops, args) ==
  IF \E j \in DOMAIN args : ops[args[j]].type = "batched" THEN "batched" ELSE "secret"

ArithmeticOp(ops, kind, args) == MakeOp(kind, InferredType(ops, args), args)

Listed(o) == {o.slots[j] : j \in DOMAIN o.slots}

\* A list of slots without gaps, in ascending order.
Ascending(list) == \A k \in DOMAIN list : list[k] = list[1] + k - 1

-----------------------------------------------------------------------------
\* The fhe operation that does the same.
DialectKind(kind) ==
  CASE kind = "addi" -> "add"
    [] kind = "subi" -> "sub"
    [] kind = "muli" -> "multiply"

(* What an operation computes from the values of its operands.  The value  *)
(* of an argument of the function is whatever the caller passes.           *)
Eval(o, sem) ==
  CASE o.kind \in Arithmetic -> Lift(o.kind, [j \in DOMAIN o.args |-> sem[o.args[j]]])
    [] o.kind \in PlainArithmetic ->
         Lift(DialectKind(o.kind), [j \in DOMAIN o.args |-> sem[o.args[j]]])
    [] o.kind = "constant"   -> Uniform(o.val)
    [] o.kind = "extract"    -> Extract(sem[o.args[1]], o.i)
    [] o.kind = "insert"     -> Insert(sem[o.args[1]], sem[o.args[2]], o.i)
    [] o.kind = "rotate"     -> Rotate(sem[o.args[1]], o.i)
    [] o.kind = "combine"    -> Combine(sem[o.args[1]], Listed(o), sem[o.args[2]])
    [] OTHER                 -> sem[o.args[1]]   \* relinearize, return

\* Every operation has the value that it computes from its operands.
Consistent(ops, sem) ==
  \A x \in DOMAIN ops : ops[x].kind # "arg" => sem[x] = Eval(ops[x], sem)

ReturnsOf(ops) == {x \in DOMAIN ops : ops[x].kind = "return"}

\* What the function returns.
ValuesReturned(ops, sem) == [x \in ReturnsOf(ops) |-> sem[ops[x].args[1]]]

-----------------------------------------------------------------------------
(* The rewriter. *)
Users(ops, x) == {u \in DOMAIN ops : \E j \in DOMAIN ops[u].args : ops[u].args[j] = x}

Placed(f, x, v) == [y \in DOMAIN f \cup {x} |-> IF y = x THEN v ELSE f[y]]

Erased(f, x) == [y \in DOMAIN f \ {x} |-> f[y]]

\* replaceUsesWithIf, for the uses that o makes of x
ReplaceOperand(o, x, y) ==
  [o EXCEPT !.args = [j \in DOMAIN o.args |-> IF o.args[j] = x THEN y ELSE o.args[j]]]

ReplaceAllUses(ops, x, y) == [u \in DOMAIN ops |-> ReplaceOperand(ops[u], x, y)]

-----------------------------------------------------------------------------
(* What MLIR's verifier checks of an operation, with the types of FHE.td.  *)
ArgTypes(ops, o) == [j \in DOMAIN o.args |-> ops[o.args[j]].type]

WellTyped(ops, o) ==
  LET ts == ArgTypes(ops, o) IN
  /\ \A k \in DOMAIN ts : ts[k] # "none"
  /\ o.kind \in Arithmetic => /\ \E k \in DOMAIN ts : ts[k] \in {"secret", "batched"}
                              /\ o.type = InferredType(ops, o.args)
  /\ o.kind \in PlainArithmetic =>
       Len(ts) = 2 /\ ts[1] = "plain" /\ ts[2] = "plain" /\ o.type = "plain"
  /\ o.kind = "arg"         => Len(ts) = 0 /\ o.type # "none"
  /\ o.kind = "constant"    => Len(ts) = 0 /\ o.type \in {"secret", "batched"}
  /\ o.kind = "extract"     => Len(ts) = 1 /\ ts[1] = "batched" /\ o.type = "secret"
  /\ o.kind = "rotate"      => Len(ts) = 1 /\ ts[1] = "batched" /\ o.type = "batched"
  /\ o.kind = "relinearize" => Len(ts) = 1 /\ ts[1] = o.type /\ o.type # "plain"
  /\ o.kind = "insert"      => /\ Len(ts) = 2 /\ ts[1] = "secret" /\ ts[2] = "batched"
                               /\ o.type = "batched"
  /\ o.kind = "combine"     => /\ Len(ts) = 2 /\ ts[1] = "batched" /\ ts[2] = "batched"
                               /\ o.type = "batched"
  /\ o.kind = "return"      => Len(ts) = 1 /\ o.type = "none"

OperandsDefined(ops) ==
  \A x \in DOMAIN ops : \A j \in DOMAIN ops[x].args : ops[x].args[j] \in DOMAIN ops

\* Every operand is defined earlier in the block than where it is used.
DefinedBeforeUse(ops) ==
  \A x \in DOMAIN ops : \A j \in DOMAIN ops[x].args :
    ops[x].args[j] \in DOMAIN ops /\ Before(ops[x].args[j], x)

IsScalar(o) == o.type \in {"secret", "plain"}

\* What a pass is given: a verified body at positions <<n, 0>>, with the
\* values that its operations have for some input.
IsProgram(p) ==
  /\ DOMAIN p.ops = DOMAIN p.sem
  /\ \A x \in DOMAIN p.ops :
       /\ x \in (Nat \ {0}) \X {0}
       /\ p.ops[x] \in Op
       /\ WellTyped(p.ops, p.ops[x])
       /\ IsVector(p.sem[x])
       /\ p.ops[x].kind \in {"extract", "insert"} => p.ops[x].i \in Slots
       /\ p.ops[x].kind = "constant" => p.ops[x].val \in Literal
       /\ p.ops[x].kind = "combine" => p.ops[x].slots \in Seq(Slots) \ {<< >>}
       /\ IsScalar(p.ops[x]) => IsUniform(p.sem[x])
  /\ DefinedBeforeUse(p.ops)
  /\ Consistent(p.ops, p.sem)
=============================================================================
