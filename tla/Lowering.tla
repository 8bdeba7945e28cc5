------------------------------ MODULE Lowering ------------------------------
(***************************************************************************)
(* The passes that take a function from one dialect to the next: tensor2fhe*)
(* (src/src/Passes/hir2hir/Tensor2BatchedSecret.cpp), fhe2bgv              *)
(* (fhe2bgv/LowerFHEToBGV.cpp), bgv2emitc (bgv2emitc/LowerBGVToEmitC.cpp)  *)
(* and bgv2llvm.  Each is one of MLIR's partial conversions: operations    *)
(* that are not legal are replaced, in the order of the block, and where   *)
(* one with a new type meets one with an old type, a materialize is put in *)
(* between, which the canonicalizer has to remove.                         *)
(*                                                                         *)
(* A function is a sequence of operations, its arguments first.  An        *)
(* operation replaced by one of another type leaves its id to the          *)
(* materialize that turns the new value back, so that operands stay as     *)
(* they are; MLIR makes it only if the old value still has a user, so that *)
(* it may be dead here.  The operations made for x have the ids x.0, x.1,  *)
(* ...  A type has a name and a shape, which for a ciphertext is its size. *)
(***************************************************************************)
EXTENDS SlotVectors, SequencesExt, FiniteSetsExt, Functions, TLC

VARIABLES
  code,      \* the function
  passes,    \* what is still to be run on it
  cursor,    \* the operation that the conversion is at; 0 before it starts
  lowered    \* what has become of it

loweringVars == <<code, passes, cursor, lowered>>

TypeOf(name, shape) == [name |-> name, shape |-> shape]
NoResult == TypeOf("none", << >>)
Ciphertext(size) == TypeOf("ctxt", <<size>>)

SealType ==
  [ctxt |-> "seal::Ciphertext", ptxt |-> "seal::Plaintext", pk |-> "seal::PublicKey",
   rlk |-> "seal::RelinKeys", glk |-> "seal::GaloisKeys"]

Instruction(dialect, name, id, type, args, i) ==
  [dialect |-> dialect, name |-> name, id |-> id, type |-> type, args |-> args, i |-> i]

Defining(body, id) == body[CHOOSE k \in DOMAIN body : body[k].id = id]
ValueType(body, id) == Defining(body, id).type
UsesIn(body, id) == {k \in DOMAIN body : id \in Range(body[k].args)}

-----------------------------------------------------------------------------
(* Types and what is legal.                                                *)
ConvertedType(pass, t) ==
  CASE pass = "tensor2fhe" /\ t.name = "tensor" ->
         TypeOf("batched", IF Len(t.shape) = 1 THEN t.shape ELSE <<-155>>)
    [] pass = "fhe2bgv" /\ t.name = "batched" -> Ciphertext(1)
    [] pass = "bgv2emitc" /\ t.name \in DOMAIN SealType -> TypeOf(SealType[t.name], << >>)
    [] pass = "bgv2llvm" /\ t.name = "ctxt" -> TypeOf(SealType["ctxt"], << >>)
    [] OTHER -> t

TypesLegal(pass, op) ==
  \A t \in {op.type} \cup {ValueType(code, a) : a \in Range(op.args)} : ConvertedType(pass, t) = t

IllegalDialect(pass) ==
  CASE pass = "fhe2bgv" -> "fhe" [] pass \in {"bgv2emitc", "bgv2llvm"} -> "bgv" [] OTHER -> "no dialect"

Legal(pass, op) ==
  /\ op.dialect = IllegalDialect(pass) => op.dialect = "bgv" /\ op.name = "materialize"
  /\ op.dialect = "func" \/ (pass = "tensor2fhe" /\ op.dialect = "tensor") => TypesLegal(pass, op)

-----------------------------------------------------------------------------
(* What an operation is replaced by.                                       *)
Materialize(pass, id, type, value) ==
  Instruction(IF pass = "tensor2fhe" THEN "fhe" ELSE "bgv", "materialize", id, type, <<value>>, 0)

\* The k-th operand has another type now, or not.
IsChanged(pass, op, k) ==
  LET t == ValueType(code, op.args[k]) IN ConvertedType(pass, t) # t

\* Mutant: the operation is given the operand as it was.
OldOperand(pass, op, k) == op.args[k]

NewOperand(pass, op, k) == IF IsChanged(pass, op, k) THEN Append(op.id, k) ELSE op.args[k]
NewOperands(pass, op) == [k \in DOMAIN op.args |-> NewOperand(pass, op, k)]

MaterializedOperands(pass, op) ==
  LET changed == SelectSeq([k \in DOMAIN op.args |-> k], LAMBDA k : IsChanged(pass, op, k))
  IN  [m \in DOMAIN changed |->
         LET v == op.args[changed[m]]
         IN  Materialize(pass, Append(op.id, changed[m]), ConvertedType(pass, ValueType(code, v)), v)]

\* op becomes an operation of this name, behind what is made for its operands.
ReplacedBy(pass, op, before, dialect, name, args) ==
  LET type    == ConvertedType(pass, op.type)
      same    == type = op.type
      becomes == Instruction(dialect, name, IF same THEN op.id ELSE Append(op.id, 0), type, args, op.i)
  IN  before \o <<becomes>> \o (IF same THEN << >> ELSE <<Materialize(pass, op.id, op.type, becomes.id)>>)

Replaced(pass, op, name) ==
  ReplacedBy(pass, op, MaterializedOperands(pass, op),
             IF pass = "fhe2bgv" THEN "bgv" ELSE "emitc", name, NewOperands(pass, op))

\* The index that is looked at is the first one, and it must be a constant.
IndexOf(op) == Defining(code, op.args[IF op.name = "insert" THEN 3 ELSE 2])

FromTensor(op) ==
  LET k      == IF op.name = "insert" THEN 2 ELSE 1
      t      == ValueType(code, op.args[k])
      vector == IF op.name = "insert" THEN ConvertedType("tensor2fhe", t)
                ELSE TypeOf("batched", IF Len(t.shape) = 1 THEN t.shape ELSE <<-28>>)
  IN  ReplacedBy("tensor2fhe", [op EXCEPT !.i = IndexOf(op).i],
                 <<Materialize("tensor2fhe", Append(op.id, k), vector, op.args[k])>>,
                 "fhe", op.name, [m \in 1 .. k |-> IF m = k THEN Append(op.id, k) ELSE op.args[m]])

\* BGVBasicPattern: of a sum or a product of two only the first is passed on.
FromArithmetic(op) ==
  LET names  == [add |-> "add_many", sub |-> "sub", multiply |-> "multiply_many"]
      first  == SubSeq(NewOperands("fhe2bgv", op), 1, 1)
  IN  IF op.name = "sub" \/ Len(op.args) > 2
      THEN Replaced("fhe2bgv", op, names[op.name])
      ELSE ReplacedBy("fhe2bgv", op, MaterializedOperands("fhe2bgv", op), "bgv", op.name, first)

\* BGVRotatePattern: the keys are loaded.
FromRotate(op) ==
  LET keys == Instruction("bgv", "load_galois_keys", Append(op.id, 2), TypeOf("glk", <<0, 0, 0>>), << >>, 0)
  IN  ReplacedBy("fhe2bgv", op, Append(MaterializedOperands("fhe2bgv", op), keys), "bgv", "rotate",
                 Append(NewOperands("fhe2bgv", op), keys.id))

\* Mutant: the rotation is left out with the keys.
CallRotateByNothing(op) ==
  LET x == [op EXCEPT !.args = SubSeq(@, 1, 1), !.i = 0] IN Replaced("bgv2emitc", x, "rotate")

\* EmitCRotatePattern: the wrapper finds the keys by itself.
CallRotate(op) ==
  LET x == [op EXCEPT !.args = SubSeq(@, 1, 1)] IN Replaced("bgv2emitc", x, "rotate")

\* EmitCLoadPattern: the names of the two files are strings.
CallLoad(op) ==
  LET file(k) == Instruction("emitc", "constant", Append(op.id, k), TypeOf("std::string", << >>), << >>, op.i)
  IN  ReplacedBy("bgv2emitc", op, <<file(1), file(2)>>, "emitc", op.name, <<Append(op.id, 1), Append(op.id, 2)>>)

CalledAs(name) == IF name = "multiply_many" THEN "multiply_plain" ELSE name

Loads == {"load_ctxt", "load_public_key", "load_relin_keys", "load_galois_keys"}
EvaluatorCalls ==
  {"sub", "sub_plain", "add", "add_plain", "add_many", "multiply", "multiply_plain", "multiply_many",
   "relinearize", "modswitch_to"}

\* The return patterns and EmitCSinkPattern.
ReturnOperand(pass, op) ==
  Append(MaterializedOperands(pass, op),
         Instruction("func", "return", Append(op.id, 0), NoResult, NewOperands(pass, op), 0))

HasPattern(pass, op) ==
  CASE op.dialect = "func"    -> pass # "bgv2llvm" /\ op.name = "return" /\ Len(op.args) = 1
    [] op.dialect = "tensor"  -> op.name \in {"extract", "insert"} /\ IndexOf(op).name = "constant"
    [] pass = "fhe2bgv"       -> op.name \in {"add", "sub", "multiply", "rotate"}
    [] pass = "bgv2emitc"     -> op.name \in EvaluatorCalls \cup Loads \cup {"rotate", "sink"}
    [] OTHER                  -> FALSE

Rewritten(pass, op) ==
  CASE op.name \in {"return", "sink"} -> ReturnOperand(pass, op)
    [] op.dialect = "tensor"          -> FromTensor(op)
    [] op.dialect = "fhe"             -> IF op.name = "rotate" THEN FromRotate(op) ELSE FromArithmetic(op)
    [] op.dialect = "bgv" /\ op.name \in EvaluatorCalls -> Replaced(pass, op, CalledAs(op.name))
    [] op.dialect = "bgv" /\ op.name \in Loads  -> CallLoad(op)
    [] op.dialect = "bgv" /\ op.name = "rotate" -> CallRotate(op)

\* To load the keys for a product of many, the pattern takes the type that it
\* had for that of a ciphertext.
IsUndefined(pass, op) == pass = "fhe2bgv" /\ op.name = "multiply" /\ Len(op.args) > 2

-----------------------------------------------------------------------------
(* What the verifier wants of operations of the bgv dialect after a pass,  *)
(* as the assertions in their builders do: the operands, and the result    *)
(* that inferReturnTypes finds.  No ModswitchPlain passes: its operand is  *)
(* declared a ciphertext and then taken for a plaintext.                   *)
Sizes(op) == {ValueType(code, a).shape[1] : a \in {b \in Range(op.args) : ValueType(code, b).name = "ctxt"}}
SizeOf(op, k) == ValueType(code, op.args[k]).shape[1]

OperandNames(op) ==
  CASE op.name \in {"add", "sub", "multiply", "modswitch_to", "exponentiate"} -> <<"ctxt", "ctxt">>
    [] op.name \in {"add_plain", "sub_plain", "multiply_plain"} -> <<"ctxt", "ptxt">>
    [] op.name = "relinearize"          -> <<"ctxt", "rlk">>
    [] op.name = "rotate"               -> <<"ctxt", "glk">>
    [] op.name \in {"modswitch", "sink"} -> <<"ctxt">>
    [] op.name = "add_many"             -> [k \in DOMAIN op.args |-> "ctxt"]
    [] op.name = "multiply_many"        -> [k \in DOMAIN op.args |-> IF k = Len(op.args) THEN "rlk" ELSE "ctxt"]
    [] OTHER                            -> << >>

InferredSize(op) ==
  CASE op.name = "multiply"                         -> SizeOf(op, 1) + SizeOf(op, 2) - 1
    [] op.name \in {"add", "sub", "add_many"}       -> Max(Sizes(op))
    [] op.name = "multiply_many"                    -> Max(Sizes(op)) + 1
    [] op.name = "exponentiate"                     -> SizeOf(op, 1) + 1
    [] op.name = "relinearize"                      -> 2
    [] op.name = "modswitch_to"                     -> SizeOf(op, 2)
    [] OTHER                                        -> SizeOf(op, 1)

WellFormed(op) ==
  op.dialect = "bgv" /\ op.name # "materialize" =>
    /\ [k \in DOMAIN op.args |-> ValueType(code, op.args[k]).name] = OperandNames(op)
    /\ op.name = "relinearize" => SizeOf(op, 1) = 3
    /\ op.type.name = "ctxt" /\ op.name \notin Loads => op.type = Ciphertext(InferredSize(op))

-----------------------------------------------------------------------------
Pass == Head(passes)
Converting == lowered = "running" /\ passes # << >> /\ Pass # "canonicalize"
Canonicalizing == lowered = "running" /\ passes # << >> /\ Pass = "canonicalize"

LoweringInit == code = << >> /\ passes = << >> /\ cursor = 0 /\ lowered = "waiting"

\* The tool prints nothing.
Gives(how) == lowered' = how /\ UNCHANGED <<code, passes, cursor>>

\* The function patterns: arguments of another type are turned back at the
\* start of the body, the last one first.
IsArgument(op) == op.name = "arg"
Rest == SelectSeq(code, LAMBDA op : ~IsArgument(op))
Arguments == SelectSeq(code, LAMBDA op : IsArgument(op))

ConvertFunction ==
  /\ Converting
  /\ cursor = 0
  /\ LET changed == SelectSeq(Arguments, LAMBDA a : ConvertedType(Pass, a.type) # a.type)
         Renamed(a) == IF a \in Range(changed)
                       THEN [a EXCEPT !.id = Append(@, 0), !.type = ConvertedType(Pass, @)]
                       ELSE a
         back == [k \in DOMAIN changed |-> Materialize(Pass, changed[k].id, changed[k].type, Append(changed[k].id, 0))]
     IN  IF changed # << >> /\ Pass = "bgv2llvm"
         THEN Gives("failed")
         ELSE /\ code' = [k \in DOMAIN Arguments |-> Renamed(Arguments[k])] \o Reverse(back) \o Rest
              /\ cursor' = Len(Arguments) + Len(back) + 1
              /\ UNCHANGED <<passes, lowered>>

Current == code[cursor]

ConvertOperation ==
  /\ Converting
  /\ cursor \in DOMAIN code
  /\ CASE Legal(Pass, Current) -> cursor' = cursor + 1 /\ UNCHANGED <<code, passes, lowered>>
       [] ~Legal(Pass, Current) /\ ~HasPattern(Pass, Current) -> Gives("failed")
       [] ~Legal(Pass, Current) /\ HasPattern(Pass, Current) /\ IsUndefined(Pass, Current) -> Gives("undefined")
       [] OTHER ->
            LET new == Rewritten(Pass, Current)
            IN  /\ code' = SubSeq(code, 1, cursor - 1) \o new \o SubSeq(code, cursor + 1, Len(code))
                /\ cursor' = cursor + Len(new)
                /\ UNCHANGED <<passes, lowered>>

\* The pass ends and the function is verified.
EndConversion ==
  /\ Converting
  /\ cursor > Len(code)
  /\ IF \A k \in DOMAIN code : WellFormed(code[k])
     THEN passes' = Tail(passes) /\ cursor' = 0 /\ UNCHANGED <<code, lowered>>
     ELSE Gives("malformed")

\* MaterializeOp::fold of either dialect: turned forth and back is what it was.
\* Of the canonicalizer there is only this here and the removal of what is dead;
\* what it does to arithmetic and slots is in FHECanonicalize.
Folds(op) ==
  /\ op.name = "materialize"
  /\ LET inner == Defining(code, op.args[1])
     IN  /\ inner.name = "materialize" /\ inner.dialect = op.dialect
         /\ ValueType(code, inner.args[1]) = op.type

IsDead(op) ==
  /\ op.dialect \in {"fhe", "bgv", "tensor", "arith"}
  /\ op.name # "sink"
  /\ UsesIn(code, op.id) = {}

Redundant == {k \in DOMAIN code : Folds(code[k]) \/ IsDead(code[k])}

Fold ==
  /\ Canonicalizing
  /\ Redundant # {}
  /\ LET k     == Min(Redundant)
         op    == code[k]
         value == IF Folds(op) THEN Defining(code, op.args[1]).args[1] ELSE op.id
     IN  code' = [m \in 1 .. Len(code) - 1 |->
                    LET user == code[IF m < k THEN m ELSE m + 1]
                    IN  [user EXCEPT !.args = [j \in DOMAIN @ |-> IF @[j] = op.id THEN value ELSE @[j]]]]
  /\ UNCHANGED <<passes, cursor, lowered>>

EndCanonicalization ==
  /\ Canonicalizing
  /\ Redundant = {}
  /\ passes' = Tail(passes)
  /\ UNCHANGED <<code, cursor, lowered>>

EndLowering ==
  /\ lowered = "running"
  /\ passes = << >>
  /\ Gives("done")

LoweringStep ==
  ConvertFunction \/ ConvertOperation \/ EndConversion \/ Fold \/ EndCanonicalization \/ EndLowering

-----------------------------------------------------------------------------
(* What a function computes.  Its arguments, and what it loads, have the   *)
(* values that inputs gives them by the first two numbers of their ids;    *)
(* keys have none that matters.  The calls of EmitC are to the functions   *)
(* that are linked with it (test/IR/BGV/wrapper.cpp.inc: loading,          *)
(* multiply, relinearize, modswitch_to) and to SEAL's evaluator.           *)
SumNames == {"add", "add_many", "add_plain"}
DifferenceNames == {"sub", "sub_plain"}
ProductNames == {"multiply", "multiply_many", "multiply_plain"}

\* A tensor of several dimensions has its elements in the order of rows.
Offset(body, op, indices) ==
  LET shape  == ValueType(body, op.args[IF op.name = "insert" THEN 2 ELSE 1]).shape
  IN  FoldLeft(LAMBDA sum, k : sum * shape[k] + Defining(body, indices[k]).i, 0, [k \in DOMAIN indices |-> k])

IndexIn(body, op) ==
  IF op.dialect # "tensor" THEN op.i
  ELSE Offset(body, op, IF op.name = "insert" THEN SubSeq(op.args, 3, Len(op.args)) ELSE Tail(op.args))

ValueIn(body, op, values, inputs) ==
  LET operands == [k \in DOMAIN op.args |-> values[op.args[k]]]
      summed   == IF op.dialect = "bgv" /\ op.name = "multiply_many" THEN Front(operands) ELSE operands
  IN  CASE op.name \in {"arg", "load_ctxt", "load_ptxt"} -> inputs[SubSeq(op.id, 1, 2)]
        [] op.name \in Loads \ {"load_ctxt"} -> Uniform(0)
        [] op.name = "constant"      -> Uniform(op.i)
        [] op.name \in SumNames      -> Lift("add", operands)
        [] op.name \in DifferenceNames -> Lift("sub", operands)
        [] op.name \in ProductNames  -> Lift("multiply", summed)
        [] op.name = "rotate"        -> Rotate(operands[1], op.i)
        [] op.name = "extract"       -> Extract(operands[1], IndexIn(body, op))
        [] op.name = "insert"        -> Insert(operands[1], operands[2], IndexIn(body, op))
        [] OTHER                     -> operands[1]

\* What it returns, one value after the other.
Computes(body, inputs) ==
  LET values == FoldLeft(LAMBDA vs, op : vs @@ (op.id :> ValueIn(body, op, vs, inputs)), << >>, Front(body))
      last   == Last(body)
  IN  [k \in DOMAIN last.args |-> values[last.args[k]]]
=============================================================================
