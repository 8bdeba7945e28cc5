------------------------------ MODULE FheTool ------------------------------
(***************************************************************************)
(* fhe-tool (src/tools/fhe-tool/fhe-tool.cpp), run as its options say: on  *)
(* a program of the HIR the passes of the plan, which is the pipeline or   *)
(* part of it, and then the conversions to other dialects that the user    *)
(* adds, as the README says: --fhe2bgv, --bgv2emitc, --canonicalize.  CSE  *)
(* among these, which merges keys that are loaded twice, is left out.      *)
(* A program that comes in another dialect has its code as a field, and of *)
(* the HIR only a body that is not looked at.                              *)
(***************************************************************************)
EXTENDS HIRPipeline, Lowering

toolVars == <<vars, loweringVars>>

\* The same body with the types and dialects written out.
LoweredType(type) ==
  CASE type = "batched" -> TypeOf("batched", <<N>>)
    [] OTHER            -> TypeOf(type, << >>)

DialectOf(kind) ==
  CASE kind \in {"arg", "return"}    -> "func"
    [] kind \in PlainArithmetic      -> "arith"
    [] OTHER                         -> "fhe"

InstructionOf(body, x) ==
  Instruction(DialectOf(body[x].kind), body[x].kind, x, LoweredType(body[x].type), body[x].args, body[x].i)

FromHIR(body) ==
  LET order    == InBlockOrder(body)
      IsArg(x) == body[x].kind = "arg"
      sorted   == SelectSeq(order, IsArg) \o SelectSeq(order, LAMBDA x : ~IsArg(x))
  IN  [k \in DOMAIN sorted |-> InstructionOf(body, sorted[k])]

IsOtherDialect == "code" \in DOMAIN program

ToolInit == Init /\ LoweringInit

RunPasses == Next /\ UNCHANGED loweringVars

StartLowering ==
  /\ lowered = "waiting"
  /\ Running = "none"
  /\ program.lower # << >>
  /\ code' = IF IsOtherDialect THEN program.code ELSE FromHIR(ops)
  /\ passes' = program.lower
  /\ lowered' = "running"
  /\ UNCHANGED <<cursor, vars>>

Lower == LoweringStep /\ UNCHANGED vars

ToolNext == RunPasses \/ StartLowering \/ Lower

Spec == ToolInit /\ [][ToolNext]_toolVars

-----------------------------------------------------------------------------
(***************************************************************************)
(* What is lowered computes what the program does that was compiled, from  *)
(* the HIR through all passes or from its own dialect.  Not so for tensors *)
(* of several dimensions, of whose indices only the first is used, and for *)
(* products of many ciphertexts, which become products with a plaintext.   *)
(***************************************************************************)
Flat(body) == \A k \in DOMAIN body : body[k].type.name = "tensor" => Len(body[k].type.shape) = 1

LoweredFaithfully ==
  lowered = "done" =>
    IF IsOtherDialect
    THEN /\ Flat(program.code)
         /\ \A k \in DOMAIN program.code : program.code[k].name # "multiply_many"
         => Computes(code, program.inputs) = Computes(program.code, program.inputs)
    ELSE InternalBatching!OnlyFullSums(program) =>
           Range(Computes(code, [x \in DOMAIN ops |-> sem[x]])) = Returned(program)

(***************************************************************************)
(* Each conversion, with the canonicalization after it, leaves nothing of  *)
(* its source dialect and no materialize, but for tensors of several       *)
(* dimensions; and it gives up only on what it has no pattern for, on what *)
(* its patterns make malformed operations of, and on functions that return *)
(* several values.                                                         *)
(***************************************************************************)
Converts(pass, op) ==
  CASE pass = "tensor2fhe" -> op.type.name = "tensor"
    [] pass = "fhe2bgv"    -> op.dialect = "fhe" \/ op.type.name = "batched"
    [] OTHER               -> op.dialect = "bgv" \/ (pass = "bgv2emitc" /\ op.type.name \in DOMAIN SealType)

VectorsOnly(body, op) == \A a \in Range(op.args) : ValueType(body, a).name = "batched"

Supports(pass, body, op) ==
  CASE pass = "tensor2fhe" /\ op.dialect = "tensor" -> Defining(body, op.args[IF op.name = "insert" THEN 3 ELSE 2]).name = "constant"
    [] pass = "fhe2bgv" /\ op.dialect = "fhe" ->
         /\ VectorsOnly(body, op)
         /\ \/ op.name = "rotate"
            \/ op.name = "add" /\ Len(op.args) > 2
            \/ op.name = "sub" /\ Len(op.args) = 2
    [] pass = "bgv2emitc" /\ op.dialect = "bgv" ->
         op.name \notin {"load_ptxt", "exponentiate", "modswitch", "modswitch_plain"}
    [] pass = "bgv2llvm" -> op.dialect # "bgv" /\ op.type.name # "ctxt"
    [] op.name = "return" -> Len(op.args) < 2 \/ pass = "bgv2llvm"
    [] OTHER -> TRUE

Requested == Range(program.lower) \ {"canonicalize"}

LowersCompletely ==
  LET given == IF IsOtherDialect THEN program.code ELSE FromHIR(ops)
  IN  /\ lowered = "done" /\ Flat(given) =>
           \A pass \in Requested, k \in DOMAIN code :
             ~Converts(pass, code[k]) /\ code[k].name # "materialize"
      /\ lowered \in {"failed", "malformed", "undefined"} =>
           \E pass \in Requested, k \in DOMAIN given : ~Supports(pass, given, given[k])
=============================================================================
