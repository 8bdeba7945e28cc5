------------------------------ MODULE Batching ------------------------------
(***************************************************************************)
(* The batching pass (src/Passes/hir2hir/Batching.cpp): it turns every     *)
(* arithmetic operation on scalar secrets into one on whole vectors, by    *)
(* rotating the vectors its operands were extracted from until the slots   *)
(* of interest line up in one target slot, and extracts that slot again.   *)
(*                                                                         *)
(* The pass walks the function's operations in order (runOnOperation) and  *)
(* calls batchArithmeticOperation on each add, sub and multiply.  Here one *)
(* step is the creation of the new operation, one iteration of the loop    *)
(* that converts its operands, or what follows that loop.                  *)
(***************************************************************************)
EXTENDS HIR

CONSTANT Source   \* the programs the pass is run on, each with its denotation

ASSUME SourceAssumption == \A p \in Source : IsProgram(p)

VARIABLES
  src,      \* the program the pass was given; never changes
  ops,      \* the body of the function
  sem,      \* its denotation
  n,        \* the walk is at the operation <<n, 0>>
  pc,       \* "walk", "convert", "done" or "failed"
  target,   \* target_slot
  j         \* the operand that the conversion loop is at

vars == <<src, ops, sem, n, pc, target, j>>

Unset == -1   \* no target slot required

Cur == <<n, 0>>

\* Mutant: operand transforming ops are placed after the new op.
OperandPosLate(k) == <<n, Len(ops[Cur].args) + 2 + k>>

\* What batchArithmeticOperation places after the operation, in its order:
\* one operation for each operand it converts, the new one, the extract.
OperandPos(k) == <<n, k>>
NewPos == <<n, Len(ops[Cur].args) + 1>>
ResultPos == <<n, Len(ops[Cur].args) + 2>>

Init ==
  /\ src \in Source
  /\ ops = src.ops
  /\ sem = src.sem
  /\ n = 1
  /\ pc = "walk"
  /\ target = Unset
  /\ j = 1

\* Only operations that return scalars: others are "SIMD-compatible" already.
NeedsBatching(o) == o.kind \in Arithmetic /\ o.type = "secret"

WalkPast ==
  /\ pc = "walk"
  /\ Cur \in DOMAIN ops
  /\ ~NeedsBatching(ops[Cur])
  /\ n' = n + 1
  /\ UNCHANGED <<src, ops, sem, pc, target, j>>

WalkEnds ==
  /\ pc = "walk"
  /\ Cur \notin DOMAIN ops
  /\ pc' = "done"
  /\ UNCHANGED <<src, ops, sem, n, target, j>>

\* The slots that users of x want it in.  Users are tried in the order of the
\* use list, and the first insert or return decides: any of them may be it.
UserSlots(x) ==
  {ops[u].i : u \in {w \in Users(ops, x) : ops[w].kind = "insert"}}
    \cup {0 : u \in {w \in Users(ops, x) : ops[w].kind = "return"}}

\* Without such a user: slot 0 if an operand is extracted from it, else the
\* slot of the first operand that is extracted from a definite one.
ExtractedOperands(args) == {k \in DOMAIN args : ops[args[k]].kind = "extract"}

OperandSlots(args) ==
  LET definite == {k \in ExtractedOperands(args) : ops[args[k]].i # Unset}
      first    == {k \in definite : \A m \in definite : k <= m}
  IN  IF \E k \in definite : ops[args[k]].i = 0 THEN {0}
      ELSE IF definite = {} THEN {Unset}
      ELSE {ops[args[k]].i : k \in first}

\* Mutant: operands take precedence over users.
TargetSlotsFromOperands ==
  IF OperandSlots(ops[Cur].args) # {Unset} \/ UserSlots(Cur) = {}
  THEN OperandSlots(ops[Cur].args) ELSE UserSlots(Cur)

TargetSlots ==
  IF UserSlots(Cur) # {} THEN UserSlots(Cur) ELSE OperandSlots(ops[Cur].args)

CreateNewOp ==
  /\ pc = "walk"
  /\ Cur \in DOMAIN ops
  /\ NeedsBatching(ops[Cur])
  /\ target' \in TargetSlots
  /\ ops' = Placed(ops, NewPos, ops[Cur])
  /\ sem' = Placed(sem, NewPos, sem[Cur])
  /\ pc' = "convert"
  /\ j' = 1
  /\ UNCHANGED <<src, n>>

-----------------------------------------------------------------------------
(* The loop over the operands of the new operation. *)

Converting == pc = "convert" /\ j <= Len(ops[NewPos].args)

Operand == ops[NewPos].args[j]

\* Operation o is placed before the new one and replaces the operand in it.
PlaceOperand(o) ==
  LET x       == OperandPos(j)
      newOps  == Placed(ops, x, o)
      newSem  == Placed(sem, x, Eval(o, sem))
      changed == ReplaceOperand(ops[NewPos], Operand, x)
  IN  /\ ops' = [newOps EXCEPT ![NewPos] = changed]
      /\ sem' = [newSem EXCEPT ![NewPos] = Eval(changed, newSem)]

\* Mutant: rotation in the wrong direction.
RotationFromReversed(i, t) == i - t

\* How far the vector is rotated that an operand is extracted from.
RotationFrom(i, t) == t - i

KeepOperand ==
  /\ Converting
  /\ ops[Operand].type # "secret"
  /\ j' = j + 1
  /\ UNCHANGED <<src, ops, sem, n, pc, target>>

RotateOperand ==
  /\ Converting
  /\ ops[Operand].type = "secret"
  /\ ops[Operand].kind = "extract"
  /\ target' = IF target = Unset THEN ops[Operand].i ELSE target
  /\ PlaceOperand(RotateOp(ops[Operand].args[1], RotationFrom(ops[Operand].i, target')))
  /\ j' = j + 1
  /\ UNCHANGED <<src, n, pc>>

BroadcastConstant ==
  /\ Converting
  /\ ops[Operand].type = "secret"
  /\ ops[Operand].kind = "constant"
  /\ PlaceOperand(ConstantOp("batched", ops[Operand].val))
  /\ j' = j + 1
  /\ UNCHANGED <<src, n, pc, target>>

\* Mutant: the warning is emitted and the loop goes on.
WarnOnly ==
  /\ Converting
  /\ ops[Operand].type = "secret"
  /\ ops[Operand].kind \notin {"extract", "constant"}
  /\ j' = j + 1
  /\ UNCHANGED <<src, ops, sem, n, pc, target>>

\* "unexpected (non batchable) defining op": the walk is interrupted and the
\* new operation stays behind with the operands converted so far.
RejectOperand ==
  /\ Converting
  /\ ops[Operand].type = "secret"
  /\ ops[Operand].kind \notin {"extract", "constant"}
  /\ pc' = "failed"
  /\ UNCHANGED <<src, ops, sem, n, target, j>>

\* Mutant: the new operation keeps the type it had before the loop.
NotCreatedAgain == ops[NewPos]

\* The new operation with its type inferred from the converted operands.
CreatedAgain == ArithmeticOp(ops, ops[NewPos].kind, ops[NewPos].args)

\* Mutant: the extract is always given the first slot.
ResultSlotFirst == 0

ResultSlot == target

\* After the loop: the new operation is created again, for the sake of its
\* type, its target slot is extracted, and the original's uses and the
\* original itself are gone.
ReplaceOriginal ==
  /\ pc = "convert"
  /\ j > Len(ops[NewPos].args)
  /\ LET result   == ExtractOp(NewPos, ResultSlot)
         withNew  == Placed([ops EXCEPT ![NewPos] = CreatedAgain], ResultPos, result)
         semOfNew == Placed(sem, ResultPos, Eval(result, sem))
     IN  /\ ops' = Erased(ReplaceAllUses(withNew, Cur, ResultPos), Cur)
         /\ sem' = Erased(semOfNew, Cur)
  /\ pc' = "walk"
  /\ n' = n + 1
  /\ UNCHANGED <<src, target, j>>

Convert == KeepOperand \/ RotateOperand \/ BroadcastConstant \/ RejectOperand

Next == WalkPast \/ CreateNewOp \/ Convert \/ ReplaceOriginal \/ WalkEnds

Spec == Init /\ [][Next]_vars

\* A pass runs on the thread that called it until it returns.
FairSpec == Spec /\ WF_vars(Next)

-----------------------------------------------------------------------------
(* The new operation has scalar type and vector operands until it is       *)
(* created again.                                                          *)
Unfinished(x) == pc \in {"convert", "failed"} /\ x = NewPos

(***************************************************************************)
(* The type invariant: every operation but the one under conversion would  *)
(* pass the verifier, scalars are denoted by uniform vectors, and operands *)
(* are defined before the operation that uses them.  For the last the code *)
(* moves the insertion point to the new operation, since "otherwise, any   *)
(* operand transforming ops will be AFTER the new op".                     *)
(***************************************************************************)
Typed ==
  /\ n \in Nat \ {0}
  /\ pc \in {"walk", "convert", "done", "failed"}
  /\ target \in Slots \cup {Unset}
  /\ j \in Nat \ {0}
  /\ DOMAIN sem = DOMAIN ops
  /\ OperandsDefined(ops)
  /\ \A x \in DOMAIN ops :
       /\ x \in Position
       /\ ops[x] \in Op
       /\ IsVector(sem[x])
       /\ ops[x].kind = "extract" => ops[x].i \in Slots \cup {Unset}
       /\ ops[x].kind = "insert" => ops[x].i \in Slots
       /\ ~Unfinished(x) => /\ WellTyped(ops, ops[x])
                            /\ IsScalar(ops[x]) => IsUniform(sem[x])

Dominance == DefinedBeforeUse(ops)

TypeOK == Typed /\ Dominance

(***************************************************************************)
(* At every point of the pass, what each operation computes from its       *)
(* operands is what it is meant to compute, and the function returns what  *)
(* it returned before: rotating, broadcasting and extracting cancel out    *)
(* (the whole of batchArithmeticOperation).                                *)
(***************************************************************************)
MeaningPreserved ==
  /\ Consistent(ops, sem)
  /\ ValuesReturned(ops, sem) = ValuesReturned(src.ops, src.sem)

(***************************************************************************)
(* An operation without any target slot is given an extract from slot -1   *)
(* (getIndexAttr(target_slot)).  That index is no slot of a vector, so the *)
(* vector it reads must hold the same value in all of them.                *)
(***************************************************************************)
UndeterminedSlotIsUniform ==
  \A x \in DOMAIN ops :
    ops[x].kind = "extract" /\ ops[x].i = Unset => IsUniform(sem[ops[x].args[1]])

(***************************************************************************)
(* A result that is inserted into a vector, or returned, is computed in    *)
(* the slot where one of these users wants it: the use-based choice of     *)
(* target_slot, which is what lets InsertOp::canonicalize turn the insert  *)
(* into a combine without a rotation.                                      *)
(***************************************************************************)
ResultsLandWhereWanted ==
  \A x \in DOMAIN ops :
    (ops[x].kind = "extract" /\ x[2] # 0 /\ UserSlots(x) # {})
      => ops[x].i \in UserSlots(x)

(***************************************************************************)
(* The pass succeeds exactly on the programs whose scalar operands are all *)
(* extracted, constant or themselves results of arithmetic, and then no    *)
(* arithmetic on scalars is left; on others it ends in failure.            *)
(***************************************************************************)
Batchable(p) ==
  \A x \in DOMAIN p.ops : NeedsBatching(p.ops[x]) =>
    \A k \in DOMAIN p.ops[x].args :
      LET o == p.ops[p.ops[x].args[k]]
      IN  o.type = "secret" => o.kind \in Arithmetic \cup {"extract", "constant"}

Outcome ==
  <>(IF Batchable(src) THEN pc = "done" /\ \A x \in DOMAIN ops : ~NeedsBatching(ops[x])
                       ELSE pc = "failed")

(***************************************************************************)
(* The pass implements the contract all passes have with the pipeline.     *)
(***************************************************************************)
Contract == INSTANCE PassContract
  WITH status   <- IF pc \in {"done", "failed"} THEN pc ELSE "running",
       returned <- ValuesReturned(ops, sem)

KeepsContract == Contract!Spec
=============================================================================
