--------------------------- MODULE Batching_proofs ---------------------------
(***************************************************************************)
(* Proofs about the batching pass, for every number of slots, every        *)
(* interpretation of the arithmetic and every set of source programs.      *)
(***************************************************************************)
EXTENDS Batching, HIRLemmas

\* The pass was given one of the programs, and never forgets which.
SourceKept == src \in Source

\* Behind the walk there may be anything; ahead of it there are only
\* operations of the source, and between them what the current call placed.
PositionsInOrder ==
  \A x \in DOMAIN ops :
    /\ x[1] > n => x[2] = 0
    /\ x[1] = n => \/ x[2] = 0
                   \/ pc \in {"convert", "failed"} /\ (x[2] < j \/ x = NewPos)

\* Where the function returns is never touched.
ReturnsKept ==
  /\ ReturnsOf(ops) = ReturnsOf(src.ops)
  /\ \A x \in ReturnsOf(ops) : sem[x] = src.sem[x]

\* Operand k of the new operation, and the original one.
NewOperand(k) == ops[NewPos].args[k]
OldOperand(k) == ops[Cur].args[k]

\* What the loop over the operands maintains: no one uses the new operation
\* yet; its operands hold in the target slot what the original's operands
\* hold there; and if there is no target slot, they hold it in every slot.
Conversion ==
  pc = "convert" =>
    /\ Cur \in DOMAIN ops
    /\ NeedsBatching(ops[Cur])
    /\ NewPos \in DOMAIN ops
    /\ ops[NewPos].kind = ops[Cur].kind
    /\ ops[NewPos].type = "secret"
    /\ Len(ops[NewPos].args) = Len(ops[Cur].args)
    /\ j <= Len(ops[Cur].args) + 1
    /\ Users(ops, NewPos) = {}
    /\ \A u \in Users(ops, Cur) : u[1] > n
    /\ \A k \in DOMAIN ops[Cur].args :
         /\ NewOperand(k) = OldOperand(k) \/ ops[NewOperand(k)].type = "batched"
         /\ k < j => ops[NewOperand(k)].type # "secret"
         /\ Read(sem[NewOperand(k)], target) = Read(sem[OldOperand(k)], target)
         /\ target = Unset =>
              /\ IsUniform(sem[NewOperand(k)])
              /\ ops[OldOperand(k)].kind = "extract" => ops[OldOperand(k)].i = Unset

\* The inductive invariant.
IInv ==
  /\ Typed
  /\ SourceKept
  /\ Dominance
  /\ PositionsInOrder
  /\ ReturnsKept
  /\ Consistent(ops, sem)
  /\ UndeterminedSlotIsUniform
  /\ Conversion

-----------------------------------------------------------------------------
(* What the invariant says of one operation of the body. *)
LEMMA BodyFacts ==
  ASSUME Typed, Dominance, NEW x \in DOMAIN ops
  PROVE  /\ x \in Position /\ x = <<x[1], x[2]>> /\ x[1] \in Nat /\ x[2] \in Nat
         /\ ops[x] \in Op
         /\ ops[x].kind \in Kinds /\ ops[x].type \in Types
         /\ ops[x].i \in Int
         /\ ops[x].args \in Seq(Position)
         /\ Len(ops[x].args) \in Nat
         /\ DOMAIN ops[x].args = 1 .. Len(ops[x].args)
         /\ \A k \in DOMAIN ops[x].args :
              ops[x].args[k] \in DOMAIN ops /\ Before(ops[x].args[k], x)
         /\ x \in DOMAIN sem /\ IsVector(sem[x])
<1>1. x \in Position /\ ops[x] \in Op /\ IsVector(sem[x]) /\ x \in DOMAIN sem
  BY DEF Typed
<1>2. x = <<x[1], x[2]>> /\ x[1] \in Nat /\ x[2] \in Nat
  BY <1>1 DEF Position
<1>3. /\ ops[x].kind \in Kinds /\ ops[x].type \in Types
      /\ ops[x].i \in Int /\ ops[x].args \in Seq(Position)
  BY <1>1 DEF Op
<1>4. QED BY <1>1, <1>2, <1>3 DEF Dominance, DefinedBeforeUse

(* The conditions of EvalAgrees that hold for every finished operation. *)
LEMMA FinishedArity ==
  ASSUME Typed, NEW x \in DOMAIN ops, ~Unfinished(x)
  PROVE  /\ \/ ops[x].kind \in Arithmetic \cup {"constant", "arg"}
            \/ 1 \in DOMAIN ops[x].args
         /\ ops[x].kind \in {"insert", "combine"} => 2 \in DOMAIN ops[x].args
<1>1. ops[x] \in Op /\ WellTyped(ops, ops[x]) /\ ops[x].kind \in Kinds
  BY DEF Typed, Op
<1>2. QED BY <1>1, Arity DEF Kinds, PlainArithmetic

-----------------------------------------------------------------------------
LEMMA InitIInv == Init => IInv
<1> SUFFICES ASSUME Init PROVE IInv
  OBVIOUS
<1>1. IsProgram(src) /\ src \in Source
  BY SourceAssumption DEF Init
<1>2. Typed
  <2>1. OperandsDefined(ops)
    BY <1>1 DEF IsProgram, OperandsDefined, DefinedBeforeUse, Init
  <2>2. ASSUME NEW x \in DOMAIN ops
        PROVE  /\ x \in Position /\ ops[x] \in Op /\ IsVector(sem[x])
               /\ ops[x].kind = "extract" => ops[x].i \in Slots \cup {Unset}
               /\ ops[x].kind = "insert" => ops[x].i \in Slots
               /\ WellTyped(ops, ops[x])
               /\ IsScalar(ops[x]) => IsUniform(sem[x])
    BY <1>1 DEF IsProgram, Init, Position
  <2>3. QED BY <1>1, <2>1, <2>2 DEF Typed, IsProgram, Init, Unset
<1>3. Dominance
  BY <1>1 DEF IsProgram, Dominance, Init
<1>4. PositionsInOrder
  BY <1>1 DEF IsProgram, PositionsInOrder, Init
<1>5. ReturnsKept
  BY DEF ReturnsKept, Init
<1>6. Consistent(ops, sem)
  BY <1>1 DEF IsProgram, Init
<1>7. UndeterminedSlotIsUniform
  BY <1>1, NAssumption DEF IsProgram, UndeterminedSlotIsUniform, Init, Slots, Unset
<1>8. Conversion
  BY DEF Conversion, Init
<1>9. QED
  BY <1>1, <1>2, <1>3, <1>4, <1>5, <1>6, <1>7, <1>8 DEF IInv, SourceKept

(* The walk moves on, or ends: nothing but n and pc changes. *)
LEMMA WalkIInv == IInv /\ (WalkPast \/ WalkEnds) => IInv'
<1> SUFFICES ASSUME IInv, WalkPast \/ WalkEnds PROVE IInv'
  OBVIOUS
<1>1. /\ ops' = ops /\ sem' = sem /\ src' = src /\ target' = target /\ j' = j
      /\ pc = "walk" /\ pc' \in {"walk", "done"}
      /\ n \in Nat \ {0} /\ n' \in {n, n + 1}
  BY DEF WalkPast, WalkEnds, IInv, Typed
<1>2. Typed'
  <2>1. \A x \in DOMAIN ops : ~Unfinished(x) /\ ~Unfinished(x)'
    BY <1>1 DEF Unfinished
  <2>2. OperandsDefined(ops)'
    BY <1>1 DEF IInv, Typed
  <2>3. QED BY <1>1, <2>1, <2>2 DEF IInv, Typed
<1>3. PositionsInOrder'
  <2>1. \A x \in DOMAIN ops : x[1] \in Nat /\ (x[1] >= n => x[2] = 0)
    BY <1>1, BodyFacts DEF IInv, PositionsInOrder
  <2>2. QED BY <1>1, <2>1 DEF PositionsInOrder
<1>4. Conversion'
  BY <1>1 DEF Conversion
<1>5. SourceKept' /\ Dominance' /\ ReturnsKept' /\ Consistent(ops, sem)'
      /\ UndeterminedSlotIsUniform'
  BY <1>1 DEF IInv, SourceKept, Dominance, ReturnsKept, UndeterminedSlotIsUniform
<1>6. QED
  BY <1>2, <1>3, <1>4, <1>5 DEF IInv

-----------------------------------------------------------------------------
(* The new operation starts as a copy of the one under the walk. *)
LEMMA CreateNewOpIInv == IInv /\ CreateNewOp => IInv'
<1> SUFFICES ASSUME IInv, CreateNewOp PROVE IInv'
  OBVIOUS
<1> DEFINE L == Len(ops[Cur].args)
<1>1. Typed /\ Dominance /\ PositionsInOrder /\ ReturnsKept
      /\ Consistent(ops, sem) /\ UndeterminedSlotIsUniform
  BY DEF IInv
<1>2. /\ pc = "walk" /\ pc' = "convert" /\ j' = 1
      /\ src' = src /\ n' = n /\ n \in Nat \ {0}
      /\ Cur \in DOMAIN ops /\ NeedsBatching(ops[Cur])
      /\ ops' = Placed(ops, NewPos, ops[Cur])
      /\ sem' = Placed(sem, NewPos, sem[Cur])
      /\ target' \in TargetSlots
  BY <1>1 DEF CreateNewOp, Typed
<1>3. /\ L \in Nat /\ Cur = <<n, 0>> /\ NewPos = <<n, L + 1>>
      /\ Cur # NewPos /\ NewPos \in Position
  BY <1>1, <1>2, BodyFacts DEF Cur, NewPos, Position
<1>4. NewPos \notin DOMAIN ops
  BY <1>1, <1>2, <1>3 DEF PositionsInOrder
<1>5. /\ DOMAIN ops' = DOMAIN ops \cup {NewPos}
      /\ DOMAIN sem' = DOMAIN ops \cup {NewPos}
      /\ ops'[NewPos] = ops[Cur] /\ sem'[NewPos] = sem[Cur]
      /\ \A x \in DOMAIN ops : ops'[x] = ops[x] /\ sem'[x] = sem[x]
  BY <1>1, <1>2, <1>4 DEF Placed, Typed
<1>6. Cur' = Cur /\ NewPos' = NewPos
  BY <1>2, <1>5 DEF Cur, NewPos
<1>7. \A x \in DOMAIN ops : ~Unfinished(x) /\ ~Unfinished(x)'
  BY <1>2, <1>4, <1>6 DEF Unfinished
<1>8. \A x \in DOMAIN ops : \A k \in DOMAIN ops[x].args :
        ops[x].args[k] \in DOMAIN ops /\ ops[x].args[k] # NewPos
        /\ Before(ops[x].args[k], x)
  BY <1>1, <1>4, BodyFacts
<1>9. Dominance'
  <2>1. \A y : Before(y, Cur) /\ y \in DOMAIN ops => Before(y, NewPos)
    BY <1>1, <1>3, BodyFacts DEF Before
  <2>2. QED BY <1>2, <1>5, <1>8, <2>1 DEF Dominance, DefinedBeforeUse
<1>10. /\ target' \in Slots \cup {Unset}
       /\ target' = Unset => \A k \in ExtractedOperands(ops[Cur].args) : ops[OldOperand(k)].i = Unset
  <2>1. 0 \in Slots /\ Unset \notin Slots
    BY NAssumption DEF Slots, Unset
  <2>2. UserSlots(Cur) \subseteq Slots
    BY <1>1, <2>1 DEF UserSlots, Users, Typed
  <2>3. \A k \in ExtractedOperands(ops[Cur].args) : ops[OldOperand(k)].i \in Slots \cup {Unset}
    BY <1>1, <1>2, <1>8 DEF ExtractedOperands, Typed, OldOperand
  <2>4. CASE UserSlots(Cur) # {}
    BY <1>2, <2>1, <2>2, <2>4 DEF TargetSlots
  <2>5. CASE UserSlots(Cur) = {}
    <3> DEFINE definite == {k \in ExtractedOperands(ops[Cur].args) : ops[OldOperand(k)].i # Unset}
               first == {k \in definite : \A m \in definite : k <= m}
    <3>1. OperandSlots(ops[Cur].args) =
            IF \E k \in definite : ops[OldOperand(k)].i = 0 THEN {0}
            ELSE IF definite = {} THEN {Unset}
            ELSE {ops[OldOperand(k)].i : k \in first}
      BY DEF OperandSlots, OldOperand
    <3>2. target' \in OperandSlots(ops[Cur].args)
      BY <1>2, <2>5 DEF TargetSlots
    <3>3. CASE \E k \in definite : ops[OldOperand(k)].i = 0
      BY <2>1, <3>1, <3>2, <3>3
    <3>4. CASE definite = {}
      BY <2>1, <3>1, <3>2, <3>4
    <3>5. CASE definite # {} /\ ~\E k \in definite : ops[OldOperand(k)].i = 0
      <4> HIDE DEF definite
      <4>1. \E k \in first : target' = ops[OldOperand(k)].i
        BY <3>1, <3>2, <3>5
      <4>2. QED BY <2>3, <4>1 DEF definite
    <3>6. QED BY <3>3, <3>4, <3>5
  <2>6. QED BY <2>4, <2>5
<1>11. Typed'
  <2>1. OperandsDefined(ops)'
    BY <1>2, <1>5, <1>8 DEF OperandsDefined
  <2>2. ASSUME NEW x \in DOMAIN ops
        PROVE  WellTyped(ops', ops'[x]) /\ (IsScalar(ops'[x]) => IsUniform(sem'[x]))
    <3>1. WellTyped(ops, ops[x]) /\ (IsScalar(ops[x]) => IsUniform(sem[x]))
      BY <1>1, <1>7 DEF Typed
    <3>2. WellTyped(ops', ops[x])
      <4>1. \A k \in DOMAIN ops[x].args : ops[ops[x].args[k]].type = ops'[ops[x].args[k]].type
        BY <1>5, <1>8
      <4>2. QED BY <3>1, <4>1, SameTypesSuffice
    <3>3. QED BY <1>5, <3>1, <3>2
  <2>3. Unfinished(NewPos)'
    BY <1>2, <1>6 DEF Unfinished
  <2>4. QED
    BY <1>1, <1>2, <1>3, <1>5, <1>10, <2>1, <2>2, <2>3 DEF Typed, Unset
<1>12. PositionsInOrder'
  BY <1>1, <1>2, <1>3, <1>5, <1>6 DEF PositionsInOrder
<1>13. ops[Cur].kind \in Arithmetic /\ ops[Cur].type = "secret"
  BY <1>2 DEF NeedsBatching
<1>14. ReturnsKept'
  <2>1. ReturnsOf(ops') = ReturnsOf(ops)
    BY <1>5, <1>13 DEF ReturnsOf, Arithmetic
  <2>2. QED BY <1>1, <1>2, <1>5, <2>1 DEF ReturnsKept, ReturnsOf
<1>15. Consistent(ops, sem)'
  <2>1. ASSUME NEW x \in DOMAIN ops, ops[x].kind # "arg" PROVE sem'[x] = Eval(ops'[x], sem')
    <3>1. sem[x] = Eval(ops[x], sem)
      BY <1>1, <2>1 DEF Consistent
    <3>2. Eval(ops[x], sem) = Eval(ops[x], sem')
      <4>1. ops[x].kind \in Kinds \ {"arg"}
        BY <1>1, <2>1, BodyFacts
      <4>2. /\ \/ ops[x].kind \in Arithmetic \/ ops[x].kind = "constant"
               \/ 1 \in DOMAIN ops[x].args
            /\ ops[x].kind \in {"insert", "combine"} => 2 \in DOMAIN ops[x].args
        BY <1>1, <1>7, <2>1, FinishedArity
      <4>3. \A k \in DOMAIN ops[x].args : sem[ops[x].args[k]] = sem'[ops[x].args[k]]
        BY <1>5, <1>8
      <4>4. QED BY <4>1, <4>2, <4>3, EvalAgrees
    <3>3. QED BY <1>5, <3>1, <3>2
  <2>2. sem'[NewPos] = Eval(ops'[NewPos], sem')
    BY <1>2, <1>5, <1>13, <2>1 DEF Arithmetic
  <2>3. QED BY <1>5, <2>1, <2>2 DEF Consistent
<1>16. UndeterminedSlotIsUniform'
  <2>1. \A x \in DOMAIN ops : ops[x].kind = "extract" => 1 \in DOMAIN ops[x].args
    BY <1>1, <1>7, FinishedArity DEF Arithmetic
  <2>2. QED
    BY <1>1, <1>5, <1>8, <1>13, <2>1 DEF UndeterminedSlotIsUniform, Arithmetic
<1>17. Conversion'
  <2>1. Users(ops, NewPos)' = {}
    BY <1>2, <1>5, <1>6, <1>8 DEF Users
  <2>2. ASSUME NEW u \in Users(ops, Cur)' PROVE u[1] > n
    <3>1. PICK k \in DOMAIN ops'[u].args : u \in DOMAIN ops' /\ ops'[u].args[k] = Cur
      BY <1>6 DEF Users
    <3>2. u \in DOMAIN ops
      <4>1. \A m \in DOMAIN ops[Cur].args : ops[Cur].args[m] # Cur
        BY <1>2, <1>3, <1>8 DEF Before
      <4>2. QED BY <1>5, <3>1, <4>1
    <3>3. Before(Cur, u)
      BY <1>5, <1>8, <3>1, <3>2
    <3>4. QED
      BY <1>1, <1>2, <1>3, <3>2, <3>3, BodyFacts DEF Before, PositionsInOrder
  <2>3. /\ DOMAIN ops[Cur].args = 1 .. L
        /\ \A k \in DOMAIN ops[Cur].args : ops[OldOperand(k)].type \in {"secret", "plain"}
    <3>1. WellTyped(ops, ops[Cur]) /\ ops[Cur] \in Op
      BY <1>1, <1>2, <1>7 DEF Typed
    <3>2. \A k \in DOMAIN ops[Cur].args : ops[OldOperand(k)].type \in Types
      BY <1>2, <1>8, <1>1, BodyFacts DEF OldOperand
    <3>3. QED
      BY <1>1, <1>2, <1>13, <3>1, <3>2, ScalarOperands, BodyFacts DEF OldOperand
  <2>4. ASSUME NEW k \in DOMAIN ops[Cur].args
        PROVE  /\ NewOperand(k)' = OldOperand(k) /\ OldOperand(k)' = OldOperand(k)
               /\ IsUniform(sem[OldOperand(k)])
               /\ sem'[OldOperand(k)] = sem[OldOperand(k)]
               /\ ops'[OldOperand(k)] = ops[OldOperand(k)]
    <3>1. NewOperand(k)' = OldOperand(k) /\ OldOperand(k)' = OldOperand(k)
      BY <1>2, <1>5, <1>6 DEF NewOperand, OldOperand
    <3>2. OldOperand(k) \in DOMAIN ops
      BY <1>2, <1>8 DEF OldOperand
    <3>3. QED
      BY <1>1, <1>5, <1>7, <2>3, <3>1, <3>2 DEF Typed, IsScalar
  <2>5. NeedsBatching(ops[Cur])' /\ ops'[NewPos].kind = ops'[Cur].kind
        /\ ops'[NewPos].type = "secret" /\ Len(ops'[NewPos].args) = Len(ops'[Cur].args)
        /\ Cur' \in DOMAIN ops' /\ NewPos' \in DOMAIN ops'
        /\ j' <= Len(ops'[Cur].args) + 1
    BY <1>2, <1>3, <1>5, <1>6, <1>13
  <2>6. ASSUME NEW k \in DOMAIN ops'[Cur].args
        PROVE  /\ ~(k < j')
               /\ NewOperand(k)' = OldOperand(k)'
               /\ (Read(sem[NewOperand(k)], target) = Read(sem[OldOperand(k)], target))'
               /\ IsUniform(sem[NewOperand(k)])'
               /\ (target = Unset =>
                     (ops[OldOperand(k)].kind = "extract" => ops[OldOperand(k)].i = Unset))'
    <3>1. k \in 1 .. L
      BY <1>2, <1>5, <2>3
    <3>2. NewOperand(k)' = OldOperand(k)' /\ IsUniform(sem[NewOperand(k)])'
      BY <2>3, <2>4, <3>1
    <3>3. target' = Unset /\ ops[OldOperand(k)].kind = "extract" => ops[OldOperand(k)].i = Unset
      BY <1>10, <2>3, <3>1 DEF ExtractedOperands, OldOperand
    <3>4. QED
      BY <1>2, <1>3, <2>3, <2>4, <3>1, <3>2, <3>3
  <2>7. QED BY <1>2, <1>6, <2>1, <2>2, <2>5, <2>6 DEF Conversion
<1>18. SourceKept'
  BY <1>2 DEF IInv, SourceKept
<1>19. QED
  BY <1>9, <1>11, <1>12, <1>14, <1>15, <1>16, <1>17, <1>18 DEF IInv

-----------------------------------------------------------------------------
(* While operands are converted, operations and operands lie as follows.   *)
LEMMA ConversionFacts ==
  ASSUME IInv, pc = "convert"
  PROVE  /\ Cur = <<n, 0>> /\ n \in Nat \ {0} /\ Cur \in DOMAIN ops
         /\ Len(ops[Cur].args) \in Nat /\ Len(ops[NewPos].args) = Len(ops[Cur].args)
         /\ DOMAIN ops[Cur].args = 1 .. Len(ops[Cur].args)
         /\ DOMAIN ops[NewPos].args = 1 .. Len(ops[Cur].args)
         /\ NewPos = <<n, Len(ops[Cur].args) + 1>> /\ NewPos \in DOMAIN ops
         /\ Cur # NewPos
         /\ ops[Cur].kind \in Arithmetic /\ ops[Cur].type = "secret"
         /\ ops[NewPos].kind = ops[Cur].kind /\ ops[NewPos].type = "secret"
         /\ \A x \in DOMAIN ops : Unfinished(x) <=> x = NewPos
         /\ \A x \in DOMAIN ops : \A k \in DOMAIN ops[x].args :
              /\ ops[x].args[k] \in DOMAIN ops
              /\ ops[x].args[k] # NewPos
              /\ Before(ops[x].args[k], x)
         /\ \A x \in DOMAIN ops : x[1] = n =>
              \A k \in DOMAIN ops[x].args : ops[x].args[k] # Cur
         /\ \A k \in DOMAIN ops[Cur].args :
              /\ OldOperand(k) \in DOMAIN ops /\ OldOperand(k) # NewPos
              /\ NewOperand(k) \in DOMAIN ops /\ NewOperand(k) # NewPos
              /\ ops[OldOperand(k)].type \in {"secret", "plain"}
              /\ IsUniform(sem[OldOperand(k)]) /\ IsVector(sem[OldOperand(k)])
         /\ \E k \in DOMAIN ops[Cur].args : ops[OldOperand(k)].type = "secret"
<1>1. Typed /\ Dominance /\ Conversion
  BY DEF IInv
<1>2. /\ Cur = <<n, 0>> /\ n \in Nat \ {0} /\ Cur \in DOMAIN ops /\ NewPos \in DOMAIN ops
      /\ Len(ops[NewPos].args) = Len(ops[Cur].args)
      /\ ops[Cur].kind \in Arithmetic /\ ops[Cur].type = "secret"
      /\ ops[NewPos].kind = ops[Cur].kind /\ ops[NewPos].type = "secret"
      /\ Users(ops, NewPos) = {}
      /\ \A u \in Users(ops, Cur) : u[1] > n
  BY <1>1 DEF Conversion, NeedsBatching, Typed, Cur
<1>3. /\ Len(ops[Cur].args) \in Nat
      /\ DOMAIN ops[Cur].args = 1 .. Len(ops[Cur].args)
      /\ DOMAIN ops[NewPos].args = 1 .. Len(ops[Cur].args)
  BY <1>1, <1>2, BodyFacts
<1>4. NewPos = <<n, Len(ops[Cur].args) + 1>> /\ Cur # NewPos
  BY <1>2, <1>3 DEF NewPos
<1>5. \A x \in DOMAIN ops : Unfinished(x) <=> x = NewPos
  BY DEF Unfinished
<1>6. \A x \in DOMAIN ops : \A k \in DOMAIN ops[x].args :
         ops[x].args[k] \in DOMAIN ops /\ ops[x].args[k] # NewPos /\ Before(ops[x].args[k], x)
  BY <1>1, <1>2, BodyFacts DEF Users
<1>7. \A x \in DOMAIN ops : x[1] = n => \A k \in DOMAIN ops[x].args : ops[x].args[k] # Cur
  BY <1>2 DEF Users
<1>8. /\ \A k \in DOMAIN ops[Cur].args : ops[OldOperand(k)].type \in {"secret", "plain"}
      /\ \E k \in DOMAIN ops[Cur].args : ops[OldOperand(k)].type = "secret"
  <2>1. WellTyped(ops, ops[Cur]) /\ ops[Cur] \in Op
    BY <1>1, <1>2, <1>4, <1>5 DEF Typed
  <2>2. \A k \in DOMAIN ops[Cur].args : ops[OldOperand(k)].type \in Types
    BY <1>1, <1>2, <1>6, BodyFacts DEF OldOperand
  <2>3. QED BY <1>2, <2>1, <2>2, ScalarOperands DEF OldOperand
<1>9. \A k \in DOMAIN ops[Cur].args :
        /\ OldOperand(k) \in DOMAIN ops /\ OldOperand(k) # NewPos
        /\ NewOperand(k) \in DOMAIN ops /\ NewOperand(k) # NewPos
        /\ IsUniform(sem[OldOperand(k)]) /\ IsVector(sem[OldOperand(k)])
  <2>1. \A k \in DOMAIN ops[Cur].args :
          /\ OldOperand(k) \in DOMAIN ops /\ OldOperand(k) # NewPos
          /\ NewOperand(k) \in DOMAIN ops /\ NewOperand(k) # NewPos
    BY <1>2, <1>3, <1>6 DEF OldOperand, NewOperand
  <2>2. QED BY <1>1, <1>5, <1>8, <2>1 DEF Typed, IsScalar
<1>10. QED
  BY <1>2, <1>3, <1>4, <1>5, <1>6, <1>7, <1>8, <1>9

(* Converting one operand: an operation that is a vector, depends on what  *)
(* comes before the walk and agrees with the operand in the target slot    *)
(* takes the operand's place in the new operation.                         *)
LEMMA PlaceOperandIInv ==
  ASSUME IInv, Converting, NEW o \in Op,
         ops[Operand].type = "secret",
         PlaceOperand(o), j' = j + 1, target' = target, UNCHANGED <<src, n, pc>>,
         o.kind \in {"rotate", "constant"}, o.type = "batched", WellTyped(ops, o),
         \A k \in DOMAIN o.args : o.args[k] \in DOMAIN ops /\ Before(o.args[k], Cur),
         IsVector(Eval(o, sem)),
         Read(Eval(o, sem), target) = Read(sem[Operand], target),
         target = Unset => IsUniform(Eval(o, sem))
  PROVE  IInv'
<1> DEFINE L == Len(ops[Cur].args)
           x == OperandPos(j)
           changed == ReplaceOperand(ops[NewPos], Operand, x)
           newSem == Placed(sem, x, Eval(o, sem))
<1>1. Typed /\ Dominance /\ PositionsInOrder /\ ReturnsKept /\ SourceKept
      /\ Consistent(ops, sem) /\ UndeterminedSlotIsUniform /\ Conversion
  BY DEF IInv
<1>2. pc = "convert" /\ pc' = "convert" /\ n' = n /\ src' = src
  BY DEF Converting
<1>3. /\ Cur = <<n, 0>> /\ n \in Nat \ {0} /\ Cur \in DOMAIN ops
      /\ L \in Nat /\ Len(ops[NewPos].args) = L
      /\ DOMAIN ops[Cur].args = 1 .. L /\ DOMAIN ops[NewPos].args = 1 .. L
      /\ NewPos = <<n, L + 1>> /\ NewPos \in DOMAIN ops /\ Cur # NewPos
      /\ ops[Cur].kind \in Arithmetic /\ ops[Cur].type = "secret"
      /\ ops[NewPos].kind = ops[Cur].kind /\ ops[NewPos].type = "secret"
      /\ \A y \in DOMAIN ops : Unfinished(y) <=> y = NewPos
      /\ \A y \in DOMAIN ops : \A k \in DOMAIN ops[y].args :
           ops[y].args[k] \in DOMAIN ops /\ ops[y].args[k] # NewPos /\ Before(ops[y].args[k], y)
      /\ \A y \in DOMAIN ops : y[1] = n => \A k \in DOMAIN ops[y].args : ops[y].args[k] # Cur
  BY <1>2, ConversionFacts
<1>4. j \in 1 .. L /\ Operand = NewOperand(j)
  BY <1>1, <1>3 DEF Converting, Typed, Operand, NewOperand
<1>5. x = <<n, j>> /\ x \in Position /\ x \notin DOMAIN ops /\ x # NewPos /\ x # Cur
  BY <1>1, <1>2, <1>3, <1>4 DEF OperandPos, Position, PositionsInOrder
<1>6. /\ changed \in Op
      /\ changed.kind = ops[NewPos].kind /\ changed.type = "secret"
      /\ DOMAIN changed.args = 1 .. L /\ Len(changed.args) = L
      /\ \A k \in 1 .. L : changed.args[k] = IF NewOperand(k) = Operand THEN x ELSE NewOperand(k)
  <2>1. ops[NewPos] \in Op
    BY <1>1, <1>3, BodyFacts
  <2>2. /\ changed \in Op
        /\ changed.kind = ops[NewPos].kind /\ changed.type = ops[NewPos].type
        /\ DOMAIN changed.args = DOMAIN ops[NewPos].args
        /\ Len(changed.args) = Len(ops[NewPos].args)
        /\ \A k \in DOMAIN ops[NewPos].args :
             changed.args[k] = IF ops[NewPos].args[k] = Operand THEN x ELSE ops[NewPos].args[k]
    <3> HIDE DEF x
    <3>1. QED BY <1>5, <2>1, ReplaceOperandFacts
  <2> HIDE DEF changed, x
  <2>3. QED BY <1>3, <2>2 DEF NewOperand
<1>7. /\ DOMAIN ops' = DOMAIN ops \cup {x} /\ DOMAIN sem' = DOMAIN ops \cup {x}
      /\ ops'[x] = o /\ sem'[x] = Eval(o, sem)
      /\ ops'[NewPos] = changed /\ sem'[NewPos] = Eval(changed, newSem)
      /\ \A y \in DOMAIN ops \ {NewPos} : ops'[y] = ops[y] /\ sem'[y] = sem[y]
  <2>1. DOMAIN sem = DOMAIN ops
    BY <1>1 DEF Typed
  <2>2. /\ ops' = [Placed(ops, x, o) EXCEPT ![NewPos] = changed]
        /\ sem' = [newSem EXCEPT ![NewPos] = Eval(changed, newSem)]
    BY DEF PlaceOperand
  <2> HIDE DEF changed, x
  <2>3. QED BY <1>3, <1>5, <2>1, <2>2 DEF Placed
<1> HIDE DEF changed, x
<1>8. Cur' = Cur /\ NewPos' = NewPos
  BY <1>2, <1>3, <1>7 DEF Cur, NewPos
<1>9. \A y \in DOMAIN ops : ops'[y].type = ops[y].type /\ ops'[y].kind = ops[y].kind
  <2>1. ops'[NewPos].type = ops[NewPos].type /\ ops'[NewPos].kind = ops[NewPos].kind
    BY <1>3, <1>6, <1>7
  <2>2. \A y \in DOMAIN ops \ {NewPos} : ops'[y] = ops[y]
    BY <1>7
  <2>3. QED BY <2>1, <2>2
<1>10. \A k \in DOMAIN o.args :
         o.args[k] \in DOMAIN ops /\ o.args[k] # NewPos /\ o.args[k] # x /\ o.args[k] # Cur
         /\ Before(o.args[k], x)
  BY <1>1, <1>3, <1>4, <1>5, BodyFacts DEF Before
<1>11. \A k \in 1 .. L : /\ changed.args[k] \in (DOMAIN ops \cup {x}) \ {NewPos, Cur}
                         /\ Before(changed.args[k], NewPos)
  <2>1. Before(x, NewPos)
    BY <1>3, <1>4, <1>5 DEF Before
  <2>2. \A k \in 1 .. L : /\ NewOperand(k) \in DOMAIN ops \ {NewPos, Cur}
                          /\ Before(NewOperand(k), NewPos)
    <3>1. NewPos[1] = n
      BY <1>3
    <3>2. QED BY <1>3, <3>1 DEF NewOperand
  <2>3. QED BY <1>5, <1>6, <2>1, <2>2
<1>12. Dominance'
  <2>1. ASSUME NEW y \in DOMAIN ops', NEW k \in DOMAIN ops'[y].args
        PROVE  ops'[y].args[k] \in DOMAIN ops' /\ Before(ops'[y].args[k], y)
    <3>1. CASE y = x
      BY <1>7, <1>10, <2>1, <3>1
    <3>2. CASE y = NewPos
      BY <1>6, <1>7, <1>11, <2>1, <3>2
    <3>3. CASE y \in DOMAIN ops \ {NewPos}
      BY <1>3, <1>7, <2>1, <3>3
    <3>4. QED BY <1>7, <3>1, <3>2, <3>3
  <2>2. QED BY <2>1 DEF Dominance, DefinedBeforeUse
<1>13. Typed'
  <2>1. OperandsDefined(ops)'
    BY <1>12 DEF Dominance, DefinedBeforeUse, OperandsDefined
  <2>2. ASSUME NEW y \in DOMAIN ops \ {NewPos}
        PROVE  WellTyped(ops', ops'[y]) /\ (IsScalar(ops'[y]) => IsUniform(sem'[y]))
    <3>1. WellTyped(ops, ops[y]) /\ (IsScalar(ops[y]) => IsUniform(sem[y]))
      BY <1>1, <1>3 DEF Typed
    <3>2. /\ ops[y].kind \in Kinds /\ ops[y].args \in Seq(Position)
          /\ \A k \in DOMAIN ops[y].args : ops[ops[y].args[k]].type = ops'[ops[y].args[k]].type
      BY <1>1, <1>3, <1>9, BodyFacts
    <3>3. WellTyped(ops', ops[y])
      BY <3>1, <3>2, WellTypedAgrees
    <3>4. QED BY <1>7, <3>1, <3>3
  <2>3. WellTyped(ops', ops'[x]) /\ ~IsScalar(ops'[x])
    <3>1. o.kind \in Kinds /\ o.args \in Seq(Position)
      BY DEF Op
    <3>2. WellTyped(ops', o)
      BY <1>9, <1>10, <3>1, WellTypedAgrees
    <3>3. QED BY <1>7, <3>2 DEF IsScalar
  <2>4. IsVector(sem'[NewPos])
    <3>1. Eval(changed, newSem) = Lift(changed.kind, [k \in DOMAIN changed.args |-> newSem[changed.args[k]]])
      <4> HIDE DEF newSem
      <4>1. changed.kind \in Arithmetic
        BY <1>3, <1>6
      <4>2. QED BY <4>1, EvalByKind, Zenon
    <3>2. QED BY <1>7, <3>1 DEF Lift, IsVector
  <2>5. Unfinished(NewPos)'
    BY <1>2, <1>8 DEF Unfinished
  <2>6. /\ n' \in Nat \ {0} /\ pc' = "convert" /\ target' \in Slots \cup {Unset}
        /\ j' \in Nat \ {0} /\ DOMAIN sem' = DOMAIN ops'
    BY <1>1, <1>2, <1>7 DEF Typed
  <2>7. ASSUME NEW y \in DOMAIN ops'
        PROVE  /\ y \in Position /\ ops'[y] \in Op /\ IsVector(sem'[y])
               /\ ops'[y].kind = "extract" => ops'[y].i \in Slots \cup {Unset}
               /\ ops'[y].kind = "insert" => ops'[y].i \in Slots
    <3>1. CASE y = x
      BY <1>5, <1>7, <3>1
    <3>2. CASE y = NewPos
      BY <1>1, <1>3, <1>6, <1>7, <2>4, <3>2 DEF Typed, Arithmetic
    <3>3. CASE y \in DOMAIN ops \ {NewPos}
      BY <1>1, <1>7, <3>3 DEF Typed
    <3>4. QED BY <1>7, <3>1, <3>2, <3>3
  <2>8. ASSUME NEW y \in DOMAIN ops', ~Unfinished(y)'
        PROVE  WellTyped(ops', ops'[y]) /\ (IsScalar(ops'[y]) => IsUniform(sem'[y]))
    BY <1>7, <1>8, <2>2, <2>3, <2>5, <2>8
  <2>9. QED
    BY <2>1, <2>6, <2>7, <2>8 DEF Typed
<1>14. PositionsInOrder'
  <2>1. j' = j + 1 /\ j \in Nat
    BY <1>1 DEF Typed
  <2>2. ASSUME NEW y \in DOMAIN ops'
        PROVE  /\ y[1] > n => y[2] = 0
               /\ y[1] = n => y[2] = 0 \/ y[2] < j + 1 \/ y = NewPos
    <3>1. CASE y = x
      BY <1>3, <1>5, <2>1, <3>1
    <3>2. CASE y \in DOMAIN ops
      BY <1>1, <1>2, <2>1, <3>2, BodyFacts DEF PositionsInOrder
    <3>3. QED BY <1>7, <3>1, <3>2
  <2>3. QED BY <1>2, <1>8, <2>1, <2>2 DEF PositionsInOrder
<1>15. ReturnsKept'
  <2>1. ReturnsOf(ops') = ReturnsOf(ops) /\ NewPos \notin ReturnsOf(ops)
    BY <1>3, <1>7, <1>9 DEF ReturnsOf, Arithmetic
  <2>2. QED BY <1>1, <1>2, <1>7, <2>1 DEF ReturnsKept, ReturnsOf
<1>16. Consistent(ops, sem)'
  <2>1. ASSUME NEW y \in DOMAIN ops \ {NewPos}, ops[y].kind # "arg"
        PROVE  sem'[y] = Eval(ops'[y], sem')
    <3>1. sem[y] = Eval(ops[y], sem)
      BY <1>1, <2>1 DEF Consistent
    <3>2. \A k \in DOMAIN ops[y].args : sem'[ops[y].args[k]] = sem[ops[y].args[k]]
      BY <1>3, <1>7
    <3>3. Eval(ops[y], sem) = Eval(ops[y], sem')
      <4>1. /\ ops[y].kind \in Kinds \ {"arg"}
            /\ ops[y].kind \in Arithmetic \/ ops[y].kind = "constant" \/ 1 \in DOMAIN ops[y].args
            /\ ops[y].kind \in {"insert", "combine"} => 2 \in DOMAIN ops[y].args
        BY <1>1, <1>3, <2>1, BodyFacts, FinishedArity
      <4>2. QED BY <3>2, <4>1, EvalAgrees
    <3>4. QED BY <1>7, <3>1, <3>3
  <2>2. sem'[x] = Eval(ops'[x], sem')
    <3>1. \A k \in DOMAIN o.args : sem'[o.args[k]] = sem[o.args[k]]
      BY <1>7, <1>10
    <3>2. o.kind \in Kinds \ {"arg"} /\ (o.kind = "constant" \/ 1 \in DOMAIN o.args)
      BY Arity DEF Kinds
    <3>3. Eval(o, sem) = Eval(o, sem')
      BY <3>1, <3>2, EvalAgrees
    <3>4. QED BY <1>7, <3>3
  <2>3. sem'[NewPos] = Eval(ops'[NewPos], sem')
    <3>1. \A k \in DOMAIN changed.args : sem'[changed.args[k]] = newSem[changed.args[k]]
      <4>1. DOMAIN sem = DOMAIN ops
        BY <1>1 DEF Typed
      <4>2. \A y \in (DOMAIN ops \cup {x}) \ {NewPos} : sem'[y] = newSem[y]
        BY <1>5, <1>7, <4>1 DEF Placed
      <4>3. QED BY <1>6, <1>11, <4>2
    <3>2. Eval(changed, newSem) = Eval(changed, sem')
      <4> HIDE DEF newSem
      <4>1. changed.kind \in Arithmetic /\ changed.kind \in Kinds \ {"arg"}
        BY <1>3, <1>6 DEF Kinds, Arithmetic
      <4>2. changed.kind \notin {"insert", "combine"}
        BY <4>1 DEF Arithmetic
      <4>3. QED BY <3>1, <4>1, <4>2, EvalAgrees
    <3>3. QED BY <1>7, <3>2
  <2>4. \A y \in DOMAIN ops \ {NewPos} : ops'[y] = ops[y]
    BY <1>7
  <2>5. ASSUME NEW y \in DOMAIN ops', ops'[y].kind # "arg"
        PROVE  sem'[y] = Eval(ops'[y], sem')
    <3>1. y = x \/ y = NewPos \/ y \in DOMAIN ops \ {NewPos}
      BY <1>7, <2>5
    <3>2. CASE y \in DOMAIN ops \ {NewPos}
      BY <2>1, <2>4, <2>5, <3>2
    <3>3. QED BY <2>2, <2>3, <3>1, <3>2
  <2>6. QED BY <2>5 DEF Consistent
<1>17. UndeterminedSlotIsUniform'
  <2>1. ASSUME NEW y \in DOMAIN ops', ops'[y].kind = "extract", ops'[y].i = Unset
        PROVE  IsUniform(sem'[ops'[y].args[1]])
    <3>1. y \in DOMAIN ops \ {NewPos} /\ ops'[y] = ops[y]
      BY <1>3, <1>6, <1>7, <2>1 DEF Arithmetic
    <3>2. 1 \in DOMAIN ops[y].args
      BY <1>1, <1>3, <2>1, <3>1, FinishedArity DEF Arithmetic
    <3>3. QED
      BY <1>1, <1>3, <1>7, <2>1, <3>1, <3>2 DEF UndeterminedSlotIsUniform
  <2>2. QED BY <2>1 DEF UndeterminedSlotIsUniform
<1>18. Conversion'
  <2>1. Users(ops, NewPos)' = {}
    <3>1. ASSUME NEW y \in DOMAIN ops', NEW k \in DOMAIN ops'[y].args
          PROVE  ops'[y].args[k] # NewPos
      <4>1. CASE y = x
        BY <1>7, <1>10, <3>1, <4>1
      <4>2. CASE y = NewPos
        BY <1>6, <1>7, <1>11, <3>1, <4>2
      <4>3. CASE y \in DOMAIN ops \ {NewPos}
        <5>1. ops'[y] = ops[y] /\ k \in DOMAIN ops[y].args
          BY <1>7, <3>1, <4>3
        <5>2. QED BY <1>3, <4>3, <5>1
      <4>4. QED BY <1>7, <4>1, <4>2, <4>3
    <3>2. QED BY <1>8, <3>1 DEF Users
  <2>2. ASSUME NEW u \in Users(ops, Cur)' PROVE u[1] > n
    <3>1. PICK k \in DOMAIN ops'[u].args : u \in DOMAIN ops' /\ ops'[u].args[k] = Cur
      BY <1>8 DEF Users
    <3>2. u # x
      BY <1>7, <1>10, <3>1
    <3>3. u # NewPos
      BY <1>6, <1>7, <1>11, <3>1
    <3>4. u \in Users(ops, Cur)
      BY <1>7, <3>1, <3>2, <3>3 DEF Users
    <3>5. QED BY <1>1, <1>2, <3>4 DEF Conversion
  <2>3. \A k \in 1 .. L : OldOperand(k)' = OldOperand(k) /\ NewOperand(k)' = changed.args[k]
    BY <1>3, <1>7, <1>8 DEF OldOperand, NewOperand
  <2>4. ASSUME NEW k \in 1 .. L
        PROVE  /\ OldOperand(k) \in DOMAIN ops \ {NewPos}
               /\ ops'[OldOperand(k)] = ops[OldOperand(k)]
               /\ sem'[OldOperand(k)] = sem[OldOperand(k)]
    <3>1. OldOperand(k) \in DOMAIN ops \ {NewPos}
      BY <1>3, <2>4 DEF OldOperand
    <3>2. QED BY <1>7, <3>1
  <2>5. ASSUME NEW k \in 1 .. L
        PROVE  /\ \/ (NewOperand(k) = OldOperand(k))'
                  \/ (ops[NewOperand(k)].type = "batched")'
               /\ k < j + 1 => (ops[NewOperand(k)].type # "secret")'
               /\ (Read(sem[NewOperand(k)], target) = Read(sem[OldOperand(k)], target))'
               /\ target' = Unset => IsUniform(sem[NewOperand(k)])'
    <3>1. CASE NewOperand(k) = Operand
      <4>1. NewOperand(k)' = x
        BY <1>6, <2>3, <3>1
      <4>2. Read(sem[Operand], target) = Read(sem[OldOperand(k)], target)
        BY <1>1, <1>2, <1>3, <3>1 DEF Conversion
      <4>3. QED BY <1>7, <2>3, <2>4, <4>1, <4>2
    <3>2. CASE NewOperand(k) # Operand
      <4>1. NewOperand(k)' = NewOperand(k)
        BY <1>6, <2>3, <3>2
      <4>2. /\ NewOperand(k) \in DOMAIN ops \ {NewPos}
            /\ NewOperand(k) = OldOperand(k) \/ ops[NewOperand(k)].type = "batched"
            /\ k < j => ops[NewOperand(k)].type # "secret"
            /\ Read(sem[NewOperand(k)], target) = Read(sem[OldOperand(k)], target)
            /\ target = Unset => IsUniform(sem[NewOperand(k)])
        BY <1>1, <1>2, <1>3, ConversionFacts DEF Conversion
      <4>3. ops'[NewOperand(k)] = ops[NewOperand(k)] /\ sem'[NewOperand(k)] = sem[NewOperand(k)]
        BY <1>7, <4>2
      <4>4. k # j
        BY <1>4, <3>2
      <4>5. QED BY <1>4, <2>3, <2>4, <4>1, <4>2, <4>3, <4>4
    <3>3. QED BY <3>1, <3>2
  <2>6. \A k \in 1 .. L : target' = Unset =>
           (ops[OldOperand(k)].kind = "extract" => ops[OldOperand(k)].i = Unset)'
    <3>1. ASSUME NEW k \in 1 .. L, target = Unset, ops[OldOperand(k)].kind = "extract"
          PROVE  ops[OldOperand(k)].i = Unset
      BY <1>1, <1>2, <1>3, <3>1 DEF Conversion
    <3>2. QED BY <2>3, <2>4, <3>1
  <2>7. /\ (Cur \in DOMAIN ops)' /\ NeedsBatching(ops[Cur])' /\ (NewPos \in DOMAIN ops)'
        /\ (ops[NewPos].kind = ops[Cur].kind)' /\ (ops[NewPos].type = "secret")'
        /\ (Len(ops[NewPos].args) = Len(ops[Cur].args))'
        /\ (j <= Len(ops[Cur].args) + 1)'
        /\ DOMAIN ops'[Cur].args = 1 .. L
    BY <1>3, <1>4, <1>6, <1>7, <1>8 DEF NeedsBatching
  <2>8. QED
    BY <1>2, <1>8, <2>1, <2>2, <2>5, <2>6, <2>7 DEF Conversion
<1>19. SourceKept'
  BY <1>1, <1>2 DEF SourceKept
<1>20. QED
  BY <1>12, <1>13, <1>14, <1>15, <1>16, <1>17, <1>18, <1>19 DEF IInv

-----------------------------------------------------------------------------
(* The loop over the operands. *)
LEMMA KeepOperandIInv == IInv /\ (KeepOperand \/ RejectOperand) => IInv'
<1> SUFFICES ASSUME IInv, KeepOperand \/ RejectOperand PROVE IInv'
  OBVIOUS
<1>1. /\ ops' = ops /\ sem' = sem /\ src' = src /\ target' = target /\ n' = n
      /\ pc = "convert" /\ j <= Len(ops[NewPos].args)
      /\ \/ pc' = "convert" /\ j' = j + 1 /\ ops[Operand].type # "secret"
         \/ pc' = "failed" /\ j' = j
  BY DEF KeepOperand, RejectOperand, Converting
<1>2. NewPos' = NewPos /\ Cur' = Cur
  BY <1>1 DEF NewPos, Cur
<1>3. Typed'
  <2>1. \A x \in DOMAIN ops : Unfinished(x)' <=> Unfinished(x)
    BY <1>1, <1>2 DEF Unfinished
  <2>2. OperandsDefined(ops)'
    BY <1>1 DEF IInv, Typed
  <2>3. j' \in Nat \ {0}
    BY <1>1 DEF IInv, Typed
  <2>4. QED BY <1>1, <2>1, <2>2, <2>3 DEF IInv, Typed
<1>4. PositionsInOrder'
  <2>1. j \in Nat /\ \A x \in DOMAIN ops : x[2] \in Nat
    BY BodyFacts DEF IInv, Typed
  <2>2. QED BY <1>1, <1>2, <2>1 DEF IInv, PositionsInOrder
<1>5. Conversion'
  <2>1. j \in Nat /\ Len(ops[Cur].args) \in Nat
        /\ Len(ops[NewPos].args) = Len(ops[Cur].args)
        /\ DOMAIN ops[Cur].args = 1 .. Len(ops[Cur].args)
    BY <1>1, ConversionFacts DEF IInv, Typed
  <2>2. ASSUME pc' = "convert", NEW k \in DOMAIN ops[Cur].args, k < j + 1
        PROVE  ops[NewOperand(k)].type # "secret"
    <3>1. CASE k = j
      BY <1>1, <2>2, <3>1 DEF Operand, NewOperand
    <3>2. CASE k < j
      BY <1>1, <2>2, <3>2 DEF IInv, Conversion
    <3>3. QED BY <2>1, <2>2, <3>1, <3>2
  <2>3. \A k : NewOperand(k)' = NewOperand(k) /\ OldOperand(k)' = OldOperand(k)
    BY <1>1, <1>2 DEF NewOperand, OldOperand
  <2>4. QED BY <1>1, <1>2, <2>1, <2>2, <2>3 DEF IInv, Conversion, Users
<1>6. SourceKept' /\ Dominance' /\ ReturnsKept' /\ Consistent(ops, sem)'
      /\ UndeterminedSlotIsUniform'
  BY <1>1 DEF IInv, SourceKept, Dominance, ReturnsKept, UndeterminedSlotIsUniform
<1>7. QED
  BY <1>3, <1>4, <1>5, <1>6 DEF IInv

(* The operand that the loop is at, when it is a scalar secret, is still   *)
(* the original's, and its operation precedes the walk.                    *)
LEMMA OperandFacts ==
  ASSUME IInv, Converting, ops[Operand].type = "secret"
  PROVE  /\ j \in DOMAIN ops[Cur].args /\ Operand = OldOperand(j)
         /\ Operand \in DOMAIN ops /\ ~Unfinished(Operand)
         /\ Before(Operand, Cur)
         /\ WellTyped(ops, ops[Operand])
         /\ sem[Operand] = Eval(ops[Operand], sem) \/ ops[Operand].kind = "arg"
         /\ IsUniform(sem[Operand])
         /\ target = Unset /\ ops[Operand].kind = "extract" => ops[Operand].i = Unset
<1>1. pc = "convert" /\ j \in DOMAIN ops[Cur].args /\ Operand = NewOperand(j)
  BY ConversionFacts DEF Converting, IInv, Typed, Operand, NewOperand
<1>2. Operand = OldOperand(j)
  BY <1>1 DEF IInv, Conversion
<1>3. Operand \in DOMAIN ops /\ Operand # NewPos /\ ~Unfinished(Operand)
  BY <1>1, ConversionFacts
<1>4. Before(Operand, Cur)
  BY <1>1, <1>2, ConversionFacts DEF OldOperand
<1>5. WellTyped(ops, ops[Operand]) /\ IsUniform(sem[Operand])
  BY <1>1, <1>2, <1>3, ConversionFacts DEF IInv, Typed
<1>6. target = Unset /\ ops[Operand].kind = "extract" => ops[Operand].i = Unset
  BY <1>1, <1>2 DEF IInv, Conversion
<1>7. QED
  BY <1>1, <1>2, <1>3, <1>4, <1>5, <1>6 DEF IInv, Consistent

LEMMA RotateOperandIInv == IInv /\ RotateOperand => IInv'
<1> SUFFICES ASSUME IInv, RotateOperand PROVE IInv'
  OBVIOUS
<1> DEFINE e == ops[Operand]
           v == e.args[1]
           o == RotateOp(v, RotationFrom(e.i, target))
<1>1. /\ Converting /\ e.type = "secret" /\ e.kind = "extract"
      /\ j' = j + 1 /\ UNCHANGED <<src, n, pc>>
      /\ target' = IF target = Unset THEN e.i ELSE target
      /\ PlaceOperand(RotateOp(v, RotationFrom(e.i, target')))
  BY DEF RotateOperand
<1>2. /\ Operand \in DOMAIN ops /\ ~Unfinished(Operand) /\ Before(Operand, Cur)
      /\ WellTyped(ops, e) /\ sem[Operand] = Extract(sem[v], e.i)
      /\ target = Unset => e.i = Unset
  BY <1>1, OperandFacts, EvalByKind
<1>3. target' = target /\ PlaceOperand(o)
  BY <1>1, <1>2
<1>4. /\ e.i \in Slots \cup {Unset} /\ target \in Slots \cup {Unset}
      /\ e.i \in Int /\ target \in Int /\ target - e.i \in Int
  BY <1>1, <1>2 DEF IInv, Typed, Slots, Unset
<1>5. /\ 1 \in DOMAIN e.args /\ v \in DOMAIN ops /\ v \in Position
      /\ ops[v].type = "batched" /\ Before(v, Cur)
  <2>1. 1 \in DOMAIN e.args
    BY <1>1, <1>2, FinishedArity DEF IInv, Arithmetic
  <2>2. v \in DOMAIN ops /\ Before(v, Operand)
    BY <1>2, <2>1, BodyFacts DEF IInv
  <2>3. ops[v].type = "batched"
    BY <1>1, <1>2, <2>1 DEF WellTyped, ArgTypes
  <2>4. v \in Position /\ v[1] \in Nat /\ v[2] \in Nat
        /\ Operand[1] \in Nat /\ Operand[2] \in Nat
    BY <1>2, <2>2, BodyFacts DEF IInv
  <2>5. Before(v, Cur)
    <3>1. Cur[1] \in Nat /\ Cur[2] \in Nat
      BY DEF Cur, IInv, Typed
    <3>2. QED BY <1>2, <2>2, <2>4, <3>1 DEF Before
  <2>6. QED BY <2>1, <2>2, <2>3, <2>4, <2>5
<1>6. /\ o \in Op /\ o.kind = "rotate" /\ o.type = "batched"
      /\ o.args = <<v>> /\ o.i = target - e.i
  BY <1>4, <1>5, RotateOpFacts DEF RotationFrom
<1> HIDE DEF o
<1>7. WellTyped(ops, o)
  <2>1. ArgTypes(ops, o) = <<"batched">>
    BY <1>5, <1>6 DEF ArgTypes
  <2>2. QED BY <1>6, <2>1 DEF WellTyped, Arithmetic, PlainArithmetic
<1>8. Eval(o, sem) = Rotate(sem[v], target - e.i)
  <2>1. Eval(o, sem) = Rotate(sem[o.args[1]], o.i)
    BY <1>6, EvalByKind, Zenon
  <2>2. QED BY <1>6, <2>1
<1>9. Read(Eval(o, sem), target) = Read(sem[Operand], target)
  <2>1. Read(Eval(o, sem), target) = Read(sem[v], e.i)
    BY <1>2, <1>4, <1>8, RotationAligns DEF Unset
  <2>2. target % N \in Slots
    BY <1>4, IndexNamesSlot DEF Unset
  <2>3. QED BY <1>2, <2>1, <2>2 DEF Extract, Uniform, Read
<1>10. target = Unset => IsUniform(Eval(o, sem))
  <2> SUFFICES ASSUME target = Unset PROVE IsUniform(Rotate(sem[v], target - e.i))
    BY <1>8
  <2>1. IsUniform(sem[v])
    BY <1>1, <1>2 DEF IInv, UndeterminedSlotIsUniform
  <2>2. QED BY <1>4, <2>1, RotateUniform
<1>11. IsVector(Eval(o, sem))
  BY <1>8 DEF IsVector, Rotate
<1>12. \A k \in DOMAIN o.args : o.args[k] \in DOMAIN ops /\ Before(o.args[k], Cur)
  BY <1>5, <1>6
<1>13. QED
  BY <1>1, <1>3, <1>6, <1>7, <1>9, <1>10, <1>11, <1>12, PlaceOperandIInv

LEMMA BroadcastConstantIInv == IInv /\ BroadcastConstant => IInv'
<1> SUFFICES ASSUME IInv, BroadcastConstant PROVE IInv'
  OBVIOUS
<1> DEFINE e == ops[Operand]
           o == ConstantOp("batched", e.val)
<1>1. /\ Converting /\ e.type = "secret" /\ e.kind = "constant"
      /\ j' = j + 1 /\ target' = target /\ UNCHANGED <<src, n, pc>>
      /\ PlaceOperand(o)
  BY DEF BroadcastConstant
<1>2. Operand \in DOMAIN ops /\ e \in Op /\ sem[Operand] = Uniform(e.val)
  BY <1>1, OperandFacts, EvalByKind, BodyFacts DEF IInv
<1>3. /\ o \in Op /\ o.kind = "constant" /\ o.type = "batched"
      /\ o.args = << >> /\ o.val = e.val
  <2>1. e.val \in Literal \cup {NoLiteral} /\ "batched" \in Types
    BY <1>2 DEF Op, Types
  <2>2. QED BY <2>1, ConstantOpFacts
<1> HIDE DEF o
<1>4. WellTyped(ops, o)
  <2>1. ArgTypes(ops, o) = << >>
    BY <1>3 DEF ArgTypes
  <2>2. QED BY <1>3, <2>1 DEF WellTyped, Arithmetic, PlainArithmetic
<1>5. Eval(o, sem) = sem[Operand]
  BY <1>2, <1>3, EvalByKind
<1>6. IsUniform(Eval(o, sem)) /\ IsVector(Eval(o, sem))
  BY <1>2, <1>5, UniformIsScalar
<1>7. \A k \in DOMAIN o.args : o.args[k] \in DOMAIN ops /\ Before(o.args[k], Cur)
  BY <1>3
<1>8. QED
  BY <1>1, <1>3, <1>4, <1>5, <1>6, <1>7, PlaceOperandIInv

-----------------------------------------------------------------------------
(* After the loop: the target slot of the new operation holds what the     *)
(* original computes, so extracting it gives the original's value back.    *)
LEMMA ResultIsOriginal ==
  ASSUME IInv, pc = "convert"
  PROVE  Extract(sem[NewPos], target) = sem[Cur]
<1> DEFINE t == target % N
           old == [k \in DOMAIN ops[Cur].args |-> sem[OldOperand(k)]]
           new == [k \in DOMAIN ops[Cur].args |-> sem[NewOperand(k)]]
           kind == ops[Cur].kind
<1>1. t \in Slots
  BY IndexNamesSlot DEF IInv, Typed, Slots, Unset
<1>2. sem[Cur] = Lift(kind, old)
  <2>1. kind \in Arithmetic /\ Cur \in DOMAIN ops
    BY ConversionFacts
  <2>2. sem[Cur] = Eval(ops[Cur], sem)
    BY <2>1 DEF IInv, Consistent, Arithmetic
  <2>3. Eval(ops[Cur], sem) = Lift(kind, old)
    BY <2>1, EvalByKind, Zenon DEF OldOperand
  <2>4. QED BY <2>2, <2>3
<1>3. sem[NewPos] = Lift(kind, new)
  <2>1. /\ kind \in Arithmetic /\ NewPos \in DOMAIN ops /\ ops[NewPos].kind = kind
        /\ DOMAIN ops[NewPos].args = DOMAIN ops[Cur].args
    BY ConversionFacts
  <2>2. sem[NewPos] = Eval(ops[NewPos], sem)
    BY <2>1 DEF IInv, Consistent, Arithmetic
  <2>3. Eval(ops[NewPos], sem)
          = Lift(ops[NewPos].kind, [k \in DOMAIN ops[NewPos].args |-> sem[ops[NewPos].args[k]]])
    BY <2>1, EvalByKind, Zenon
  <2>4. QED BY <2>1, <2>2, <2>3 DEF NewOperand
<1>4. \A k \in DOMAIN ops[Cur].args : new[k][t] = old[k][t]
  BY DEF IInv, Conversion, Read
<1>5. Lift(kind, new)[t] = Lift(kind, old)[t]
  <2>1. DOMAIN new = DOMAIN old /\ DOMAIN new = DOMAIN ops[Cur].args
    OBVIOUS
  <2>2. \A k \in DOMAIN new : new[k][t] = old[k][t]
    BY <1>4, <2>1
  <2> HIDE DEF new, old, t, kind
  <2>3. t \in Slots /\ DOMAIN new = DOMAIN old
    BY <1>1, <2>1
  <2>4. QED BY <2>2, <2>3, LiftAtSlot
<1>6. IsUniform(sem[Cur]) /\ IsVector(sem[Cur])
  <2>1. Cur \in DOMAIN ops /\ ~Unfinished(Cur) /\ ops[Cur].type = "secret"
    BY ConversionFacts
  <2>2. QED BY <2>1 DEF IInv, Typed, IsScalar
<1>7. QED
  <2>1. \A s \in Slots : sem[Cur][s] = sem[NewPos][t]
    BY <1>1, <1>2, <1>3, <1>5, <1>6 DEF IsUniform
  <2>2. sem[Cur] = [s \in Slots |-> sem[NewPos][t]]
    BY <1>6, <2>1 DEF IsVector
  <2>3. QED BY <2>2 DEF Extract, Uniform, Read

(* Without a target slot, the new operation computes the same in all slots. *)
LEMMA NewIsUniform ==
  ASSUME IInv, pc = "convert", target = Unset
  PROVE  IsUniform(sem[NewPos])
<1> DEFINE new == [k \in DOMAIN ops[NewPos].args |-> sem[NewOperand(k)]]
           kind == ops[NewPos].kind
<1>1. /\ kind \in Arithmetic /\ NewPos \in DOMAIN ops
      /\ DOMAIN ops[NewPos].args = DOMAIN ops[Cur].args
  BY ConversionFacts
<1>2. sem[NewPos] = Lift(kind, new)
  <2>1. sem[NewPos] = Eval(ops[NewPos], sem)
    BY <1>1 DEF IInv, Consistent, Arithmetic
  <2>2. Eval(ops[NewPos], sem) = Lift(kind, new)
    BY <1>1, EvalByKind, Zenon DEF NewOperand
  <2>3. QED BY <2>1, <2>2
<1>3. \A k \in DOMAIN new : IsUniform(new[k])
  BY <1>1 DEF IInv, Conversion
<1>4. ASSUME NEW s \in Slots, NEW t \in Slots
      PROVE  Lift(kind, new)[s] = Lift(kind, new)[t]
  <2>1. \A k \in DOMAIN new : new[k][s] = new[k][t]
    BY <1>3 DEF IsUniform
  <2> HIDE DEF new, kind
  <2>2. QED BY <2>1, LiftAtSlot
<1>5. QED BY <1>2, <1>4 DEF IsUniform

(* After the loop, every operand is a vector or a plaintext, and there is a *)
(* vector among them.                                                      *)
LEMMA ConvertedTypes ==
  ASSUME IInv, pc = "convert", j > Len(ops[NewPos].args)
  PROVE  /\ \A k \in DOMAIN ops[Cur].args : ops[NewOperand(k)].type \in {"batched", "plain"}
         /\ \E k \in DOMAIN ops[Cur].args : ops[NewOperand(k)].type = "batched"
<1>1. /\ DOMAIN ops[Cur].args = 1 .. Len(ops[NewPos].args) /\ Len(ops[NewPos].args) \in Nat
      /\ \A k \in DOMAIN ops[Cur].args : ops[OldOperand(k)].type \in {"secret", "plain"}
      /\ \E k \in DOMAIN ops[Cur].args : ops[OldOperand(k)].type = "secret"
  BY ConversionFacts
<1>2. \A k \in DOMAIN ops[Cur].args : k < j
  BY <1>1 DEF IInv, Typed
<1>3. \A k \in DOMAIN ops[Cur].args :
        /\ NewOperand(k) = OldOperand(k) \/ ops[NewOperand(k)].type = "batched"
        /\ ops[NewOperand(k)].type # "secret"
  BY <1>2 DEF IInv, Conversion
<1>4. QED BY <1>1, <1>3

LEMMA ReplaceOriginalIInv == IInv /\ ReplaceOriginal => IInv'
<1> SUFFICES ASSUME IInv, ReplaceOriginal PROVE IInv'
  OBVIOUS
<1> DEFINE L == Len(ops[Cur].args)
           r == ResultPos
           made == CreatedAgain
           result == ExtractOp(NewPos, ResultSlot)
           again == [ops EXCEPT ![NewPos] = made]
           withNew == Placed(again, r, result)
<1>1. Typed /\ Dominance /\ PositionsInOrder /\ ReturnsKept /\ SourceKept
      /\ Consistent(ops, sem) /\ UndeterminedSlotIsUniform /\ Conversion
  BY DEF IInv
<1>2. /\ pc = "convert" /\ pc' = "walk" /\ n' = n + 1 /\ src' = src /\ target' = target /\ j' = j
      /\ j > Len(ops[NewPos].args)
      /\ ops' = Erased(ReplaceAllUses(withNew, Cur, r), Cur)
      /\ sem' = Erased(Placed(sem, r, Eval(result, sem)), Cur)
  BY DEF ReplaceOriginal
<1>3. /\ Cur = <<n, 0>> /\ n \in Nat \ {0} /\ Cur \in DOMAIN ops
      /\ L \in Nat /\ Len(ops[NewPos].args) = L
      /\ DOMAIN ops[Cur].args = 1 .. L /\ DOMAIN ops[NewPos].args = 1 .. L
      /\ NewPos = <<n, L + 1>> /\ NewPos \in DOMAIN ops /\ Cur # NewPos
      /\ ops[Cur].kind \in Arithmetic /\ ops[Cur].type = "secret"
      /\ ops[NewPos].kind = ops[Cur].kind /\ ops[NewPos].type = "secret"
      /\ \A y \in DOMAIN ops : Unfinished(y) <=> y = NewPos
      /\ \A y \in DOMAIN ops : \A k \in DOMAIN ops[y].args :
           ops[y].args[k] \in DOMAIN ops /\ ops[y].args[k] # NewPos /\ Before(ops[y].args[k], y)
      /\ \A y \in DOMAIN ops : y[1] = n => \A k \in DOMAIN ops[y].args : ops[y].args[k] # Cur
  BY <1>2, ConversionFacts
<1>4. target \in Slots \cup {Unset} /\ target \in Int
  BY <1>1 DEF Typed, Slots, Unset
<1>5. r = <<n, L + 2>> /\ r \in Position /\ r \notin DOMAIN ops /\ r # NewPos /\ r # Cur
  <2>1. j = L + 1
    BY <1>1, <1>2, <1>3 DEF Conversion, Typed
  <2>2. r = <<n, L + 2>> /\ r[1] = n /\ r[2] = L + 2 /\ r \in Position
    BY <1>3 DEF ResultPos, Position
  <2>3. r # NewPos /\ r # Cur
    BY <1>3, <2>2
  <2>4. ~(r[2] = 0) /\ ~(r[2] < j)
    BY <1>3, <2>1, <2>2
  <2>5. r \notin DOMAIN ops
    BY <1>1, <2>2, <2>3, <2>4 DEF PositionsInOrder
  <2>6. QED BY <2>2, <2>3, <2>5
<1>6. NewPos \in Position
  BY <1>3 DEF Position
<1>7. /\ result \in Op /\ result.kind = "extract" /\ result.type = "secret"
      /\ result.args = <<NewPos>> /\ result.i = target
  BY <1>4, <1>6, ExtractOpFacts DEF ResultSlot
<1>8. /\ made \in Op /\ made.kind = ops[NewPos].kind /\ made.args = ops[NewPos].args
      /\ made.type = "batched"
  <2>1. InferredType(ops, ops[NewPos].args) = "batched"
    BY <1>2, <1>3, ConvertedTypes DEF InferredType, NewOperand
  <2>2. ops[NewPos].args \in Seq(Position) /\ ops[NewPos].kind \in Kinds /\ << >> \in Seq(Int)
    BY <1>1, <1>3, BodyFacts
  <2>3. made = [kind |-> ops[NewPos].kind, type |-> "batched", args |-> ops[NewPos].args,
                i |-> 0, slots |-> << >>, val |-> NoLiteral]
    BY <2>1 DEF CreatedAgain, ArithmeticOp, MakeOp
  <2>4. QED BY <2>2, <2>3 DEF Op, Types
<1> HIDE DEF r, made, result
<1>9. /\ DOMAIN withNew = DOMAIN ops \cup {r}
      /\ withNew[r] = result /\ withNew[NewPos] = made
      /\ \A y \in DOMAIN ops \ {NewPos} : withNew[y] = ops[y]
      /\ \A y \in DOMAIN withNew : withNew[y] \in Op
  BY <1>1, <1>3, <1>5, <1>7, <1>8, BodyFacts DEF Placed
<1> HIDE DEF withNew
<1>10. /\ DOMAIN ops' = (DOMAIN ops \cup {r}) \ {Cur}
       /\ \A y \in DOMAIN ops' : ops'[y] = ReplaceOperand(withNew[y], Cur, r)
  BY <1>2, <1>9 DEF Erased, ReplaceAllUses
<1>11. /\ DOMAIN sem' = DOMAIN ops'
       /\ sem'[r] = sem[Cur]
       /\ \A y \in DOMAIN ops \ {Cur} : sem'[y] = sem[y]
  <2>1. Eval(result, sem) = sem[Cur]
    <3>1. Eval(result, sem) = Extract(sem[result.args[1]], result.i)
      BY <1>7, EvalByKind, Zenon
    <3>2. QED BY <1>2, <1>7, <3>1, ResultIsOriginal
  <2>2. DOMAIN sem = DOMAIN ops
    BY <1>1 DEF Typed
  <2>3. QED BY <1>2, <1>3, <1>5, <1>10, <2>1, <2>2 DEF Erased, Placed
<1>12. \A y \in DOMAIN ops' :
         /\ ops'[y] \in Op
         /\ ops'[y].kind = withNew[y].kind /\ ops'[y].type = withNew[y].type
         /\ ops'[y].i = withNew[y].i /\ ops'[y].val = withNew[y].val
         /\ ops'[y].slots = withNew[y].slots
         /\ DOMAIN ops'[y].args = DOMAIN withNew[y].args
         /\ Len(ops'[y].args) = Len(withNew[y].args)
         /\ \A k \in DOMAIN withNew[y].args :
              ops'[y].args[k] = IF withNew[y].args[k] = Cur THEN r ELSE withNew[y].args[k]
  BY <1>5, <1>9, <1>10, ReplaceOperandFacts
\* Who used the original now uses the extracted result: everything else is
\* as it was, and so are the values and the types of all operands.
<1>13. \A y \in DOMAIN ops \ {Cur} : \A k \in DOMAIN ops'[y].args :
         /\ k \in DOMAIN ops[y].args /\ DOMAIN ops'[y].args = DOMAIN ops[y].args
         /\ ops'[y].args[k] \in DOMAIN ops' /\ Before(ops'[y].args[k], y)
         /\ sem'[ops'[y].args[k]] = sem[ops[y].args[k]]
         /\ ops'[ops'[y].args[k]].type = ops[ops[y].args[k]].type
  <2> SUFFICES ASSUME NEW y \in DOMAIN ops \ {Cur}, NEW k \in DOMAIN ops'[y].args
        PROVE  /\ k \in DOMAIN ops[y].args /\ DOMAIN ops'[y].args = DOMAIN ops[y].args
               /\ ops'[y].args[k] \in DOMAIN ops' /\ Before(ops'[y].args[k], y)
               /\ sem'[ops'[y].args[k]] = sem[ops[y].args[k]]
               /\ ops'[ops'[y].args[k]].type = ops[ops[y].args[k]].type
    OBVIOUS
  <2>1. y \in DOMAIN ops' /\ withNew[y].args = ops[y].args
    BY <1>3, <1>8, <1>9, <1>10
  <2>2. /\ DOMAIN ops'[y].args = DOMAIN ops[y].args /\ k \in DOMAIN ops[y].args
        /\ ops'[y].args[k] = IF ops[y].args[k] = Cur THEN r ELSE ops[y].args[k]
    BY <1>12, <2>1
  <2>3. CASE ops[y].args[k] = Cur
    <3>1. y[1] > n
      <4>1. Before(Cur, y) /\ y[1] # n /\ y[1] \in Nat
        <5>1. Before(ops[y].args[k], y) /\ y[1] # n
          BY <1>3, <2>2, <2>3
        <5>2. y[1] \in Nat
          BY <1>1, BodyFacts
        <5>3. QED BY <2>3, <5>1, <5>2
      <4>2. QED BY <1>3, <4>1 DEF Before
    <3>2. r \in DOMAIN ops' /\ ops'[r].type = "secret" /\ Before(r, y)
      BY <1>3, <1>5, <1>7, <1>9, <1>10, <1>12, <3>1 DEF Before
    <3>3. QED BY <1>3, <1>11, <2>2, <2>3, <3>2
  <2>4. CASE ops[y].args[k] # Cur
    <3> DEFINE a == ops[y].args[k]
    <3>1. a \in DOMAIN ops \ {Cur, NewPos} /\ Before(a, y)
      BY <1>3, <2>2, <2>4
    <3> HIDE DEF a
    <3>2. a \in DOMAIN ops' /\ ops'[a].type = ops[a].type
      BY <1>9, <1>10, <1>12, <3>1
    <3>3. QED BY <1>11, <2>2, <2>4, <3>1, <3>2 DEF a
  <2>5. QED BY <2>3, <2>4
<1>14. /\ r \in DOMAIN ops' /\ NewPos \in DOMAIN ops' /\ Before(NewPos, r)
       /\ DOMAIN ops'[r].args = {1} /\ Len(ops'[r].args) = 1 /\ ops'[r].args[1] = NewPos
       /\ ops'[r].kind = "extract" /\ ops'[r].type = "secret" /\ ops'[r].i = target
       /\ ops'[NewPos].kind = ops[Cur].kind /\ ops'[NewPos].type = "batched"
       /\ DOMAIN ops'[NewPos].args = 1 .. L
  <2>1. r \in DOMAIN ops' /\ NewPos \in DOMAIN ops' /\ Before(NewPos, r)
    BY <1>3, <1>5, <1>10 DEF Before
  <2>2. /\ DOMAIN ops'[r].args = {1} /\ ops'[r].args[1] = NewPos
    <3>1. withNew[r].args = <<NewPos>>
      BY <1>7, <1>9
    <3>2. DOMAIN withNew[r].args = {1} /\ withNew[r].args[1] = NewPos
      BY <3>1
    <3>3. /\ DOMAIN ops'[r].args = DOMAIN withNew[r].args
          /\ ops'[r].args[1] = IF withNew[r].args[1] = Cur THEN r ELSE withNew[r].args[1]
      BY <1>12, <2>1, <3>2
    <3>4. QED BY <1>3, <3>2, <3>3
  <2>3. Len(ops'[r].args) = 1
    <3>1. Len(ops'[r].args) = Len(withNew[r].args)
      BY <1>12, <2>1
    <3>2. withNew[r].args = <<NewPos>>
      BY <1>7, <1>9
    <3>3. QED BY <3>1, <3>2
  <2>4. QED BY <1>3, <1>7, <1>8, <1>9, <1>12, <2>1, <2>2, <2>3
<1>15. \A y \in DOMAIN ops \ {Cur, NewPos} :
         /\ ops'[y].kind = ops[y].kind /\ ops'[y].type = ops[y].type
         /\ ops'[y].i = ops[y].i /\ ops'[y].val = ops[y].val /\ ops'[y].slots = ops[y].slots
         /\ DOMAIN ops'[y].args = DOMAIN ops[y].args
         /\ sem'[y] = sem[y]
         /\ y \in DOMAIN ops'
  BY <1>9, <1>10, <1>11, <1>12
<1>16. Dominance'
  <2>1. ASSUME NEW y \in DOMAIN ops', NEW k \in DOMAIN ops'[y].args
        PROVE  ops'[y].args[k] \in DOMAIN ops' /\ Before(ops'[y].args[k], y)
    <3>1. CASE y = r
      BY <1>14, <2>1, <3>1
    <3>2. CASE y \in DOMAIN ops \ {Cur}
      BY <1>13, <2>1, <3>2
    <3>3. QED BY <1>10, <3>1, <3>2
  <2>2. QED BY <2>1 DEF Dominance, DefinedBeforeUse
<1>17. PositionsInOrder'
  <2>1. \A y \in DOMAIN ops' : y[1] > n => y[2] = 0
    BY <1>1, <1>3, <1>5, <1>10 DEF PositionsInOrder
  <2>2. \A y \in DOMAIN ops' : y[1] \in Nat
    BY <1>1, <1>3, <1>5, <1>10, BodyFacts
  <2>3. \A y \in DOMAIN ops' : y[1] > n => y[2] = 0 /\ y[1] \in Nat
    BY <2>1, <2>2
  <2>4. n' = n + 1 /\ pc' = "walk" /\ n \in Nat \ {0}
    BY <1>2, <1>3
  <2>5. QED BY <2>2, <2>3, <2>4 DEF PositionsInOrder
<1>18. ReturnsKept'
  <2>1. ReturnsOf(ops)' = ReturnsOf(ops)
    <3>1. /\ ops[Cur].kind # "return" /\ ops[NewPos].kind # "return"
          /\ ops'[NewPos].kind # "return" /\ ops'[r].kind # "return"
      BY <1>3, <1>14 DEF Arithmetic
    <3>2. \A y : y \in DOMAIN ops' /\ ops'[y].kind = "return"
                  <=> y \in DOMAIN ops /\ ops[y].kind = "return"
      <4>1. \A y \in DOMAIN ops \ {Cur, NewPos} : y \in DOMAIN ops' /\ ops'[y].kind = ops[y].kind
        BY <1>15
      <4>2. QED BY <1>3, <1>10, <3>1, <4>1
    <3>3. QED BY <3>2 DEF ReturnsOf
  <2>2. \A y \in ReturnsOf(ops) : sem'[y] = sem[y]
    BY <1>3, <1>11 DEF ReturnsOf, Arithmetic
  <2>3. QED BY <1>1, <1>2, <2>1, <2>2 DEF ReturnsKept
<1>19. Consistent(ops, sem)'
  <2>1. ASSUME NEW y \in DOMAIN ops', ops'[y].kind # "arg"
        PROVE  sem'[y] = Eval(ops'[y], sem')
    <3>1. CASE y = r
      <4>1. Eval(ops'[r], sem') = Extract(sem'[NewPos], target)
        BY <1>14, EvalByKind, Zenon
      <4>2. sem'[NewPos] = sem[NewPos]
        BY <1>3, <1>11
      <4>3. Extract(sem[NewPos], target) = sem[Cur]
        BY <1>2, ResultIsOriginal
      <4>4. QED BY <1>11, <3>1, <4>1, <4>2, <4>3
    <3>2. CASE y = NewPos
      <4>1. sem[NewPos] = Eval(ops[NewPos], sem)
        BY <1>1, <1>3 DEF Consistent, Arithmetic
      <4>2. Eval(ops[NewPos], sem) = Eval(ops'[NewPos], sem')
        <5>1. /\ ops[NewPos].kind = ops'[NewPos].kind
              /\ ops[NewPos].kind \in Arithmetic
              /\ ops[NewPos].kind \in Kinds \ {"arg"}
              /\ ops[NewPos].kind \notin {"insert", "combine"}
              /\ DOMAIN ops[NewPos].args = DOMAIN ops'[NewPos].args
          BY <1>3, <1>14 DEF Arithmetic, Kinds
        <5>2. \A k \in DOMAIN ops[NewPos].args :
                sem[ops[NewPos].args[k]] = sem'[ops'[NewPos].args[k]]
          BY <1>3, <1>13, <5>1
        <5>3. QED BY <5>1, <5>2, EvalAgrees
      <4>3. QED BY <1>3, <1>11, <3>2, <4>1, <4>2
    <3>3. CASE y \in DOMAIN ops \ {Cur, NewPos}
      <4>1. sem[y] = Eval(ops[y], sem)
        BY <1>1, <1>15, <2>1, <3>3 DEF Consistent
      <4>2. /\ ops[y].kind \in Kinds \ {"arg"}
            /\ \/ ops[y].kind \in Arithmetic \/ ops[y].kind = "constant"
               \/ 1 \in DOMAIN ops[y].args
            /\ ops[y].kind \in {"insert", "combine"} => 2 \in DOMAIN ops[y].args
        BY <1>1, <1>3, <1>15, <2>1, <3>3, BodyFacts, FinishedArity
      <4>3. \A k \in DOMAIN ops[y].args : sem[ops[y].args[k]] = sem'[ops'[y].args[k]]
        BY <1>13, <1>15, <3>3
      <4>4. Eval(ops[y], sem) = Eval(ops'[y], sem')
        BY <1>15, <3>3, <4>2, <4>3, EvalAgrees
      <4>5. QED BY <1>15, <3>3, <4>1, <4>4
    <3>4. QED BY <1>10, <3>1, <3>2, <3>3
  <2>2. QED BY <2>1 DEF Consistent
<1>20. target = Unset => IsUniform(sem[NewPos])
  BY <1>1, <1>2, NewIsUniform
<1>21. UndeterminedSlotIsUniform'
  <2>1. ASSUME NEW y \in DOMAIN ops', ops'[y].kind = "extract", ops'[y].i = Unset
        PROVE  IsUniform(sem'[ops'[y].args[1]])
    <3>1. CASE y = r
      BY <1>3, <1>11, <1>14, <1>20, <2>1, <3>1
    <3>2. CASE y = NewPos
      BY <1>3, <1>14, <2>1, <3>2 DEF Arithmetic
    <3>3. CASE y \in DOMAIN ops \ {Cur, NewPos}
      <4>1. 1 \in DOMAIN ops[y].args
        BY <1>1, <1>3, <1>15, <2>1, <3>3, FinishedArity DEF Arithmetic
      <4>2. sem'[ops'[y].args[1]] = sem[ops[y].args[1]]
        BY <1>13, <1>15, <3>3, <4>1
      <4>3. QED BY <1>1, <1>15, <2>1, <3>3, <4>2 DEF UndeterminedSlotIsUniform
    <3>4. QED BY <1>10, <3>1, <3>2, <3>3
  <2>2. QED BY <2>1 DEF UndeterminedSlotIsUniform, Unset
<1>22. Typed'
  <2>1. OperandsDefined(ops)'
    BY <1>16 DEF Dominance, DefinedBeforeUse, OperandsDefined
  <2>2. ASSUME NEW y \in DOMAIN ops \ {Cur, NewPos}
        PROVE  /\ y \in Position /\ IsVector(sem'[y])
               /\ ops'[y].kind = "extract" => ops'[y].i \in Slots \cup {Unset}
               /\ ops'[y].kind = "insert" => ops'[y].i \in Slots
               /\ WellTyped(ops', ops'[y])
               /\ IsScalar(ops'[y]) => IsUniform(sem'[y])
    <3>1. /\ y \in Position /\ IsVector(sem[y]) /\ WellTyped(ops, ops[y])
          /\ ops[y].kind = "extract" => ops[y].i \in Slots \cup {Unset}
          /\ ops[y].kind = "insert" => ops[y].i \in Slots
          /\ IsScalar(ops[y]) => IsUniform(sem[y])
          /\ ops[y] \in Op
      BY <1>1, <1>3 DEF Typed
    <3>2. WellTyped(ops', ops'[y])
      <4>1. /\ ops[y].args \in Seq(Position) /\ ops'[y].args \in Seq(Position)
            /\ ops[y].kind \in Kinds
        BY <1>12, <1>15, <3>1 DEF Op
      <4>2. \A k \in DOMAIN ops[y].args :
              ops[ops[y].args[k]].type = ops'[ops'[y].args[k]].type
        BY <1>13, <1>15
      <4>3. QED BY <1>15, <3>1, <4>1, <4>2, WellTypedAgrees
    <3>3. QED BY <1>15, <3>1, <3>2 DEF IsScalar
  <2>3. WellTyped(ops', ops'[NewPos]) /\ ~IsScalar(ops'[NewPos])
    <3>1. /\ \A k \in 1 .. L : ops'[ops'[NewPos].args[k]].type = ops[NewOperand(k)].type
          /\ \A k \in 1 .. L : ops[NewOperand(k)].type \in {"batched", "plain"}
          /\ \E k \in 1 .. L : ops[NewOperand(k)].type = "batched"
      <4>1. /\ \A k \in 1 .. L : ops[NewOperand(k)].type \in {"batched", "plain"}
            /\ \E k \in 1 .. L : ops[NewOperand(k)].type = "batched"
        BY <1>2, <1>3, ConvertedTypes
      <4>2. ASSUME NEW k \in 1 .. L
            PROVE  ops'[ops'[NewPos].args[k]].type = ops[ops[NewPos].args[k]].type
        <5>1. NewPos \in DOMAIN ops \ {Cur} /\ k \in DOMAIN ops'[NewPos].args
          BY <1>3, <1>14
        <5>2. QED BY <1>13, <5>1
      <4>3. QED BY <4>1, <4>2 DEF NewOperand
    <3>2. /\ DOMAIN ArgTypes(ops', ops'[NewPos]) = 1 .. L
          /\ \A k \in 1 .. L : ArgTypes(ops', ops'[NewPos])[k] = ops[NewOperand(k)].type
      BY <1>14, <3>1 DEF ArgTypes
    <3>3. InferredType(ops', ops'[NewPos].args) = "batched"
      BY <1>14, <3>1 DEF InferredType
    <3> DEFINE ts == ArgTypes(ops', ops'[NewPos])
    <3>4. /\ \A k \in DOMAIN ts : ts[k] # "none"
          /\ \E k \in DOMAIN ts : ts[k] \in {"secret", "batched"}
      BY <3>1, <3>2
    <3>5. ops'[NewPos].kind \in Arithmetic /\ ops'[NewPos].type = "batched"
      BY <1>3, <1>14
    <3>6. WellTyped(ops', ops'[NewPos])
      <4> HIDE DEF ts
      <4>1. QED BY <3>3, <3>4, <3>5 DEF WellTyped, Arithmetic, PlainArithmetic, ts
    <3>7. QED BY <3>5, <3>6 DEF IsScalar
  <2>4. WellTyped(ops', ops'[r])
    <3>1. ArgTypes(ops', ops'[r]) = [k \in {1} |-> "batched"]
      BY <1>14 DEF ArgTypes
    <3>2. Len(ArgTypes(ops', ops'[r])) = 1
      BY <3>1
    <3>3. QED BY <1>14, <3>1, <3>2 DEF WellTyped, Arithmetic, PlainArithmetic
  <2>5. /\ IsVector(sem[NewPos]) /\ IsVector(sem[Cur]) /\ IsUniform(sem[Cur])
    BY <1>1, <1>3 DEF Typed, IsScalar
  <2>6. ASSUME NEW y \in DOMAIN ops'
        PROVE  /\ y \in Position /\ ops'[y] \in Op /\ IsVector(sem'[y])
               /\ ops'[y].kind = "extract" => ops'[y].i \in Slots \cup {Unset}
               /\ ops'[y].kind = "insert" => ops'[y].i \in Slots
               /\ WellTyped(ops', ops'[y])
               /\ IsScalar(ops'[y]) => IsUniform(sem'[y])
    <3>1. CASE y = r
      BY <1>4, <1>5, <1>11, <1>12, <1>14, <2>4, <2>5, <3>1
    <3>2. CASE y = NewPos
      BY <1>3, <1>6, <1>11, <1>12, <1>14, <2>3, <2>5, <3>2 DEF Arithmetic
    <3>3. CASE y \in DOMAIN ops \ {Cur, NewPos}
      BY <1>12, <1>15, <2>2, <3>3
    <3>4. QED BY <1>10, <3>1, <3>2, <3>3
  <2>7. /\ n' \in Nat \ {0} /\ pc' \in {"walk", "convert", "done", "failed"}
        /\ target' \in Slots \cup {Unset} /\ j' \in Nat \ {0} /\ DOMAIN sem' = DOMAIN ops'
    BY <1>1, <1>2, <1>3, <1>11 DEF Typed
  <2>8. QED BY <2>1, <2>6, <2>7 DEF Typed, Unset
<1>23. Conversion' /\ SourceKept'
  BY <1>1, <1>2 DEF Conversion, SourceKept
<1>24. QED
  BY <1>16, <1>17, <1>18, <1>19, <1>21, <1>22, <1>23 DEF IInv

(* An operand that cannot be converted ends the pass; nothing else changes. *)
LEMMA RejectOperandIInv == IInv /\ RejectOperand => IInv'
<1> SUFFICES ASSUME IInv, RejectOperand PROVE IInv'
  OBVIOUS
<1>1. /\ ops' = ops /\ sem' = sem /\ src' = src /\ target' = target /\ j' = j /\ n' = n
      /\ pc = "convert" /\ pc' = "failed"
  BY DEF RejectOperand, Converting
<1>2. Typed'
  <2>1. \A x \in DOMAIN ops : Unfinished(x)' <=> Unfinished(x)
    BY <1>1 DEF Unfinished, NewPos, Cur
  <2>2. OperandsDefined(ops)'
    BY <1>1 DEF IInv, Typed
  <2>3. QED BY <1>1, <2>1, <2>2 DEF IInv, Typed
<1>3. PositionsInOrder'
  BY <1>1 DEF IInv, PositionsInOrder, NewPos, Cur
<1>4. Dominance' /\ ReturnsKept' /\ Consistent(ops, sem)' /\ UndeterminedSlotIsUniform'
  BY <1>1 DEF IInv, Dominance, ReturnsKept, UndeterminedSlotIsUniform
<1>5. Conversion' /\ SourceKept'
  BY <1>1 DEF IInv, Conversion, SourceKept
<1>6. QED BY <1>2, <1>3, <1>4, <1>5 DEF IInv

-----------------------------------------------------------------------------
(* IInv is an inductive invariant. *)
LEMMA NextIInv == IInv /\ [Next]_vars => IInv'
<1> SUFFICES ASSUME IInv, [Next]_vars PROVE IInv'
  OBVIOUS
<1>1. CASE WalkPast \/ WalkEnds
  BY <1>1, WalkIInv
<1>2. CASE CreateNewOp
  BY <1>2, CreateNewOpIInv
<1>3. CASE KeepOperand
  BY <1>3, KeepOperandIInv
<1>4. CASE RotateOperand
  BY <1>4, RotateOperandIInv
<1>5. CASE BroadcastConstant
  BY <1>5, BroadcastConstantIInv
<1>6. CASE RejectOperand
  BY <1>6, RejectOperandIInv
<1>7. CASE ReplaceOriginal
  BY <1>7, ReplaceOriginalIInv
<1>8. CASE UNCHANGED vars
  <2>1. Typed'
    BY <1>8 DEF vars, IInv, Typed, Unfinished, NewPos, Cur, OperandsDefined
  <2>2. PositionsInOrder' /\ Conversion' /\ SourceKept'
    BY <1>8 DEF vars, IInv, PositionsInOrder, Conversion, SourceKept, NewPos, Cur,
                NewOperand, OldOperand
  <2>3. Dominance' /\ ReturnsKept' /\ Consistent(ops, sem)' /\ UndeterminedSlotIsUniform'
    BY <1>8 DEF vars, IInv, Dominance, ReturnsKept, UndeterminedSlotIsUniform
  <2>4. QED BY <2>1, <2>2, <2>3 DEF IInv
<1>9. QED
  BY <1>1, <1>2, <1>3, <1>4, <1>5, <1>6, <1>7, <1>8 DEF Next, Convert

(* In every reachable state the inductive invariant holds: this is where   *)
(* the walk of runOnOperation and the conversion loop of                   *)
(* batchArithmeticOperation are summed up.                                 *)
THEOREM InvariantHolds == Spec => []IInv
<1>1. Init => IInv
  BY InitIInv
<1>2. IInv /\ [Next]_vars => IInv'
  BY NextIInv
<1>3. QED BY <1>1, <1>2, PTL DEF Spec

(* Type correctness: whatever program the pass is given, every operation   *)
(* but the one under conversion always passes the verifier, scalars are    *)
(* denoted by uniform vectors, and operands are defined before they are    *)
(* used: the insertion points that the pass sets are right.               *)
THEOREM TypeCorrect == Spec => []TypeOK
<1>1. IInv => TypeOK
  BY DEF IInv, TypeOK
<1>2. QED BY <1>1, InvariantHolds, PTL

(* The extract from slot -1 that an operation without a target slot gets   *)
(* (getIndexAttr(target_slot)) always reads a vector with one value in all *)
(* its slots.                                                              *)
THEOREM UndeterminedSlotsAreUniform == Spec => []UndeterminedSlotIsUniform
<1>1. IInv => UndeterminedSlotIsUniform
  BY DEF IInv
<1>2. QED BY <1>1, InvariantHolds, PTL

(* What the function returns is determined by the values of its returns.   *)
LEMMA MeaningFromInvariant == IInv => MeaningPreserved
<1> SUFFICES ASSUME IInv PROVE MeaningPreserved
  OBVIOUS
<1>1. ReturnsOf(ops) = ReturnsOf(src.ops) /\ Consistent(ops, sem) /\ Typed
      /\ IsProgram(src)
  BY SourceAssumption DEF IInv, ReturnsKept, SourceKept
<1>2. ASSUME NEW x \in ReturnsOf(ops)
      PROVE  sem[ops[x].args[1]] = src.sem[src.ops[x].args[1]]
  <2>1. x \in DOMAIN ops /\ x \in DOMAIN src.ops
        /\ ops[x].kind = "return" /\ src.ops[x].kind = "return"
    BY <1>1 DEF ReturnsOf
  <2>2. sem[x] = Eval(ops[x], sem) /\ src.sem[x] = Eval(src.ops[x], src.sem)
    BY <1>1, <2>1 DEF Consistent, IsProgram
  <2>3. /\ Eval(ops[x], sem) = sem[ops[x].args[1]]
        /\ Eval(src.ops[x], src.sem) = src.sem[src.ops[x].args[1]]
    BY <2>1, EvalByKind, Zenon
  <2>4. sem[x] = src.sem[x]
    BY <1>2 DEF IInv, ReturnsKept
  <2>5. QED BY <2>2, <2>3, <2>4
<1>3. ValuesReturned(ops, sem) = ValuesReturned(src.ops, src.sem)
  BY <1>1, <1>2 DEF ValuesReturned
<1>4. QED BY <1>1, <1>3 DEF MeaningPreserved

(* Batching never changes what a program computes: in every state of the   *)
(* pass, each operation has the value its operands give it, and the        *)
(* function returns what the source program returns, for every number of   *)
(* slots and every interpretation of add, sub and multiply.                *)
THEOREM BatchingPreservesMeaning == Spec => []MeaningPreserved
<1>1. QED BY MeaningFromInvariant, InvariantHolds, PTL

-----------------------------------------------------------------------------
(* The batching pass keeps the contract all passes have with the pipeline: *)
(* it runs until it succeeds or fails, and the values the function returns *)
(* never change.                                                           *)
THEOREM BatchingKeepsContract == Spec => KeepsContract
<1>1. Init => Contract!Init
  BY DEF Init, Contract!Init
<1>2. MeaningPreserved /\ MeaningPreserved' /\ [Next]_vars => [Contract!End]_(Contract!vars)
  <2> SUFFICES ASSUME MeaningPreserved, MeaningPreserved', [Next]_vars
               PROVE  [Contract!End]_(Contract!vars)
    OBVIOUS
  <2>1. src' = src /\ (pc' = pc \/ pc \notin {"done", "failed"})
    BY DEF Next, Convert, WalkPast, WalkEnds, CreateNewOp, KeepOperand, RotateOperand,
           BroadcastConstant, RejectOperand, ReplaceOriginal, Converting, vars
  <2>2. ValuesReturned(ops, sem)' = ValuesReturned(ops, sem)
    BY <2>1 DEF MeaningPreserved
  <2>3. QED BY <2>1, <2>2 DEF Contract!End, Contract!vars
<1>3. QED BY <1>1, <1>2, BatchingPreservesMeaning, PTL DEF Spec, KeepsContract, Contract!Spec

-----------------------------------------------------------------------------
(***************************************************************************)
(* That results land in slots where their users want them.  Only inserts   *)
(* and returns want a slot, and the pass makes none and moves none: it     *)
(* suffices to follow who uses what.                                       *)
(***************************************************************************)
Uses(o, x) == \E k \in DOMAIN o.args : o.args[k] = x

\* Who has a say in the slot of x, in a body.
Wants(body, u, x) ==
  u \in DOMAIN body /\ body[u].kind \in {"insert", "return"} /\ Uses(body[u], x)

\* UserSlots, of any body.
WantedIn(body, x) ==
  {body[u].i : u \in {w \in Users(body, x) : body[w].kind = "insert"}}
    \cup {0 : u \in {w \in Users(body, x) : body[w].kind = "return"}}

\* The target slot is chosen when the conversion starts, and stays wanted.
TargetWanted == pc = "convert" /\ UserSlots(Cur) # {} => target \in UserSlots(Cur)

RInv == ResultsLandWhereWanted /\ TargetWanted

-----------------------------------------------------------------------------
(* The slots that are wanted depend on those who want one only.            *)
LEMMA SameWanted ==
  ASSUME NEW a, NEW b, NEW x, NEW y,
         \A u : Wants(a, u, x) <=> Wants(b, u, y),
         \A u : Wants(a, u, x) => a[u].kind = b[u].kind /\ a[u].i = b[u].i
  PROVE  WantedIn(a, x) = WantedIn(b, y)
<1>1. ASSUME NEW c, NEW z, NEW s
      PROVE  s \in WantedIn(c, z) <=>
               \E u : /\ Wants(c, u, z)
                      /\ \/ c[u].kind = "insert" /\ s = c[u].i
                         \/ c[u].kind = "return" /\ s = 0
  BY DEF WantedIn, Wants, Users, Uses
<1>2. \A s : s \in WantedIn(a, x) <=> s \in WantedIn(b, y)
  BY <1>1
<1>3. QED BY <1>2 DEF WantedIn

(* A step that changes arithmetic operations and adds others which are no  *)
(* extracts and want nothing.                                              *)
LEMMA NothingWantedAnew ==
  ASSUME RInv, NEW A \in SUBSET DOMAIN ops, DOMAIN ops \subseteq DOMAIN ops',
         \A x \in DOMAIN ops \ A : ops'[x] = ops[x],
         \A x \in A : ops[x].kind \in Arithmetic,
         \A x \in DOMAIN ops' : x \in A \/ x \notin DOMAIN ops =>
           ops'[x].kind \in Arithmetic \cup {"rotate", "constant"}
  PROVE  ResultsLandWhereWanted' /\ \A x : UserSlots(x)' = UserSlots(x)
<1>1. ASSUME NEW x PROVE UserSlots(x)' = UserSlots(x)
  <2>1. \A u : Wants(ops', u, x) <=> Wants(ops, u, x)
    BY DEF Wants, Arithmetic
  <2>2. \A u : Wants(ops', u, x) => ops'[u].kind = ops[u].kind /\ ops'[u].i = ops[u].i
    BY DEF Wants, Arithmetic
  <2>3. WantedIn(ops', x) = WantedIn(ops, x)
    BY <2>1, <2>2, SameWanted
  <2>4. QED BY <2>3 DEF WantedIn, UserSlots
<1>2. ASSUME NEW x \in DOMAIN ops', ops'[x].kind = "extract"
      PROVE  x \in DOMAIN ops /\ ops'[x] = ops[x]
  BY <1>2 DEF Arithmetic
<1>3. QED BY <1>1, <1>2 DEF RInv, ResultsLandWhereWanted

LEMMA InitRInv == Init => RInv
<1> SUFFICES ASSUME Init PROVE RInv
  OBVIOUS
<1>1. \A x \in DOMAIN ops : x[2] = 0
  BY SourceAssumption DEF Init, IsProgram
<1>2. QED BY <1>1 DEF RInv, ResultsLandWhereWanted, TargetWanted, Init

LEMMA UnchangedRInv ==
  ASSUME RInv, ops' = ops,
         pc' = "convert" => pc = "convert" /\ UNCHANGED <<n, target>>
  PROVE  RInv'
<1>1. \A x : UserSlots(x)' = UserSlots(x)
  BY DEF UserSlots, Users
<1>2. ResultsLandWhereWanted'
  BY <1>1 DEF RInv, ResultsLandWhereWanted
<1>3. TargetWanted'
  BY <1>1 DEF RInv, TargetWanted, Cur
<1>4. QED BY <1>2, <1>3 DEF RInv

(* The pass starts on an operation: the target slot is one that is wanted. *)
LEMMA CreateNewOpRInv == IInv /\ RInv /\ CreateNewOp => RInv'
<1> SUFFICES ASSUME IInv, RInv, CreateNewOp PROVE RInv'
  OBVIOUS
<1>1. /\ pc = "walk" /\ n' = n /\ Cur \in DOMAIN ops /\ ops[Cur].kind \in Arithmetic
      /\ ops' = Placed(ops, NewPos, ops[Cur]) /\ target' \in TargetSlots
  BY DEF CreateNewOp, NeedsBatching
<1>2. NewPos \notin DOMAIN ops
  <2>1. Len(ops[Cur].args) \in Nat /\ n \in Nat
    BY <1>1, BodyFacts DEF IInv, Typed
  <2>2. NewPos[1] = n /\ NewPos[2] # 0
    BY <2>1 DEF NewPos
  <2>3. QED BY <1>1, <2>2 DEF IInv, PositionsInOrder
<1>3. /\ DOMAIN ops' = DOMAIN ops \cup {NewPos} /\ ops'[NewPos] = ops[Cur]
      /\ \A x \in DOMAIN ops : ops'[x] = ops[x]
  BY <1>1, <1>2 DEF Placed
<1>4. ResultsLandWhereWanted' /\ \A x : UserSlots(x)' = UserSlots(x)
  <2> DEFINE A == {}
  <2>1. /\ A \in SUBSET DOMAIN ops /\ DOMAIN ops \subseteq DOMAIN ops'
        /\ \A x \in DOMAIN ops \ A : ops'[x] = ops[x]
        /\ \A x \in A : ops[x].kind \in Arithmetic
        /\ \A x \in DOMAIN ops' : x \in A \/ x \notin DOMAIN ops =>
             ops'[x].kind \in Arithmetic \cup {"rotate", "constant"}
    BY <1>1, <1>3
  <2> HIDE DEF A
  <2>2. QED BY <2>1, NothingWantedAnew
<1>5. TargetWanted'
  <2>1. Cur' = Cur
    BY <1>1 DEF Cur
  <2>2. UserSlots(Cur)' = UserSlots(Cur)
    BY <1>4, <2>1
  <2>3. UserSlots(Cur) # {} => target' \in UserSlots(Cur)
    BY <1>1 DEF TargetSlots
  <2>4. QED BY <2>2, <2>3 DEF TargetWanted
<1>6. QED BY <1>4, <1>5 DEF RInv

(* What converts an operand is a rotation or a constant, and the target    *)
(* slot is still the wanted one.                                           *)
LEMMA PlaceOperandRInv ==
  ASSUME IInv, RInv, Converting, NEW o, o.kind \in {"rotate", "constant"},
         PlaceOperand(o), UNCHANGED <<n, pc>>,
         UserSlots(Cur) # {} => target' = target
  PROVE  RInv'
<1> DEFINE x == OperandPos(j)
           changed == ReplaceOperand(ops[NewPos], Operand, x)
<1>1. /\ NewPos \in DOMAIN ops /\ ops[NewPos].kind \in Arithmetic /\ ops[NewPos] \in Op
      /\ j \in 1 .. Len(ops[Cur].args) /\ NewPos = <<n, Len(ops[Cur].args) + 1>>
      /\ n \in Nat /\ Len(ops[Cur].args) \in Nat /\ pc = "convert"
  BY ConversionFacts DEF Converting, IInv, Typed
<1>2. x \in Position /\ x # NewPos /\ x \notin DOMAIN ops
  BY <1>1 DEF OperandPos, Position, IInv, PositionsInOrder
<1>3. changed.kind = ops[NewPos].kind
  <2> HIDE DEF x
  <2>1. QED BY <1>1, <1>2, ReplaceOperandFacts
<1>4. ops' = [Placed(ops, x, o) EXCEPT ![NewPos] = changed]
  BY DEF PlaceOperand
<1> HIDE DEF x, changed
<1>5. /\ DOMAIN ops' = DOMAIN ops \cup {x} /\ ops'[x] = o /\ ops'[NewPos] = changed
      /\ \A y \in DOMAIN ops \ {NewPos} : ops'[y] = ops[y]
  BY <1>1, <1>2, <1>4 DEF Placed
<1>6. ResultsLandWhereWanted' /\ \A y : UserSlots(y)' = UserSlots(y)
  <2> DEFINE A == {NewPos}
  <2>1. /\ A \in SUBSET DOMAIN ops /\ DOMAIN ops \subseteq DOMAIN ops'
        /\ \A y \in DOMAIN ops \ A : ops'[y] = ops[y]
        /\ \A y \in A : ops[y].kind \in Arithmetic
        /\ \A y \in DOMAIN ops' : y \in A \/ y \notin DOMAIN ops =>
             ops'[y].kind \in Arithmetic \cup {"rotate", "constant"}
    BY <1>1, <1>3, <1>5
  <2> HIDE DEF A
  <2>2. QED BY <2>1, NothingWantedAnew
<1>7. TargetWanted'
  <2>1. Cur' = Cur
    BY DEF Cur
  <2>2. UserSlots(Cur)' = UserSlots(Cur)
    BY <1>6, <2>1
  <2>3. QED BY <1>1, <2>2 DEF TargetWanted, RInv
<1>8. QED BY <1>6, <1>7 DEF RInv

LEMMA ConvertRInv == IInv /\ RInv /\ Convert => RInv'
<1> SUFFICES ASSUME IInv, RInv, Convert PROVE RInv'
  OBVIOUS
<1>1. CASE KeepOperand
  BY <1>1, UnchangedRInv DEF KeepOperand
<1>2. CASE RotateOperand
  <2> DEFINE o == RotateOp(ops[Operand].args[1], RotationFrom(ops[Operand].i, target'))
  <2>1. Converting /\ PlaceOperand(o) /\ UNCHANGED <<n, pc>>
    BY <1>2 DEF RotateOperand
  <2>2. o.kind = "rotate"
    BY DEF RotateOp, MakeIndexed, MakeOp
  <2>3. UserSlots(Cur) # {} => target' = target
    <3>1. UserSlots(Cur) \subseteq Slots /\ Unset \notin Slots
      BY NAssumption DEF UserSlots, Users, IInv, Typed, Slots, Unset
    <3>2. UserSlots(Cur) # {} => target # Unset
      BY <2>1, <3>1 DEF RInv, TargetWanted, Converting
    <3>3. QED BY <1>2, <3>2 DEF RotateOperand
  <2> HIDE DEF o
  <2>4. QED BY <2>1, <2>2, <2>3, PlaceOperandRInv
<1>3. CASE BroadcastConstant
  <2> DEFINE o == ConstantOp("batched", ops[Operand].val)
  <2>1. Converting /\ PlaceOperand(o) /\ UNCHANGED <<n, pc, target>>
    BY <1>3 DEF BroadcastConstant
  <2>2. o.kind = "constant"
    BY DEF ConstantOp, MakeOp
  <2> HIDE DEF o
  <2>3. QED BY <2>1, <2>2, PlaceOperandRInv
<1>4. CASE RejectOperand
  BY <1>4, UnchangedRInv DEF RejectOperand
<1>5. QED BY <1>1, <1>2, <1>3, <1>4 DEF Convert

(* The result inherits the users of the original, and with them the slots  *)
(* that are wanted.                                                        *)
LEMMA ReplaceOriginalRInv == IInv /\ RInv /\ ReplaceOriginal => RInv'
<1> SUFFICES ASSUME IInv, RInv, ReplaceOriginal PROVE RInv'
  OBVIOUS
<1> DEFINE r == ResultPos
           made == CreatedAgain
           result == ExtractOp(NewPos, ResultSlot)
           withNew == Placed([ops EXCEPT ![NewPos] = made], r, result)
<1>1. /\ pc = "convert" /\ pc' = "walk" /\ j > Len(ops[NewPos].args)
      /\ ops' = Erased(ReplaceAllUses(withNew, Cur, r), Cur)
  BY DEF ReplaceOriginal
<1>2. /\ Cur = <<n, 0>> /\ n \in Nat /\ Cur \in DOMAIN ops /\ Len(ops[Cur].args) \in Nat
      /\ Len(ops[NewPos].args) = Len(ops[Cur].args)
      /\ NewPos = <<n, Len(ops[Cur].args) + 1>> /\ NewPos \in DOMAIN ops /\ Cur # NewPos
      /\ ops[Cur].kind \in Arithmetic /\ ops[NewPos].kind = ops[Cur].kind
  BY <1>1, ConversionFacts
<1>3. r \in Position /\ r \notin DOMAIN ops /\ r # NewPos /\ r # Cur
  <2>1. j = Len(ops[Cur].args) + 1
    BY <1>1, <1>2 DEF IInv, Conversion, Typed
  <2>2. r = <<n, Len(ops[Cur].args) + 2>>
    BY DEF ResultPos
  <2>3. r[1] = n /\ r[2] = Len(ops[Cur].args) + 2 /\ r # NewPos /\ r # Cur /\ r \in Position
    BY <1>2, <2>2 DEF Position
  <2>4. ~(r[2] = 0) /\ ~(r[2] < j)
    BY <1>2, <2>1, <2>3
  <2>5. r \notin DOMAIN ops
    BY <2>3, <2>4 DEF IInv, PositionsInOrder
  <2>6. QED BY <2>3, <2>5
<1>4. /\ result \in Op /\ result.kind = "extract" /\ result.i = target
      /\ made \in Op /\ made.kind = ops[Cur].kind
  <2>1. target \in Int /\ NewPos \in Position
    BY <1>2 DEF IInv, Typed, Slots, Unset
  <2>2. result \in Op /\ result.kind = "extract" /\ result.i = target
    BY <2>1, ExtractOpFacts DEF ResultSlot
  <2>3. ops[NewPos].args \in Seq(Position) /\ ops[NewPos].kind \in Kinds /\ << >> \in Seq(Int)
    BY <1>2, BodyFacts DEF IInv
  <2>4. InferredType(ops, ops[NewPos].args) \in Types
    BY DEF InferredType, Types
  <2>5. made = [kind |-> ops[NewPos].kind, type |-> InferredType(ops, ops[NewPos].args),
                args |-> ops[NewPos].args, i |-> 0, slots |-> << >>, val |-> NoLiteral]
    BY DEF CreatedAgain, ArithmeticOp, MakeOp
  <2>6. QED BY <1>2, <2>2, <2>3, <2>4, <2>5 DEF Op
<1> HIDE DEF r, made, result
<1>5. /\ DOMAIN withNew = DOMAIN ops \cup {r}
      /\ withNew[r] = result /\ withNew[NewPos] = made
      /\ \A y \in DOMAIN ops \ {NewPos} : withNew[y] = ops[y]
  BY <1>2, <1>3 DEF Placed
<1> HIDE DEF withNew
<1>6. /\ DOMAIN ops' = (DOMAIN ops \cup {r}) \ {Cur}
      /\ \A y \in DOMAIN ops' : ops'[y] = ReplaceOperand(withNew[y], Cur, r)
  BY <1>1, <1>5 DEF Erased, ReplaceAllUses
<1>7. /\ ops'[r].kind = "extract" /\ ops'[r].i = target
      /\ ops'[NewPos].kind = ops[Cur].kind
  <2>1. ops'[r] = ReplaceOperand(result, Cur, r) /\ ops'[NewPos] = ReplaceOperand(made, Cur, r)
    BY <1>2, <1>3, <1>5, <1>6
  <2>2. QED BY <1>3, <1>4, <2>1, ReplaceOperandFacts
\* Whoever else there is uses the result where it used the original, and
\* everything else as before.
<1>8. ASSUME NEW u \in DOMAIN ops \ {Cur, NewPos}
      PROVE  /\ u \in DOMAIN ops' /\ ops'[u].kind = ops[u].kind /\ ops'[u].i = ops[u].i
             /\ Uses(ops'[u], r) <=> Uses(ops[u], Cur)
             /\ \A y \in DOMAIN ops \ {Cur} : Uses(ops'[u], y) <=> Uses(ops[u], y)
  <2>1. u \in DOMAIN ops' /\ ops'[u] = ReplaceOperand(ops[u], Cur, r)
    BY <1>5, <1>6
  <2>2. ops[u] \in Op /\ \A k \in DOMAIN ops[u].args : ops[u].args[k] \in DOMAIN ops
    BY BodyFacts DEF IInv
  <2>3. /\ ops'[u].kind = ops[u].kind /\ ops'[u].i = ops[u].i
        /\ DOMAIN ops'[u].args = DOMAIN ops[u].args
        /\ \A k \in DOMAIN ops[u].args :
             ops'[u].args[k] = IF ops[u].args[k] = Cur THEN r ELSE ops[u].args[k]
    BY <1>3, <2>1, <2>2, ReplaceOperandFacts
  <2>4. QED BY <1>3, <2>1, <2>2, <2>3 DEF Uses
<1>9. /\ Cur \in DOMAIN ops /\ ~(ops[Cur].kind \in {"insert", "return"})
      /\ ~(ops[NewPos].kind \in {"insert", "return"})
      /\ ~(ops'[NewPos].kind \in {"insert", "return", "extract"})
      /\ ops'[r].kind = "extract" /\ ops'[r].i = target
  BY <1>2, <1>7 DEF Arithmetic
<1>10. WantedIn(ops', r) = WantedIn(ops, Cur)
  <2>1. \A u : Wants(ops', u, r) <=> Wants(ops, u, Cur)
    BY <1>3, <1>6, <1>8, <1>9 DEF Wants
  <2>2. \A u : Wants(ops', u, r) => ops'[u].kind = ops[u].kind /\ ops'[u].i = ops[u].i
    BY <1>3, <1>6, <1>8, <1>9 DEF Wants
  <2>3. QED BY <2>1, <2>2, SameWanted
<1>11. ASSUME NEW y \in DOMAIN ops \ {Cur} PROVE WantedIn(ops', y) = WantedIn(ops, y)
  <2>1. \A u : Wants(ops', u, y) <=> Wants(ops, u, y)
    BY <1>3, <1>6, <1>8, <1>9 DEF Wants
  <2>2. \A u : Wants(ops', u, y) => ops'[u].kind = ops[u].kind /\ ops'[u].i = ops[u].i
    BY <1>3, <1>6, <1>8, <1>9 DEF Wants
  <2>3. QED BY <2>1, <2>2, SameWanted
<1>12. \A y : UserSlots(y) = WantedIn(ops, y) /\ UserSlots(y)' = WantedIn(ops', y)
  BY Zenon DEF UserSlots, WantedIn
<1>13. ASSUME NEW y \in DOMAIN ops', ops'[y].kind = "extract", y[2] # 0, WantedIn(ops', y) # {}
       PROVE  ops'[y].i \in WantedIn(ops', y)
  <2>1. CASE y = r
    <3>1. UserSlots(Cur) = WantedIn(ops, Cur)
      BY DEF UserSlots, WantedIn
    <3>2. QED BY <1>1, <1>9, <1>10, <1>13, <2>1, <3>1 DEF RInv, TargetWanted
  <2>2. CASE y # r
    <3>1. y \in DOMAIN ops \ {Cur, NewPos}
      BY <1>6, <1>9, <1>13, <2>2
    <3>2. QED BY <1>8, <1>11, <1>12, <1>13, <3>1 DEF RInv, ResultsLandWhereWanted
  <2>3. QED BY <2>1, <2>2
<1>14. ResultsLandWhereWanted'
  BY <1>12, <1>13 DEF ResultsLandWhereWanted
<1>15. QED BY <1>1, <1>14 DEF RInv, TargetWanted

(* A result that is inserted into a vector, or returned, is extracted from *)
(* a slot where one of these users wants it: in every state of the pass,   *)
(* for every program (the use-based choice of target_slot).                *)
THEOREM ResultsLandRight == Spec => []ResultsLandWhereWanted
<1>1. Init => IInv /\ RInv
  BY InitIInv, InitRInv
<1>2. IInv /\ RInv /\ [Next]_vars => (IInv /\ RInv)'
  <2> SUFFICES ASSUME IInv, RInv, [Next]_vars PROVE IInv' /\ RInv'
    OBVIOUS
  <2>1. IInv'
    BY NextIInv
  <2>2. CASE WalkPast
    BY <2>1, <2>2, UnchangedRInv DEF WalkPast
  <2>3. CASE WalkEnds
    BY <2>1, <2>3, UnchangedRInv DEF WalkEnds
  <2>4. CASE UNCHANGED vars
    BY <2>1, <2>4, UnchangedRInv DEF vars
  <2>5. QED
    BY <2>1, <2>2, <2>3, <2>4, CreateNewOpRInv, ConvertRInv, ReplaceOriginalRInv DEF Next
<1>3. IInv /\ RInv => ResultsLandWhereWanted
  BY DEF RInv
<1>4. QED BY <1>1, <1>2, <1>3, PTL DEF Spec
=============================================================================
