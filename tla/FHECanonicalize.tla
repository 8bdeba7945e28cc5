-------------------------- MODULE FHECanonicalize --------------------------
(***************************************************************************)
(* The canonicalizer on the fhe dialect (src/IR/FHE/FHEDialect.cpp): the   *)
(* fold and canonicalize methods of its operations, applied by MLIR's      *)
(* greedy driver, which is external.  The driver promises no order, so any *)
(* rewrite that applies anywhere may be the next one; it erases operations *)
(* that nobody uses (every fhe operation is declared free of side          *)
(* effects), and it stops when no rewrite applies.                         *)
(*                                                                         *)
(* materialize is left out: it converts between types and computes nothing.*)
(***************************************************************************)
EXTENDS HIR, Subsequences

CONSTANTS
  Zero, One,   \* the literals that the folds of arithmetic look for
  Source       \* the programs the canonicalizer is run on

ASSUME LiteralsAssumption == {Zero, One} \subseteq Literal

ASSUME SourceAssumption == \A p \in Source : IsProgram(p)

\* InsertOp::canonicalize and the combine-simplify pass, which alone make
\* combines, list slots without gaps.
ASSUME ListsAssumption ==
  \A p \in Source : \A x \in DOMAIN p.ops : p.ops[x].kind = "combine" => Ascending(p.ops[x].slots)

-----------------------------------------------------------------------------
(* Arithmetic, on the scalars and for the numbers of operands that there   *)
(* are in the programs: an operation with one operand is that operand, and *)
(* operands that are neutral change nothing, but for what is subtracted    *)
(* from.                                                                   *)

Scalars == UNION {{p.sem[x][s] : x \in DOMAIN p.ops, s \in Slots} : p \in Source}

OperandCounts == UNION {{Len(p.ops[x].args) : x \in DOMAIN p.ops} : p \in Source}

Neutral(kind) == IF kind = "multiply" THEN One ELSE Zero

ASSUME UnaryAssumption == \A kind \in Arithmetic, c \in Scalars : Apply(kind, <<c>>) = c

ASSUME NeutralAssumption ==
  \A kind \in Arithmetic, n \in UNION {1 .. k : k \in OperandCounts} :
    \A xs \in [1 .. n -> Scalars], K \in SUBSET (1 .. n) :
      /\ K # {}
      /\ kind = "sub" => 1 \in K
      /\ \A k \in (1 .. n) \ K : xs[k] = Neutral(kind)
      => Apply(kind, Picked(xs, K)) = Apply(kind, xs)

VARIABLES
  src,      \* the program the canonicalizer was given; never changes
  ops,      \* the body of the function
  sem,      \* its denotation
  status    \* "running", or "undefined" after undefined behaviour

vars == <<src, ops, sem, status>>

Init ==
  /\ src \in Source
  /\ ops = src.ops
  /\ sem = src.sem
  /\ status = "running"

-----------------------------------------------------------------------------
(* Replacing an operation by one of the values it uses. *)
ReplaceBy(x, y) ==
  /\ ops' = Erased(ReplaceAllUses(ops, x, y), x)
  /\ sem' = Erased(sem, x)
  /\ UNCHANGED <<src, status>>

\* Replacing it by another operation, in place.
Rewrite(x, o) ==
  /\ ops' = [ops EXCEPT ![x] = o]
  /\ UNCHANGED <<src, sem, status>>

IsKind(x, kind) == status = "running" /\ ops[x].kind = kind

-----------------------------------------------------------------------------
(* AddOp::fold, SubOp::fold and MultiplyOp::fold drop all operands that    *)
(* are the neutral element.                                                *)

Kept(o) ==
  Picked(o.args, {k \in DOMAIN o.args :
                    ~(ops[o.args[k]].kind = "constant" /\ ops[o.args[k]].val = Neutral(o.kind))})

IsArithmetic(x) == status = "running" /\ ops[x].kind \in Arithmetic

FoldInPlace(x) ==
  /\ IsArithmetic(x)
  /\ Len(Kept(ops[x])) > 1
  /\ Kept(ops[x]) # ops[x].args
  /\ Rewrite(x, [ops[x] EXCEPT !.args = Kept(ops[x])])

FoldToOperand(x) ==
  /\ IsArithmetic(x)
  /\ Len(Kept(ops[x])) = 1
  /\ ReplaceBy(x, Kept(ops[x])[1])

\* front() of no operands at all
FoldNothingLeft(x) ==
  /\ IsArithmetic(x)
  /\ Kept(ops[x]) = << >>
  /\ status' = "undefined"
  /\ UNCHANGED <<src, ops, sem>>

-----------------------------------------------------------------------------
(* RotateOp::fold *)

\* Mutant: a rotation by all slots is the one that is dropped.
FoldRotateWhole(x) ==
  /\ IsKind(x, "rotate")
  /\ ops[x].i = N
  /\ ReplaceBy(x, ops[x].args[1])

FoldRotate(x) ==
  /\ IsKind(x, "rotate")
  /\ ops[x].i = 0
  /\ ReplaceBy(x, ops[x].args[1])

\* "rotations are wrapped around to positive values"
Wrapped(i) == N + i

WrapRotate(x) ==
  /\ IsKind(x, "rotate")
  /\ ops[x].i < 0
  /\ Rewrite(x, [ops[x] EXCEPT !.i = Wrapped(@)])

-----------------------------------------------------------------------------
(* CombineOp::fold and InsertOp::canonicalize *)

\* Mutant: the length of the list is not compared.
CoversFromFirst(o) == o.slots[1] = 0

\* The list of slots is an array as long as the vector that starts with 0;
\* a list of one slot stands for an integer attribute, which is no array.
Covers(o) == Len(o.slots) > 1 /\ Len(o.slots) = N /\ o.slots[1] = 0

FoldCombine(x) ==
  /\ IsKind(x, "combine")
  /\ Covers(ops[x])
  /\ ReplaceBy(x, ops[x].args[1])

\* The scalar is extracted from the slot that it is inserted into.
MatchesSlot(o) == ops[o.args[1]].kind = "extract" /\ ops[o.args[1]].i = o.i

InsertToCombine(x) ==
  /\ IsKind(x, "insert")
  /\ MatchesSlot(ops[x])
  /\ Rewrite(x, CombineOp(ops[ops[x].args[1]].args[1], <<ops[x].i>>, ops[x].args[2]))

-----------------------------------------------------------------------------
(* External: what the driver does by itself. *)

\* Mutant: an operation is dead as soon as only returns are left to use it.
DeadButReturned(x) ==
  ops[x].kind \notin {"arg", "return"} /\ \A u \in Users(ops, x) : ops[u].kind = "return"

Dead(x) == ops[x].kind \notin {"arg", "return"} /\ Users(ops, x) = {}

EraseDead(x) ==
  /\ status = "running"
  /\ Dead(x)
  /\ ops' = Erased(ops, x)
  /\ sem' = Erased(sem, x)
  /\ UNCHANGED <<src, status>>

RewriteAt(x) ==
  \/ FoldInPlace(x) \/ FoldToOperand(x) \/ FoldNothingLeft(x)
  \/ FoldRotate(x) \/ WrapRotate(x)
  \/ FoldCombine(x) \/ InsertToCombine(x)
  \/ EraseDead(x)

Next == \E x \in DOMAIN ops : RewriteAt(x)

Spec == Init /\ [][Next]_vars

\* The driver goes on until no rewrite applies.
FairSpec == Spec /\ WF_vars(Next)

-----------------------------------------------------------------------------
\* Arithmetic on operands that all have the type of the result.
UniformTypes(body) ==
  \A x \in DOMAIN body : body[x].kind \in Arithmetic =>
    \A k \in DOMAIN body[x].args : body[body[x].args[k]].type = body[x].type

(***************************************************************************)
(* The type invariant: operations refer only to operations of the body     *)
(* and, where arithmetic does not mix types, pass the verifier.  Where it  *)
(* does they may not: the folds do not compare the type of the operand     *)
(* that is left with that of the result.                                   *)
(***************************************************************************)
TypeOK ==
  /\ status \in {"running", "undefined"}
  /\ DOMAIN ops = DOMAIN sem
  /\ DefinedBeforeUse(ops)
  /\ \A x \in DOMAIN ops :
       /\ ops[x] \in Op
       /\ IsVector(sem[x])
       /\ UniformTypes(src.ops) => WellTyped(ops, ops[x])

(***************************************************************************)
(* Whatever rewrites are applied and in whatever order, what the remaining *)
(* operations compute is what they are meant to compute and the function   *)
(* returns what it returned before.  SubOp::fold drops zeros wherever they *)
(* are, so nothing may be subtracted from zero (see ZeroMinusOperand).     *)
(***************************************************************************)
SubtractsFromZero(p) ==
  \E x \in DOMAIN p.ops : p.ops[x].kind = "sub" /\ p.sem[p.ops[x].args[1]] = Uniform(Zero)

ReturnsSame ==
  Consistent(ops, sem) /\ ValuesReturned(ops, sem) = ValuesReturned(src.ops, src.sem)

MeaningPreserved == ~SubtractsFromZero(src) => ReturnsSame

(***************************************************************************)
(* The rewrites do not chase each other: the driver comes to rest, and     *)
(* then no rotation is negative or by nothing, no operand is neutral, no   *)
(* copy is left to make with extract and insert, and all is in use.        *)
(***************************************************************************)
AtRest ==
  \A x \in DOMAIN ops :
    LET o == ops[x] IN
    /\ o.kind = "rotate" => o.i > 0
    /\ o.kind \in Arithmetic => /\ Len(o.args) > 1
                                /\ \A k \in DOMAIN o.args :
                                     ops[o.args[k]].kind = "constant" =>
                                       ops[o.args[k]].val # Neutral(o.kind)
    /\ o.kind = "insert" => ~(ops[o.args[1]].kind = "extract" /\ ops[o.args[1]].i = o.i)
    /\ o.kind \notin {"arg", "return"} => Users(ops, x) # {}

ComesToRest == <>[](status = "undefined" \/ AtRest)

(***************************************************************************)
(* "simplifies sub(x,0) and sub(x) to x" (above SubOp::fold): a difference *)
(* is only ever simplified to an equal value.                              *)
(***************************************************************************)
ZeroMinusOperand == ReturnsSame
=============================================================================
