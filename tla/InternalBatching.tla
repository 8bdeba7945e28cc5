-------------------------- MODULE InternalBatching --------------------------
(***************************************************************************)
(* The internal operand batching pass                                      *)
(* (src/Passes/hir2hir/InternalOperandBatching.cpp).  Where an operation   *)
(* adds a vector to its own rotations by 1, 2, .. n - 1 and n is a power   *)
(* of two, it adds the vector to its rotation by n/2, the result to its    *)
(* rotation by n/4 and so on instead: log n rotations, not n - 1.          *)
(*                                                                         *)
(* The pass walks the function's operations in order.  One step is the     *)
(* collection of an operation's origins, an origin that is ignored, or for *)
(* one that is not an iteration of the loop that halves its uses and then  *)
(* the new list of operands.                                               *)
(***************************************************************************)
EXTENDS HIR, SequencesExt, Subsequences

\* The programs the pass is run on, each with its denotation.
CONSTANT Source

ASSUME SourceAssumption == \A p \in Source : IsProgram(p)

\* A block's operations are numbered through.
ASSUME BlockAssumption ==
  \A p \in Source : \A x \in DOMAIN p.ops : \A k \in 1 .. x[1] : <<k, 0>> \in DOMAIN p.ops

VARIABLES
  src,      \* the program the pass was given; never changes
  ops,      \* the body of the function
  sem,      \* its denotation
  n,        \* the walk is at the operation <<n, 0>>
  pc,       \* "walk", "origins", "halving" or "done"
  uses,     \* the operands that originMap was built from
  origins,  \* the origins the loop has still to come to, in order
  prev,     \* what the next rotation is of
  half      \* i, how far it will be rotated; 0 when the loop has ended

vars == <<src, ops, sem, n, pc, uses, origins, prev, half>>

Cur == <<n, 0>>

Init ==
  /\ src \in Source
  /\ ops = src.ops
  /\ sem = src.sem
  /\ n = 1
  /\ pc = "walk"
  /\ uses = << >>
  /\ origins = << >>
  /\ prev = Cur
  /\ half = 0

-----------------------------------------------------------------------------
(* originMap *)

Anywhere == -1   \* the index of what can be realized in any slot

\* The vector that operand y is a rotation of, and by how much.
Origin(y) == IF ops[y].kind = "rotate" THEN ops[y].args[1] ELSE y

Index(y) ==
  CASE ops[y].type # "batched" \/ ops[y].kind = "constant" -> Anywhere
    [] ops[y].kind = "rotate"                              -> ops[y].i
    [] OTHER                                               -> 0

\* The operands that have origin o.
UsesOf(o) == {k \in DOMAIN uses : Origin(uses[k]) = o}

SizeOf(o) == Cardinality(UsesOf(o))

\* Sorted, their indices are 0, 1, .., size - 1, and there is more than one.
Contiguous(o) ==
  SizeOf(o) > 1 /\ {Index(uses[k]) : k \in UsesOf(o)} = 0 .. SizeOf(o) - 1

\* It has no odd divisor but 1.
IsPowerOfTwo(m) == \A d \in 2 .. m : m % d = 0 => d % 2 = 0

Reducible(o) == Contiguous(o) /\ IsPowerOfTwo(SizeOf(o))

NeedsBatching(o) == o.kind \in Arithmetic /\ o.type = "batched"

WalkPast ==
  /\ pc = "walk"
  /\ Cur \in DOMAIN ops
  /\ ~NeedsBatching(ops[Cur])
  /\ n' = n + 1
  /\ UNCHANGED <<src, ops, sem, pc, uses, origins, prev, half>>

\* The operands whose origin no operand before them has.
FirstUses(args) ==
  {k \in DOMAIN args : \A m \in DOMAIN args : m < k => Origin(args[m]) # Origin(args[k])}

CollectOrigins ==
  /\ pc = "walk"
  /\ Cur \in DOMAIN ops
  /\ NeedsBatching(ops[Cur])
  /\ uses' = ops[Cur].args
  /\ origins' = Picked([k \in DOMAIN ops[Cur].args |-> Origin(ops[Cur].args[k])],
                       FirstUses(ops[Cur].args))
  /\ pc' = "origins"
  /\ UNCHANGED <<src, ops, sem, n, prev, half>>

-----------------------------------------------------------------------------
(* The loop over originMap *)

IgnoreOrigin ==
  /\ pc = "origins"
  /\ origins # << >>
  /\ ~Reducible(Head(origins))
  /\ origins' = Tail(origins)
  /\ UNCHANGED <<src, ops, sem, n, pc, uses, prev, half>>

StartHalving ==
  /\ pc = "origins"
  /\ origins # << >>
  /\ Reducible(Head(origins))
  /\ prev' = Head(origins)
  /\ half' = SizeOf(Head(origins)) \div 2
  /\ pc' = "halving"
  /\ UNCHANGED <<src, ops, sem, n, uses, origins>>

\* Mutant: new operations go after the operation.
NewPosAfter(k) == <<n, Cardinality({x \in DOMAIN ops : x[1] = n /\ x[2] > 0}) + k>>

\* What was placed before the operation, and where the k-th new one goes.
Made == {x \in DOMAIN ops : x[1] = n - 1 /\ x[2] > 0}
NewPos(k) == <<n - 1, Cardinality(Made) + k>>

\* Mutant: the last rotation, by one slot, is left out.
RoundsButOne == half > 1

Rounds == half > 0

\* rotated_down and added; they compute what they compute.
RotateAndAdd ==
  /\ pc = "halving"
  /\ Rounds
  /\ LET rotated == [at |-> NewPos(1), op |-> RotateOp(prev, -half)]
         added   == [at |-> NewPos(2), op |-> MakeOp("add", "batched", <<prev, NewPos(1)>>)]
         value   == Placed(sem, rotated.at, Eval(rotated.op, sem))
     IN  /\ ops' = Placed(Placed(ops, rotated.at, rotated.op), added.at, added.op)
         /\ sem' = Placed(value, added.at, Eval(added.op, value))
         /\ prev' = added.at
  /\ half' = half \div 2
  /\ UNCHANGED <<src, n, pc, uses, origins>>

\* Mutant: operands that are rotations stay.
RemainingRotations(o) == {k \in DOMAIN ops[Cur].args : ops[Cur].args[k] # o}

\* The operands that are none of the occurrences of origin o.
Remaining(o) ==
  {k \in DOMAIN ops[Cur].args : \A m \in UsesOf(o) : ops[Cur].args[k] # uses[m]}

AssignOperands ==
  /\ pc = "halving"
  /\ ~Rounds
  /\ ops' = [ops EXCEPT ![Cur].args = Append(Picked(@, Remaining(Head(origins))), prev)]
  /\ origins' = Tail(origins)
  /\ pc' = "origins"
  /\ UNCHANGED <<src, sem, n, uses, prev, half>>

\* Mutant: the loop stops after the first origin that was reduced.
OriginsEndEarly ==
  /\ pc = "origins"
  /\ origins = << >> \/ ops[Cur].args # uses
  /\ pc' = "walk"
  /\ n' = n + 1
  /\ origins' = << >>
  /\ UNCHANGED <<src, ops, sem, uses, prev, half>>

OriginsEnd ==
  /\ pc = "origins"
  /\ origins = << >>
  /\ pc' = "walk"
  /\ n' = n + 1
  /\ UNCHANGED <<src, ops, sem, uses, origins, prev, half>>

WalkEnds ==
  /\ pc = "walk"
  /\ Cur \notin DOMAIN ops
  /\ pc' = "done"
  /\ UNCHANGED <<src, ops, sem, n, uses, origins, prev, half>>

Next ==
  \/ WalkPast \/ CollectOrigins \/ IgnoreOrigin \/ StartHalving
  \/ RotateAndAdd \/ AssignOperands \/ OriginsEnd \/ WalkEnds

Spec == Init /\ [][Next]_vars

\* A pass runs on the thread that called it until it returns.
FairSpec == Spec /\ WF_vars(Next)

-----------------------------------------------------------------------------
(***************************************************************************)
(* The type invariant: the body is one that the verifier accepts, in which *)
(* what the pass adds comes before the operation it is for.                *)
(***************************************************************************)
TypeOK ==
  /\ n \in Nat \ {0}
  /\ pc \in {"walk", "origins", "halving", "done"}
  /\ half \in Nat
  /\ DOMAIN sem = DOMAIN ops
  /\ DefinedBeforeUse(ops)
  /\ \A x \in DOMAIN ops : ops[x] \in Op /\ WellTyped(ops, ops[x]) /\ IsVector(sem[x])

(***************************************************************************)
(* At every moment operations compute what they are meant to and the       *)
(* function returns what it returned before, provided that whatever is     *)
(* reduced is a sum over all slots of a vector: of a product the pass      *)
(* makes a sum, and fewer rotations it replaces by rotations in the other  *)
(* direction (RotatedToAnySlot in HIRPipeline).                            *)
(***************************************************************************)
ReducibleIn(p, x) ==
  LET index(y) == IF p.ops[y].kind = "rotate" THEN p.ops[y].i
                  ELSE IF p.ops[y].type = "batched" /\ p.ops[y].kind # "constant" THEN 0
                  ELSE Anywhere
      from(y)  == IF p.ops[y].kind = "rotate" THEN p.ops[y].args[1] ELSE y
      args     == p.ops[x].args
      size(o)  == Cardinality({k \in DOMAIN args : from(args[k]) = o})
  IN  {<<o, size(o)>> : o \in {v \in DOMAIN p.ops :
         /\ size(v) > 1 /\ IsPowerOfTwo(size(v))
         /\ {index(args[k]) : k \in {m \in DOMAIN args : from(args[m]) = v}} = 0 .. size(v) - 1}}

Batched(p) == {x \in DOMAIN p.ops : p.ops[x].kind \in Arithmetic /\ p.ops[x].type = "batched"}

OnlyFullSums(p) ==
  \A x \in Batched(p) : \A r \in ReducibleIn(p, x) : p.ops[x].kind = "add" /\ r[2] = N

ReturnsSame ==
  Consistent(ops, sem) /\ ValuesReturned(ops, sem) = ValuesReturned(src.ops, src.sem)

MeaningPreserved == OnlyFullSums(src) => ReturnsSame

(***************************************************************************)
(* The pass comes to its end, and then no operation lists a vector with    *)
(* all of its rotations, although it may have listed several vectors so.   *)
(***************************************************************************)
NothingLeftToReduce == \A x \in Batched(src) : ReducibleIn([ops |-> ops], x) = {}

ReducedWhenDone == pc = "done" => NothingLeftToReduce

Ends == <>(pc = "done")

Reduces == <>(pc = "done" /\ NothingLeftToReduce)

(***************************************************************************)
(* The laws of addition that reducing relies on, for values in V and up to *)
(* w operands: sums are values, the sum of one is that one, the order of   *)
(* operands does not matter, and a sum as the last operand may be replaced *)
(* by its terms.                                                           *)
(***************************************************************************)
Sum(xs) == Apply("add", xs)

Shuffles(m) == {q \in [1 .. m -> 1 .. m] : \A k, l \in 1 .. m : q[k] = q[l] => k = l}

SumsAddUp(V, w) ==
  \A m \in 1 .. w : \A xs \in [1 .. m -> V] :
    /\ \A q \in Shuffles(m) : Sum([k \in 1 .. m |-> xs[q[k]]]) = Sum(xs)
    /\ m = 1 => Sum(xs) = xs[1]
    /\ \A l \in 0 .. w : \A ys \in [1 .. l -> V] : Sum(Append(ys, Sum(xs))) = Sum(ys \o xs)

Scalars == UNION {{p.sem[x][s] : x \in DOMAIN p.sem, s \in Slots} : p \in Source}

SumLaws ==
  \E V : /\ Scalars \subseteq V
         /\ \A w \in Nat : SumsAddUp(V, w)
         /\ \A m \in Nat \ {0} : \A xs \in [1 .. m -> V] : Sum(xs) \in V
=============================================================================
