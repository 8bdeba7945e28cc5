-------------------------- MODULE CombineSimplify --------------------------
(***************************************************************************)
(* The combine-simplify pass (src/Passes/hir2hir/CombineSimplify.cpp).  A  *)
(* loop that fills a vector slot by slot reaches it as a chain of combines *)
(* that each take one slot of the same vector; the pass walks over them in *)
(* order and widens each by the slots its predecessor takes, until the     *)
(* last takes all of them and CombineOp::fold can see that it is a copy.   *)
(*                                                                         *)
(* One step is one call of simplify.  A list of one slot stands for the    *)
(* index attribute that InsertOp::canonicalize creates, a longer one for   *)
(* the array attribute that this pass creates.                             *)
(***************************************************************************)
EXTENDS HIR

CONSTANT Source   \* the programs the pass is run on, each with its denotation

ASSUME SourceAssumption == \A p \in Source : IsProgram(p)

\* InsertOp::canonicalize, which alone makes combines, gives each one slot.
ASSUME ListsAssumption ==
  \A p \in Source : \A x \in DOMAIN p.ops : p.ops[x].kind = "combine" => Ascending(p.ops[x].slots)

\* A block's operations are numbered through.
ASSUME BlockAssumption ==
  \A p \in Source : \A x \in DOMAIN p.ops : \A k \in 1 .. x[1] : <<k, 0>> \in DOMAIN p.ops

VARIABLES
  src,   \* the program the pass was given; never changes
  ops,   \* the body of the function
  sem,   \* what its operations are meant to compute; never changes
  n,     \* the walk is at the operation <<n, 0>>
  pc     \* "walk" or "done"

vars == <<src, ops, sem, n, pc>>

Cur == <<n, 0>>

Init ==
  /\ src \in Source
  /\ ops = src.ops
  /\ sem = src.sem
  /\ n = 1
  /\ pc = "walk"

\* Mutant: the slot that the predecessor took last is taken again.
ExtendsSame(o, c) ==
  /\ Len(o.slots) = 1
  /\ o.slots[1] = c.slots[Len(c.slots)]
  /\ o.args[1] = c.args[1]

\* Mutant: only a predecessor of a single slot is extended.
ExtendsOne(o, c) ==
  /\ Len(o.slots) = 1 /\ Len(c.slots) = 1
  /\ o.slots[1] = c.slots[1] + 1
  /\ o.args[1] = c.args[1]

\* o takes the slot that follows the ones c takes, from the same vector.
Extends(o, c) ==
  /\ Len(o.slots) = 1
  /\ o.slots[1] = c.slots[Len(c.slots)] + 1
  /\ o.args[1] = c.args[1]

Simplifiable(o) ==
  /\ o.kind = "combine"
  /\ ops[o.args[2]].kind = "combine"
  /\ Extends(o, ops[o.args[2]])

\* Mutant: the slots that the predecessor takes are not taken over.
WidenedInPlace(o, c) == CombineOp(c.args[1], o.slots, c.args[2])

Widened(o, c) == CombineOp(c.args[1], c.slots \o o.slots, c.args[2])

\* Mutant: the walk also steps over the operation that follows.
SimplifySkipsNext ==
  /\ pc = "walk"
  /\ Cur \in DOMAIN ops
  /\ Simplifiable(ops[Cur])
  /\ ops' = [ops EXCEPT ![Cur] = Widened(@, ops[@.args[2]])]
  /\ n' = n + 2
  /\ UNCHANGED <<src, sem, pc>>

\* Mutant: the predecessor is erased, whoever else uses it.
SimplifyErases ==
  /\ pc = "walk"
  /\ Cur \in DOMAIN ops
  /\ Simplifiable(ops[Cur])
  /\ ops' = Erased([ops EXCEPT ![Cur] = Widened(@, ops[@.args[2]])], ops[Cur].args[2])
  /\ sem' = Erased(sem, ops[Cur].args[2])
  /\ n' = n + 1
  /\ UNCHANGED <<src, pc>>

Simplify ==
  /\ pc = "walk"
  /\ Cur \in DOMAIN ops
  /\ Simplifiable(ops[Cur])
  /\ ops' = [ops EXCEPT ![Cur] = Widened(@, ops[@.args[2]])]
  /\ n' = n + 1
  /\ UNCHANGED <<src, sem, pc>>

WalkPast ==
  /\ pc = "walk"
  /\ Cur \in DOMAIN ops
  /\ ~Simplifiable(ops[Cur])
  /\ n' = n + 1
  /\ UNCHANGED <<src, ops, sem, pc>>

WalkEnds ==
  /\ pc = "walk"
  /\ Cur \notin DOMAIN ops
  /\ pc' = "done"
  /\ UNCHANGED <<src, ops, sem, n>>

Next == Simplify \/ WalkPast \/ WalkEnds

Spec == Init /\ [][Next]_vars

\* A pass runs on the thread that called it until it returns.
FairSpec == Spec /\ WF_vars(Next)

-----------------------------------------------------------------------------
(* The type invariant: the body stays one that the verifier accepts.       *)
TypeOK ==
  /\ n \in Nat \ {0}
  /\ pc \in {"walk", "done"}
  /\ DOMAIN ops = DOMAIN sem
  /\ OperandsDefined(ops)
  /\ \A x \in DOMAIN ops :
       /\ ops[x] \in Op
       /\ WellTyped(ops, ops[x])
       /\ ops[x].kind = "combine" => ops[x].slots \in Seq(Slots) \ {<< >>}

(***************************************************************************)
(* Widening a combine never changes what it computes, nor then what the    *)
(* function returns: the slots taken over from the predecessor and the one *)
(* slot of its own come from the same vector, and all others from where    *)
(* the predecessor takes them.                                             *)
(***************************************************************************)
MeaningPreserved == Consistent(ops, sem)

(***************************************************************************)
(* CombineOp::fold replaces a combine by its first vector when the list of *)
(* slots is as long as the vector and starts with slot 0, and looks no     *)
(* further.  That is right for every list this pass makes.                 *)
(***************************************************************************)
CoversVector(o) == o.kind = "combine" /\ Len(o.slots) = N /\ o.slots[1] = 0

FoldIsSound ==
  \A x \in DOMAIN ops : CoversVector(ops[x]) => sem[x] = sem[ops[x].args[1]]

(***************************************************************************)
(* One walk is enough: when the pass ends, there is nothing left that it   *)
(* would simplify, however long the chains of combines were.               *)
(***************************************************************************)
SimplifiesAll == <>[](\A x \in DOMAIN ops : ~Simplifiable(ops[x]))

(***************************************************************************)
(* A vector that is filled in ascending order, slot by slot from the first *)
(* to the last, ends as a combine that covers it.                          *)
(***************************************************************************)
Combines == {x \in DOMAIN src.ops : src.ops[x].kind = "combine"}

\* A chain of combines that take slots 0, 1, .., N - 1 from one vector.
IsChain(f) ==
  \A s \in Slots :
    /\ src.ops[f[s]].slots = <<s>>
    /\ src.ops[f[s]].args[1] = src.ops[f[N - 1]].args[1]
    /\ s # 0 => src.ops[f[s]].args[2] = f[s - 1]

\* x is the last of such a chain.
Fills(x) == \E f \in [Slots -> Combines] : f[N - 1] = x /\ IsChain(f)

FilledVectorsAreCopies ==
  pc = "done" => \A x \in Combines : Fills(x) => CoversVector(ops[x])

=============================================================================
