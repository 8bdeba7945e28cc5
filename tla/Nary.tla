-------------------------------- MODULE Nary --------------------------------
(***************************************************************************)
(* The nary pass (src/Passes/hir2hir/Nary.cpp).  It first turns the        *)
(* subtractions and multiplications of the arith dialect into ones of the  *)
(* fhe dialect, then inlines additions into the additions that use them,   *)
(* then the same for subtractions and for multiplications, so that a sum   *)
(* of many terms becomes one operation with many operands.                 *)
(*                                                                         *)
(* Each of the five loops of runOnOperation walks over the block once.     *)
(* collapseAdd, collapseSub and collapseMul are one code with three types. *)
(* The pass places operations between any two others, so the order of the  *)
(* block is a sequence here and positions only name operations.            *)
(***************************************************************************)
EXTENDS HIR, SequencesExt, Subsequences

CONSTANT Source   \* the programs the pass is run on, each with its denotation

ASSUME SourceAssumption == \A p \in Source : IsProgram(p)

\* A block's operations are numbered through.
ASSUME BlockAssumption ==
  \A p \in Source :
    IsFiniteSet(DOMAIN p.ops) /\ DOMAIN p.ops = {<<m, 0>> : m \in 1 .. Cardinality(DOMAIN p.ops)}

VARIABLES
  src,       \* the program the pass was given; never changes
  ops,       \* the operations of the function
  sem,       \* their denotation
  block,     \* their order
  phase,     \* the kind of operation that the current loop is about
  at,        \* where in the block it is
  pending    \* the uses of the operation there that are still to be visited

vars == <<src, ops, sem, block, phase, at, pending>>

Phases == <<"subi", "muli", "add", "sub", "multiply", "done">>

NextPhase(p) == Phases[1 + CHOOSE k \in DOMAIN Phases : Phases[k] = p]

Converting == phase \in {"subi", "muli"}
Collapsing == phase \in Arithmetic

Cur == block[at]

Init ==
  /\ src \in Source
  /\ ops = src.ops
  /\ sem = src.sem
  /\ block = [m \in 1 .. Cardinality(DOMAIN src.ops) |-> <<m, 0>>]
  /\ phase = Phases[1]
  /\ at = 1
  /\ pending = {}

-----------------------------------------------------------------------------
InBlock == phase # "done" /\ at <= Len(block)

Skip ==
  /\ InBlock
  /\ ops[Cur].kind # phase
  /\ at' = at + 1
  /\ UNCHANGED <<src, ops, sem, block, phase, pending>>

\* The new operation takes the place of the old one, which is erased.
ConvertToDialect ==
  /\ InBlock
  /\ Converting
  /\ ops[Cur].kind = phase
  /\ ops' = [ops EXCEPT ![Cur].kind = DialectKind(phase)]
  /\ at' = at + 1
  /\ UNCHANGED <<src, sem, block, phase, pending>>

LoopEnds ==
  /\ phase # "done"
  /\ at > Len(block)
  /\ phase' = NextPhase(phase)
  /\ at' = 1
  /\ UNCHANGED <<src, ops, sem, block, pending>>

-----------------------------------------------------------------------------
(* collapseAdd, collapseSub and collapseMul *)

\* The uses of x, one for each operand that is x.
UsesOf(x) ==
  UNION {{<<u, k>> : k \in {m \in DOMAIN ops[u].args : ops[u].args[m] = x}} : u \in DOMAIN ops}

\* The walk has read the uses of the operation it is at; it goes on from
\* there when it has visited them all.
Visit ==
  /\ InBlock
  /\ Collapsing
  /\ ops[Cur].kind = phase
  /\ pending = {}
  /\ IF UsesOf(Cur) = {} THEN at' = at + 1 /\ UNCHANGED pending
                         ELSE pending' = UsesOf(Cur) /\ UNCHANGED at
  /\ UNCHANGED <<src, ops, sem, block, phase>>

\* After the last of its uses the operation is done with.
Visited(use) ==
  /\ pending' = pending \ {use}
  /\ at' = IF pending = {use} THEN at + 1 ELSE at

\* Mutant: the operation that is inlined stays an operand.
InlinedAndKept(u, x) == u.args \o ops[x].args

\* The operands of u, without x, and then those of x.
Inlined(u, x) == Picked(u.args, {k \in DOMAIN u.args : u.args[k] # x}) \o ops[x].args

\* Mutant: the new operation is placed after the one that is inlined.
PlacedAfterInlined(user, x) == InsertAt(block, at + 1, x)

PlaceOf(x) == CHOOSE k \in DOMAIN block : block[k] = x

PlacedAfter(user, x) == InsertAt(block, PlaceOf(user) + 1, x)

Fresh == <<Len(block) + 1, 0>>

\* Mutant: a use by an operation that has other such operands is left.
CollapseUseOnce(use) ==
  LET user == use[1]
      new  == [ops[user] EXCEPT !.args = Inlined(ops[user], Cur)]
  IN  /\ ops[user].kind = phase
      /\ ops' = Placed(ReplaceAllUses(ops, user, Fresh), Fresh, new)
      /\ sem' = Placed(sem, Fresh, sem[user])
      /\ block' = PlacedAfter(user, Fresh)
      /\ pending' = {}
      /\ at' = at + 1
      /\ UNCHANGED <<src, phase>>

\* The new operation is meant to compute what the user computes.
CollapseUse(use) ==
  LET user == use[1]
      new  == [ops[user] EXCEPT !.args = Inlined(ops[user], Cur)]
  IN  /\ ops[user].kind = phase
      /\ ops' = Placed(ReplaceAllUses(ops, user, Fresh), Fresh, new)
      /\ sem' = Placed(sem, Fresh, sem[user])
      /\ block' = PlacedAfter(user, Fresh)
      /\ Visited(use)
      /\ UNCHANGED <<src, phase>>

LeaveUse(use) ==
  /\ ops[use[1]].kind # phase
  /\ Visited(use)
  /\ UNCHANGED <<src, ops, sem, block, phase>>

\* Uses are visited in the order of the use list, which is any order.
VisitUse == \E use \in pending : CollapseUse(use) \/ LeaveUse(use)

Next == Skip \/ ConvertToDialect \/ Visit \/ VisitUse \/ LoopEnds

Spec == Init /\ [][Next]_vars

\* A pass runs on the thread that called it until it returns.
FairSpec == Spec /\ WF_vars(Next)

-----------------------------------------------------------------------------
(***************************************************************************)
(* The type invariant: the block lists every operation once, operands come *)
(* before their users wherever new operations are placed, and the uses     *)
(* still to be visited are uses of the operation that the walk is at.      *)
(***************************************************************************)
TypeOK ==
  /\ phase \in Range(Phases)
  /\ at \in 1 .. Len(block) + 1
  /\ DOMAIN ops = Range(block) /\ Len(block) = Cardinality(DOMAIN ops)
  /\ \A k \in DOMAIN block :
       /\ ops[block[k]] \in Op
       /\ \A y \in Range(ops[block[k]].args) : \E m \in 1 .. k - 1 : block[m] = y
  /\ \A use \in pending : ops[use[1]].args[use[2]] = Cur

(***************************************************************************)
(* At every moment the operations compute what they are meant to and the   *)
(* function returns what it returned before, provided that no sum or       *)
(* product lists a sum or product of its own kind twice and no difference  *)
(* lists a difference: an operand that occurs twice is inlined once, so    *)
(* that (a + b) + (a + b) becomes a + b, and subtraction is treated as if  *)
(* it were associative and commutative.                                    *)
(***************************************************************************)
\* The kind of an operation when the collapsing begins.
Becomes(kind) == IF kind \in {"subi", "muli"} THEN DialectKind(kind) ELSE kind

SameKind(p, x, y) == Becomes(p.ops[x].kind) = Becomes(p.ops[y].kind)

OperandsOfKind(p, x) == {k \in DOMAIN p.ops[x].args : SameKind(p, x, p.ops[x].args[k])}

RepeatsOperand(p) ==
  \E x \in DOMAIN p.ops : Becomes(p.ops[x].kind) \in {"add", "multiply"} /\
    \E k, m \in OperandsOfKind(p, x) : k # m /\ p.ops[x].args[k] = p.ops[x].args[m]

NestsDifference(p) ==
  \E x \in DOMAIN p.ops : Becomes(p.ops[x].kind) = "sub" /\ OperandsOfKind(p, x) # {}

ReturnsSame ==
  Consistent(ops, sem) /\ ValuesReturned(ops, sem) = ValuesReturned(src.ops, src.sem)

MeaningPreserved == ~RepeatsOperand(src) /\ ~NestsDifference(src) => ReturnsSame

(***************************************************************************)
(* The law of arithmetic that collapsing relies on, for values in V and up *)
(* to w operands: an operand that is itself a sum may be replaced by the   *)
(* terms of this sum, placed at the end, and likewise for products.        *)
(***************************************************************************)
MayInline(V, w) ==
  \A kind \in {"add", "multiply"}, m, n \in 0 .. w :
    \A xs \in [1 .. m -> V], ys \in [1 .. n -> V] : \A k \in 1 .. m :
      xs[k] = Apply(kind, ys) => Apply(kind, Picked(xs, (1 .. m) \ {k}) \o ys) = Apply(kind, xs)

Scalars == UNION {{p.sem[x][s] : x \in DOMAIN p.sem, s \in Slots} : p \in Source}

InliningLaw == \A w \in Nat : MayInline(Scalars, w)

(***************************************************************************)
(* The pass ends, although it adds to the block it goes through, and then  *)
(* no sum, difference or product that anything uses has an operand of its  *)
(* own kind left, although the operations that were inlined and their old  *)
(* users are all still there.                                              *)
(***************************************************************************)
Flat ==
  \A x \in DOMAIN ops : ops[x].kind \in Arithmetic /\ Users(ops, x) # {} =>
    \A y \in Range(ops[x].args) : ops[y].kind # ops[x].kind

FlatWhenDone == phase = "done" => Flat

Ends == <>(phase = "done")

Collapses == <>(phase = "done" /\ Flat)
=============================================================================
