---------------------------- MODULE HIRPipeline ----------------------------
(***************************************************************************)
(* The middle of fhe-tool's pipeline (ssaPipelineBuilder in                *)
(* src/tools/fhe-tool/fhe-tool.cpp): from a program on scalars and slots   *)
(* of vectors to one on whole vectors.  Each pass is the module of that    *)
(* pass; a pass starts when the one before it has ended, on what that one  *)
(* left behind, and the pipeline stops when a pass fails.                  *)
(*                                                                         *)
(* UnrollLoops, which comes first, and tensor2fhe, which changes the types *)
(* of values and no more, have no stage of their own; of the two           *)
(* canonicalizations around tensor2fhe there is one.  The greedy rewriter  *)
(* goes through the block from the top here (FHECanonicalize takes the     *)
(* rewrites in any order), and CSE, which is MLIR's own, merges equal      *)
(* operations.                                                             *)
(***************************************************************************)
EXTENDS HIRSemantics

CONSTANTS
  Zero, One,   \* as in FHECanonicalize
  Source       \* the programs, each with the passes that it is to go through

ASSUME SourceAssumption == \A p \in Source : IsProgram(p) /\ p.plan # << >>

VARIABLES
  program,                      \* what is compiled; never changes
  stage,                        \* the pass that is running
  src, ops, sem,                \* what it was given, and what it makes of it
  block, phase, at, pending,    \* Nary
  status,                       \* FHECanonicalize
  n, pc,                        \* Batching, CombineSimplify, InternalBatching
  target, j,                    \* Batching
  uses, origins, prev, half     \* InternalBatching

naryVars == <<block, phase, at, pending>>
walkVars == <<n, pc>>
batchingVars == <<target, j>>
internalVars == <<uses, origins, prev, half>>

vars == <<program, stage, src, ops, sem, naryVars, status, walkVars, batchingVars, internalVars>>

Nary == INSTANCE Nary
Canonicalize == INSTANCE FHECanonicalize
Batching == INSTANCE Batching
CombineSimplify == INSTANCE CombineSimplify
InternalBatching == INSTANCE InternalBatching

\* Mutant: canonicalization after batching is left out.
PassesWithoutCanonicalize ==
  << "canonicalize", "cse", "nary", "canonicalize", "cse", "batching", "cse",
     "combine-simplify", "cse", "canonicalize", "internal-batching", "canonicalize", "cse" >>

Passes ==
  << "canonicalize", "cse", "nary", "canonicalize", "cse", "batching", "canonicalize", "cse",
     "combine-simplify", "cse", "canonicalize", "internal-batching", "canonicalize", "cse" >>

\* fhe-tool runs the pipeline, or any passes that its options name.
Running == IF stage <= Len(program.plan) THEN program.plan[stage] ELSE "none"

-----------------------------------------------------------------------------
(* The order of the block, which Nary keeps and for the others is that of  *)
(* the positions.                                                          *)
Order == IF Running = "nary" THEN block ELSE InBlockOrder(ops)

\* The program as the next pass finds it: numbered through.
Renumbered(order, body) ==
  [x \in {<<k, 0>> : k \in DOMAIN order} |->
     [body[order[x[1]]] EXCEPT !.args =
        [m \in DOMAIN @ |-> <<CHOOSE k \in DOMAIN order : order[k] = @[m], 0>>]]]

Init ==
  /\ program \in Source
  /\ stage = 1
  /\ src = [ops |-> program.ops, sem |-> program.sem] /\ ops = src.ops /\ sem = src.sem
  /\ block = InBlockOrder(ops) /\ phase = Nary!Phases[1] /\ at = 1 /\ pending = {}
  /\ status = "running"
  /\ n = 1 /\ pc = "walk" /\ target = Batching!Unset /\ j = 1
  /\ uses = << >> /\ origins = << >> /\ prev = InternalBatching!Cur /\ half = 0

\* The operations at which the canonicalizer has something to rewrite.
Rewritable == {x \in DOMAIN ops : ENABLED Canonicalize!RewriteAt(x)}

\* Pairs of operations that do the same; the second is not needed.
Duplicates ==
  {<<x, y>> \in (DOMAIN ops) \X (DOMAIN ops) :
     /\ Before(x, y)
     /\ ops[x] = ops[y]
     /\ ops[x].kind \notin {"arg", "return"}}

PassEnded ==
  CASE Running = "nary"         -> phase = "done"
    [] Running = "canonicalize" -> status = "running" /\ Rewritable = {}
    [] Running = "cse"          -> Duplicates = {}
    [] OTHER                    -> pc = "done"

NextPass ==
  /\ Running # "none"
  /\ PassEnded
  /\ stage' = stage + 1
  /\ \E order \in {Order} :
       /\ ops' = Renumbered(order, ops)
       /\ block' = [k \in DOMAIN order |-> <<k, 0>>]
       /\ sem' = Denotation(block', ops', [x \in DOMAIN ops' |-> sem[order[x[1]]]])
  /\ src' = [ops |-> ops', sem |-> sem']
  /\ phase' = Nary!Phases[1] /\ at' = 1 /\ pending' = {}
  /\ status' = "running"
  /\ n' = 1 /\ pc' = "walk" /\ target' = Batching!Unset /\ j' = 1
  /\ uses' = << >> /\ origins' = << >> /\ prev' = InternalBatching!Cur' /\ half' = 0
  /\ UNCHANGED program

RunNary ==
  /\ Running = "nary"
  /\ Nary!Next
  /\ UNCHANGED <<program, stage, status, walkVars, batchingVars, internalVars>>

First(positions) == CHOOSE x \in positions : \A y \in positions : x = y \/ Before(x, y)

RunCanonicalize ==
  /\ Running = "canonicalize"
  /\ Rewritable # {}
  /\ Canonicalize!RewriteAt(First(Rewritable))
  /\ UNCHANGED <<program, stage, naryVars, walkVars, batchingVars, internalVars>>

RunCSE ==
  /\ Running = "cse"
  /\ Duplicates # {}
  /\ LET x == First({d[1] : d \in Duplicates})
         y == First({d[2] : d \in {e \in Duplicates : e[1] = x}})
     IN  /\ ops' = Erased(ReplaceAllUses(ops, y, x), y)
         /\ sem' = Erased(sem, y)
  /\ UNCHANGED <<program, stage, src, naryVars, status, walkVars, batchingVars, internalVars>>

RunBatching ==
  /\ Running = "batching"
  /\ Batching!Next
  /\ UNCHANGED <<program, stage, naryVars, status, internalVars>>

RunCombineSimplify ==
  /\ Running = "combine-simplify"
  /\ CombineSimplify!Next
  /\ UNCHANGED <<program, stage, naryVars, status, batchingVars, internalVars>>

RunInternalBatching ==
  /\ Running = "internal-batching"
  /\ InternalBatching!Next
  /\ UNCHANGED <<program, stage, naryVars, status, batchingVars>>

\* fhe-tool ends: after the last pass, or because a pass has failed.
Ended ==
  /\ Running = "none" \/ (Running = "batching" /\ pc = "failed")
  /\ UNCHANGED vars

Next ==
  \/ NextPass
  \/ RunNary \/ RunCanonicalize \/ RunCSE
  \/ RunBatching \/ RunCombineSimplify \/ RunInternalBatching
  \/ Ended

-----------------------------------------------------------------------------
(***************************************************************************)
(* Every pass leaves behind a program as the next pass assumes it to be:   *)
(* the SourceAssumption of each of the modules is kept by the passes that  *)
(* come before.                                                            *)
(***************************************************************************)
PassesFit == IsProgram(src)

(***************************************************************************)
(* After every pass, the program returns what it returned when compilation *)
(* started, provided that what the internal batching pass may reduce is a  *)
(* sum over all slots.                                                     *)
(***************************************************************************)
Returned(p) == {p.sem[p.ops[x].args[1]] : x \in ReturnsOf(p.ops)}

CompiledCorrectly ==
  InternalBatching!OnlyFullSums(program) => Returned(src) = Returned(program)

(***************************************************************************)
(* What compilation ends with is a program on whole vectors: no slot is    *)
(* extracted or inserted but for a scalar that is returned, no vectors are *)
(* put together, and there are no more operations and rotations than a     *)
(* programmer would write by hand.                                         *)
(***************************************************************************)
OfKind(kinds) == {x \in DOMAIN ops : ops[x].kind \in kinds}

OnWholeVectors ==
  /\ OfKind({"insert", "combine"}) = {}
  /\ \A x \in OfKind({"extract"}) : \A u \in Users(ops, x) : ops[u].kind = "return"
  /\ Cardinality(OfKind(Arithmetic)) <= program.arithmetic
  /\ Cardinality(OfKind({"rotate"})) <= program.rotations

Vectorized == Running = "none" /\ program.plan = Passes => OnWholeVectors

(***************************************************************************)
(* "Everything else is assumed to have been rotated to slot 0 by previous  *)
(* optimizations" (InternalOperandBatching.cpp): the batching pass rotates *)
(* to any slot that the result is wanted in, and the program is to be      *)
(* compiled correctly all the same.                                        *)
(***************************************************************************)
RotatedToAnySlot == CompiledCorrectly
=============================================================================
