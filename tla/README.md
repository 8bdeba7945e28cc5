# A TLA+ project for HECO

HECO compiles a program written in Python (or in a small C-like language) to code that runs on
homomorphically encrypted data.  What makes it more than a translator is its middle end: it takes loops
that read and write single slots of vectors and turns them into a few operations on whole vectors and
rotations, because that is what FHE schemes compute efficiently.  The rewrites that do this are where the
compiler can be wrong in ways a test hardly reaches: they depend on the order of use lists, on
rotations lining up modulo the vector, on operations being replaced while they are being walked over, and each
pass relies on what the ones before it leave behind.  This project models those rewrites, checks them with
TLC on all small programs of given shapes, and proves for all five of them that they never change what a
program computes but in the cases named below.  It proves too that the trees of the legacy frontend stay trees under every call, what the visitor that
sets their parents leaves behind, and that its tokenizer never loses or misplaces a character that it gives back.  Around them it models the rest of the compiler: the lowering that feeds them, the conversions to
BGV and EmitC that follow, and the older frontend from the characters of a text to the operations emitted for it.

Paths are relative to the repository (`src/` is its root).

## 1. The system

| part | source | state it keeps | operations | talks to |
|---|---|---|---|---|
| Python frontend | `python/pyabc` | the function being built, its arguments and statements | visiting Python's AST, emitting JSON or MLIR text | fhe-tool by text files |
| legacy AST | `include/heco/legacy_ast/ast`, `src/legacy_ast/ast` | a tree with owning child pointers and parent back pointers | setters, take and replace, clone, iteration, visitors | the parser, the AST-to-MLIR visitor |
| legacy tokenizer | `src/legacy_ast/ast_parser` (`Tokenizer`, `Tokens`, `PushBackStream`) | a stream of characters with push-back and counts of lines and characters | words, numbers, strings, comments, operators by maximal munch | gives tokens to the parser, one at a time |
| legacy parser | `src/legacy_ast/ast_parser/Parser.cpp` | the token it is at; in every expression a stack of operators and one of operands; the list of nodes created | expressions by shunting yard, statements by descent | builds legacy AST |
| legacy AST to MLIR | `ast_utilities/AbcAstToMlirVisitor.cpp` | the block that operations go to | a visit for each class of node | walks the legacy AST, writes the AST dialect |
| scopes, visitors | `src/legacy_ast/ast_utilities`, `visitor` | nested scopes with their identifiers; the map of variables | enter, exit, resolve | walk the tree |
| AST dialect | `IR/AST` | none (types and operations) | | written by frontends, read by the lowering |
| lowering AST to HIR | `Passes/ast2hir` | a scoped symbol table; the rewriter's insertion point | if to arithmetic, loops with carried values, assignment to SSA | first pass |
| FHE dialect (HIR) | `IR/FHE` | none | verifier, folds, canonicalizations | all middle passes |
| middle passes | `Passes/hir2hir` | the body of a function | unroll, nary, batching, combine-simplify, internal batching | each rewrites what the one before left |
| conversions to BGV, EmitC, LLVM | `Passes/fhe2bgv`, `bgv2emitc`, `bgv2llvm`, `hir2hir/Tensor2BatchedSecret.cpp`, `IR/BGV` | the function, partly converted, with materializations where types meet | a pattern for each operation, type conversions | last passes; leave work to the canonicalizer |
| fhe-tool | `tools/fhe-tool` | the list of passes | the pipelines | runs everything |

Nothing here is concurrent and nothing is persisted.  What is hard is *order*: the greedy rewriter of
MLIR applies folds in an order nobody promises; use lists have an order that says nothing; passes replace
operations inside the loops that visit them; a pass fails half way with the program changed.  And
*protocol*: the pipeline is a sequence of small passes each of which recognises only what the ones before
it prepared.

What makes each part correct:

* **every middle pass**: the function returns what it returned before, after any sequence of rewrites; every
  operand is defined before it is used; every operation has operands its verifier admits; the pass ends.
* **batching**: results end in the slot where they are needed; no arithmetic on scalars is left, or the pass fails.
* **combine-simplify, internal batching, nary**: nothing of what the pass is there to remove is left.
* **canonicalization**: the rewrites do not chase each other, and come to rest in a normal form.
* **pipeline**: each pass is given what it assumes; what comes out is vectorised.
* **lowering from the AST**: variables have the value that the sequential program would give them, after if, for and nested scopes.
* **legacy AST**: a child has one parent, and its parent pointer names it; iterators survive what visitors do.
* **tokenizer**: tokens are the longest lexemes; what was read too much comes back in order, and lines and columns with it; it ends.
* **parser**: a program is read as grammar and precedence say, and what has no reading is refused; it ends; each node is reported once.
* **AST to MLIR**: the operations are the tree, every child in its own region.
* **conversions**: what comes out computes what went in, has nothing left of the dialect converted, and no materialization.

The hazards, each at its line and with the properties that watch it, are in `PROJECT.json`.

## 2. What is modelled, and how it corresponds to the code

```
SlotVectors <- HIR <- HIRSemantics <- HIRPrograms          (values; operations and rewriter; running; TLC's programs)
                 ^          ^
   Batching, CombineSimplify, FHECanonicalize, Nary, InternalBatching
                                                (EXTENDS HIR; the last three Subsequences as well)
   HIRPipeline = INSTANCE of all five, one after the other
   FheTool = HIRPipeline, then Lowering         (tensor2fhe, fhe2bgv, bgv2emitc, bgv2llvm)
   PassContract  <- refined by Batching
   AstLanguage <- Ast2Hir                       (the first lowering)
   AbcLexemes <- Tokenizer \
   AbcSyntax  <- Parser     +- Frontend         (from text to operations)
             \<- AstToMlir  |
              \<- AbcGrammar /                  (the language, to compare with)
   ASTClasses <- ASTNodes <- ParentSetting      (the tree of the legacy frontend; Subsequences for what is taken out of vectors)

   HIRLemmas <- Batching_proofs, CombineSimplify_proofs                            (TLAPS)
   HIRLemmas, StructureLemmas <- FHECanonicalize_proofs, Nary_proofs, InternalBatching_proofs
   StructureLemmas <- LegacyFrontend_proofs     (about ParentSetting and Tokenizer)
   MC*                                                      (instances for TLC)
```

**`SlotVectors`** gives the operations of `IR/FHE/FHE.td` a meaning.  A batched secret is a function on `0 .. N-1`;
a scalar is the vector that holds it everywhere, so that scalar arithmetic is a special case of arithmetic
on vectors.  `Apply`, what arithmetic does to one slot, is a parameter.  All vectors have the
same `N`; sizes in types matter to the conversions only, and are in `Lowering`.

**`HIR`** is the body of a function: a map from positions to operations.  MLIR names operations by pointers and
orders them in lists; here a position `<<n, k>>` is both name and place: `<<n, 0>>` is the n-th operation when a
pass starts, and `<<n, k>>` what a rewrite places after it.  Next to the body goes `sem`, the value every
operation is *meant* to have.  No pass reads it.  That a pass preserves meaning is then
one local statement, `Consistent`: each operation computes its `sem` from the `sem` of its operands.
`ReplaceAllUses`, `Placed` and `Erased` are the rewriter.  `WellTyped` is the verifier, from the
types and inference methods in `FHE.td` and `FHEDialect.cpp`.

**`Batching`** (`Passes/hir2hir/Batching.cpp`).  `CreateNewOp` chooses the target slot and clones the operation;
`KeepOperand`, `RotateOperand`, `BroadcastConstant` and `RejectOperand` are the branches of one iteration of the
loop over operands; `ReplaceOriginal` is everything after it.  `TargetSlots` is a set: the first insert or
return in the use list decides, and a use list may be in any order.  `RejectOperand` leaves the half converted
operation in the block, as the code does when it interrupts the walk.

**`CombineSimplify`** (`CombineSimplify.cpp`): one step per operation walked over.  A list of one slot stands for an
integer attribute and a longer one for an array attribute, the two forms that `simplify` and `CombineOp::fold` tell apart.

**`FHECanonicalize`** (`IR/FHE/FHEDialect.cpp`): one action per fold or canonicalize method and one for the removal of dead
operations, applied at any operation in any order.  What a fold keeps is written as the set of the places it keeps (`Kept`), and
`Picked` of **`Subsequences`** is the sequence at these places, without recursion.  The laws of arithmetic that
the folds rely on are assumptions on `Apply`, made of just the scalars and the numbers of operands the programs have.  `FoldNothingLeft` reaches `front()` of an empty vector; what
follows is undefined and the model stops (`status = "undefined"`).

**`Nary`** (`Nary.cpp`): the five loops of `runOnOperation` one after the other.  The block is a sequence, since
operations are placed between any two.  `Visit` reads the uses of an operation, `VisitUse` takes any one of them:
the use list is being changed by the very loop that goes through it, and the model allows any order.
New operations are named by the next number, wherever they are placed; `sem` of one is what the user it replaces was meant to compute.

**`InternalBatching`** (`InternalOperandBatching.cpp`): `CollectOrigins` fills `originMap` from the operands (`uses`), `IgnoreOrigin` is an iteration
of the loop over it that gives an origin up.  For one that is reduced, `StartHalving`, then `RotateAndAdd` once for each iteration of the inner loop
(`half` is its `i`, `prev` what it rotates), then `AssignOperands`, the new list of operands.  `OriginsEnd` is the end of the loop,
`WalkPast` and `WalkEnds` are the walk.  `originMap` is filled once and the operands change under it: whether an origin is reducible is asked of `uses`, what remains is picked from the operands there are.

**`HIRPipeline`** (`tools/fhe-tool/fhe-tool.cpp`, `ssaPipelineBuilder`): every pass is the `Next` of its module
on shared variables.  A program comes with a `plan`, the passes that the user asked for: all of the pipeline (`Passes`), or some.
`Running` is the pass at hand; `NextPass` hands over when it has ended (for the canonicalizer: when none of its rewrites
is enabled) and renumbers the block.  Differences from the code: `UnrollLoops` has run
already; of `tensor2fhe` and the two canonicalizations around it there is one canonicalization here (the programs are of vectors
from the start), and the conversion is in `Lowering`; the canonicalizer goes
through the block from the top, a schedule, while `FHECanonicalize` by itself is checked for all orders; CSE, which
is MLIR's, merges equal operations.

**`Lowering`** has the four passes that are MLIR dialect conversions.  `ConvertFunction` is their function pattern,
`ConvertOperation` takes the operations in order: a legal one stays, one that has a pattern is `Rewritten`, any other fails the pass.
`FromTensor`, `FromArithmetic`, `FromRotate`, `CallRotate`, `CallLoad`, `ReturnOperand` are the patterns.  `ConvertedType` and `Materialize` are the type converters:
where an operation with a new type meets an operand of an old one, a materialize is put between.  `EndConversion` verifies the function
(`WellFormed`, with the sizes that `BGVDialect.cpp` infers), `Fold` is the canonicalizer on materializations and on what is dead.  How it ends is `lowered`:
`done`, `failed` (no pattern), `malformed` (the verifier or an assertion), `undefined` (a null type is used).

**`FheTool`** runs a program's plan in `HIRPipeline`, writes its body out with dialects and types (`FromHIR`), and runs the conversions
that the program asks for; a program of another dialect, a trace of BGV operations or a function on tensors, is only converted.

**`AstLanguage`** is the AST dialect (`IR/AST/AST.td`): one constructor per operation the lowering translates, and what a program means,
block scopes and all.  It is the reference for the next module and knows nothing of it.

**`Ast2Hir`** (`Passes/ast2hir/LowerASTtoSSA.cpp`).  The recursion of `translateStatement` is a stack of `frames`; `table` is
`symbolTable`, an `llvm::ScopedHashTable`, as a list that leaving a scope cuts back.  `Declare`, `AssignVariable`,
`AssignElement` and `TranslateReturn` translate one statement, `EnterFor` and `LeaveFor` are the two halves of
`translateSimpleForOp`, `EnterIf`, `LeaveThen` and `LeaveElse` the parts of `translateIfOp`.  Operations without regions are pure, so
the SSA value of one is the term it computes; where in a block it is placed is no part of the model, nor are types (so that
`mergeBlocks` moves the statements of a branch behind the terminator `scf.if` is created with does not show).  Loops,
their arguments and their results are kept as such, and `LoweredResult` runs them.  `Translated` is `translateExpression`, with what becomes of
expressions that it refuses (`Refused`): the constant 1 or no value.  A value that is missing may be stored (`AssignVariable`) and
ends the pass where it is dereferenced (`DereferenceNull`).  `RefuseStatement` and `AssignInvalid` are the statements that are answered with an error.
`LoseInsertionPoint` is the undefined behaviour of an
`if`: the MUX is created at an insertion point that has been erased, and the model has the intended outcome and the end of the pass.

**`ASTClasses`** and **`ASTNodes`** are the tree of the legacy frontend (`include/heco/legacy_ast/ast`).  `ASTClasses` has a
record for each class: what it owns, in a vector (`Block`'s statements) or in members of their own (the branches of `If`), which
of these have setters or can be taken, and in what its constructor and its `operator=` differ from those of the others; and
what the iterators of each class find at a position.  `ASTNodes` is the heap: `child` is what the `unique_ptr`s own, `parent` is
`AbstractNode::parent`, `hand` is what the client owns, an address may be used again after its node died.  An action is one call: `Build`
a constructor, `Edit` setters, take, append, prepend, nulling through `getStatementPointers` and compacting, `Copy`
`clone` and copy assignment, `Move` the move constructor and assignment, `Delete` the end of a `unique_ptr`.
`stray` is read by no call: it is the set of nodes that were moved and kept the parent pointer they had.  The client may call anything on nodes that
live, with what it holds; it does not assign a node to one of its own descendants, or move a node to itself.

**`ParentSetting`** (`ast_utilities/ParentSettingVisitor.cpp`, `Visitor.h`, and `PlainVisitor.cpp` for the one class that the template forgets) runs
the visitor over such trees, one step for each child: `walk` is the C++ stack with the iterator of each range-for, and
`StackTop` the visitor's own stack.  `VisitChild` sets the parent or throws, `Leave` returns to the loop of the node above.

**`Tokenizer`** (`Tokenizer.cpp`, `Tokens.cpp`, `PushBackStream.cpp`) reads one character in a step.  `stream` is the `PushBackStream`: the text and
how far it has been read, what was pushed back, and the two counts;
`mode` is the C++ function that reads: `tokenize` (`Start`, `AfterSlash`), `fetch_word`, `fetch_operator`, `fetch_string` and the two that skip comments.
`Candidates` and `Match` are the maximal munch of `getOperator`, `PushBackAll` what follows it.  **`AbcLexemes`** has the tables and the kinds of characters, and
a second definition of the tokens of a text (`TokensOf`), which reads it in no order: it is what the tokenizer is compared with.

**`Parser`** (`Parser.cpp`).  The C++ call stack is `agenda`: what is still to be done, next thing first; each `parse...` function is an action
that replaces itself by the calls it makes.  The trees returned are on one stack, `values`; a call that collects children remembers how high it was.
`ParseExpression` starts the loop of `parseExpression`, whose alternatives are `ReduceBefore`, `ParseOperator`, `ParsePostfix`, `ParseLiteral`, `ParseOperand`, `StopParsing`;
`ApplyUnary` is the block after them, and `CleanUp` what follows the loop.  `created` is the list of nodes handed out.  A call ends with a tree,
with an error (`stork::` exceptions), with undefined behaviour (`top()` of an empty stack), or as a runaway: `MaxGrowth` says how often a token that is never
consumed is seen before the model gives up.  **`AbcSyntax`** has the tokens, precedences (`Operator.cpp`) and trees.

**`AbcGrammar`** is the reference: `Text` writes a tree as tokens, `Trees` gives all trees that a sequence of tokens may be read as under the precedences of C++, which the code
names as its source, and `Misplaced` says where an operator stands at no place where it can.  It uses nothing of `Parser`.

**`AstToMlir`** (`AbcAstToMlirVisitor.cpp`): `frames` is the C++ stack, `blocks` the visitor's `block` with those that were saved.  `VisitChild` enters a child with a block of its
own (or, for statements, the one of the `Block`), `AddOp` emits the operation and restores.  **`Frontend`** is text to tokens to tree to operations.

**`PassContract`** is the abstract specification of a pass: it ends once, having succeeded or failed, and the values returned
never change.  `Batching` is shown to implement it, by TLC and by proof.

## 3. What TLC checks

Scalars are interpreted in one of two ways.  `TermApply` leaves arithmetic uninterpreted: the value of an
operation is the *term* it computes, so equal values mean the same operations on the same slots in the same
order, for every arithmetic there is.  `ModApply` is arithmetic modulo 97 on inputs that differ in all slots,
for passes that use the laws of arithmetic (neutral elements, associativity); the canonicalizer's run is modulo 11, small enough
for TLC to evaluate the module's assumptions on all scalars there are.

| run | instance | what it shows |
|---|---|---|
| `batching` | N = 3, terms; a subtraction and a multiplication over slots, constants, plaintexts, each other and an operand the pass must reject, the results inserted, returned or both | `TypeOK`, with `Dominance` a part of it (the conversions of an operand come before the operation that uses them); `MeaningPreserved`, `ResultsLandWhereWanted`; `Outcome`: success exactly on batchable programs, with no scalar arithmetic left; `KeepsContract`, the refinement of `PassContract` |
| `combine_simplify` | N = 3, terms; chains of combines in all orders, shared or not | `MeaningPreserved`, `FoldIsSound` (the test in `CombineOp::fold`, which looks only at the first slot and the length of a list, is right for all lists the pass makes), `FilledVectorsAreCopies`, `SimplifiesAll` |
| `canonicalize` | N = 2, mod 11; rotations, neutral elements in all places, copies of slots; all orders of rewrites | `TypeOK`: where arithmetic does not mix types, every operation passes the verifier after every rewrite; `MeaningPreserved` unless something is subtracted from zero, `ComesToRest` |
| `nary` | N = 1, mod 97; plaintext arithmetic and three operations that may use one another, also twice | `MeaningPreserved` unless an operand is repeated or a difference nested; `Collapses`: the pass ends, although the block grows while it is walked through, and then nothing that is used has an operand of its own kind |
| `internal_batching` | N = 4, mod 97; two operations of any kinds, with nine lists of operands for the first and three for the second, which uses the first: full and partial rows of rotations of one vector or two, in any order, a vector listed twice, constants and plaintexts among them | `TypeOK` after every rotation and addition; `MeaningPreserved` where only sums over all slots are reduced; `Reduces`: it ends, and then no operation lists a vector with all of its rotations |
| `pipeline` | N = 4, mod 97.  Through the whole pipeline and then to EmitC, as the repository's README says: loops z[i] = x[i+k] op y[i], stencils, windows, sums in all orders, dot product, distance, a compound expression.  Converted only: two operations on two vectors and a rotation, in two sequences of passes; traces of BGV operations after `test/IR/BGV/trace.mlir`, with each operation of the dialect; reads and writes of tensors of one and two dimensions with every index | `PassesFit`: the assumption of every pass (`IsProgram`) is kept by the passes before it; `CompiledCorrectly` (for full sums only); `Vectorized`: no slot is read or written any more and there are no more operations and rotations than by hand; `LoweredFaithfully`: what is converted computes the same; `LowersCompletely`: nothing of the converted dialect and no materialization is left, and a conversion gives up only on what it has no pattern for or builds malformed.  Deadlock is checked: the tool never hangs before its end |
| `zero_minus` | violated | `SubOp::fold` turns 0 - x into x |
| `ast2hir` | numbers mod 97, c in {0, 1}; after a declaration any two of 42 statements: loops of 0 to 2 iterations, loops in loops, locals, element assignments, ifs around and inside of loops; further functions with one statement that is refused or known in part (two and three indices, elements of sums, other operators and kinds of expression, undeclared names, repeated parameters) before or after a loop, a declaration, an if or a store | `LoweredCorrectly`: the lowered function returns what the program does (unless an error was emitted, a declaration shadows another, something is indexed twice or is no variable, or an if asks for more than MUX expresses); `ValuesVisible`; `LeavesNothing`: the lowering ends with the symbol table empty, also after errors, unless it ran into undefined behaviour on a function with an `if` or with an expression for which there is no value |
| `ast2hir_if` | violated | `if (c) s = a` makes s zero where c is zero |
| `ast_parents` | six addresses (symmetric), vectors of up to two; every class with every choice of null children and two calls, or seven deeper trees and three calls, each a visit or any operation on any node | `SoleOwner`: every node is owned once, and none leaks; `ParentIsOwner`: a parent pointer names the owner or nothing, except in what was moved; `LinksAll`: a visit that ends well has set all parents; `RefusesOnlyMoved`: a visit is refused only for what was moved, or for a `Call` |
| `pipeline_stencil` | violated | z[i] = x[i] + x[i-1] is compiled to z[i] = x[i] + x[i+1] |
| `frontend` | texts: all of up to 3 to 5 characters out of six small alphabets, and programs spelled with no separator, spaces, comments, lines.  Programs: expressions with all pairs of binary operators in both groupings, triples of four of them, prefix operators, accesses, lists, calls; statements nested two deep; functions; all sequences of up to 4 and 3 tokens out of six as a right-hand side; functions and loops with one token missing or the rest cut off; texts that break off in what is no token | `GivenBackInOrder`: read-ahead and push-back leave the stream at the rest of the text, with the counts right; `TokensAreTheLexemes`; `ReadAsWritten`: unless an operator is misplaced, the tree is the one of the grammar, and what has none is refused; `CreatedNodesAreTheTree`; `EmitsTheTree`: the operations read back as the tree; `Terminates`: tokenizing ends, parsing ends with a tree or an error, and emission is done or refuses; the exceptions are named in the property: a postfix operator that is applied (for ever), a misplaced operator (undefined), a list of expressions that is emitted (for ever) |

**Bounds.**  Three slots are the fewest for which rotating by `a - b`, by `b - a` and not at all differ, and for
which a chain of combines has a middle; two suffice where slots only have to be told apart, one where the pass does not look at slots
(nary).  Internal batching halves, so it needs a power of two, and four for two rounds.  Two operations to
batch are enough for each of the interactions there are: a result used by a later operation, by an insert, by a
return, by several; more of them repeat these.  Three operations are what a collapsing loop needs to inline what was itself
inlined.  Two statements, of which one may be a loop with a loop, are what it takes for one loop's results to
enter another and for a name of the first to be missed or met again in the second.  For these no bound is set on steps: all counters are bounded by the program.
In the frontend, two operators in either grouping decide all that one comparison on the stack can get wrong, and three let a reduction uncover a third;
four tokens are the shortest sequence in which a prefix operator, an operand and an infix operator come in every order.  Three characters are the longest
operator, and one more is what may be read too much.  `MaxGrowth` = 3 stands for a loop that reads the same token for ever.
Calls on an AST have no end, so `MaxCalls` sets one, and `ast_parents` does not check for deadlock; nor does the frontend, as parsing ends.  Three calls are enough to take, place and visit, or
to assign, delete and look at what is left; six addresses are for two copies of a node with two children; `Built` limits constructor calls to
one class that tells its children their parent, one with a vector and the one that visitors forget, as all classes are among the trees to start from.

**Fairness.**  `FairSpec` is weak fairness of `Next`: a pass, the tokenizer or the parser runs on the thread that called
it until it returns; the greedy driver goes on until nothing changes.  Of the pipeline as a whole no liveness is stated; its deadlock check and the
action `Ended` say that it stops only at the end or at a failed pass.

Each property has a mutant in `PROJECT.json`: the same definition with a plausible mistake (defined beside the original
and marked `Mutant:`), under which the property fails.

### Observations

Met while modelling, and not each worth a run:

* `AddOp::fold` and its siblings take `front()` of the remaining operands even when none remain.  Where one does, its type is not compared
  with that of the result: the sum of a zero and a plaintext folds to a plaintext (`FHE.td:159` has a secret).
* The same folds return `getResult()` also when they changed nothing.  To the greedy driver that is a change, so it is MLIR's
  limit of iterations that stops it; `ComesToRest` is about the rewrites themselves.
* `Nary` gives the operations it makes of plaintext arithmetic their plaintext type, which the dialect does not admit (`Nary.cpp:115`, `FHE.td:174`).
* `test/.../hammingdist_5_batched.mlir` expects sums over rotations by negative amounts to be reduced; the code requires the least index to be 0.
  Only sums over as many rotations as the vector is long are reduced rightly: of a partial sum the result is in another slot.
* A dot product with one of the vectors shifted is compiled rightly and not vectorised: without a use that decides, the heuristic prefers slot 0.
* `CombineSimplify` recognises slots filled in ascending order only.
* In the lowering of `if`, statements of a branch do not see each other's assignments, since each has a scope of its own (`LowerASTtoSSA.cpp:255`); a second
  assignment to a variable is ignored (`unordered_map::insert`, `:249`); assignments in a for or an if inside of a branch are lost (the callback is
  not passed on); a variable local to the then branch leaks into the table with a null value (`:263`) although the comment at `:293` says it is skipped.
* The MUX is inserted where the last statement of the branch was (erased), uses values of the branches outside their regions, and enters names into the symbol table
  that refer to strings which end with the loop (`:289`).  No test of the repository lowers an if.
* `declare` says "in the current scope" (`LowerASTtoSSA.cpp:52`) and looks in all scopes: a declaration that shadows another is silently dropped.
* `m[i][j]` is lowered to `m[i]`, an access with the inner of its two indices (`LowerASTtoSSA.cpp:209`), and an element of anything but a variable or
  an element to the constant 1 without an error (`:221`).  Errors are emitted without failing the pass, and after some of them there is a null value that is dereferenced (`:216`, `:229`).
* The product of all slots of a vector becomes their sum: `InternalOperandBatching.cpp:128` makes an addition of whatever it reduces.  `CompiledCorrectly` excludes that.
* `collapseAdd` drops every occurrence of the inlined sum and appends its operands once (`Nary.cpp:31`): (a+b)+(a+b) becomes a+b.  `collapseSub` does the same
  for differences: (a-b)-c becomes c-a-b.  `MeaningPreserved` of `Nary` excludes both.
* `a && !b` is parsed as `!a && b`: a prefix operator on top of the stack is applied as soon as there is any operand, the one to its left too (`Parser.cpp:405`), though
  precedences are "Based on https://en.cppreference.com/w/cpp/language/operator_precedence" (`Operator.cpp:100`).
* `-x` for an identifier is an error, `-true` is accepted as `true`, `a b +` as `a + b`, and `!!!a` is an error; some sequences with operators misplaced
  take `top()` of an empty stack (`Parser.cpp:294`).  A postfix operator is never consumed: `x = a++;` makes the parser loop for ever (`Parser.cpp:314`).
* Between the updates of a `for`, the comma is consumed only from the third statement on (`Parser.cpp:897`), so a loop with two updates is refused.
* A string literal never has a backslash in it: the second of two begins another escape.  A byte beyond ASCII silently ends the text, since a negative `char` is taken for the end of
  file (`Tokenizer.cpp:25`).  `0x1f` is read as the float 1 (its `f` is taken for a suffix); after any number with suffix `f` a destroyed string is looked at (`Tokenizer.cpp:100`).
  The place of a string literal is that behind its quote.
* Secret parameters and results, and declarations without a value, cannot be translated to MLIR; the type of a declaration is taken from the literal it is given; for an
  `ExpressionList` overload resolution finds `visit(AbstractExpression &)` again, which recurses without end (`AbcAstToMlirVisitor.cpp:80`).
* Sums and products of two are converted to BGV with their first operand only (`LowerFHEToBGV.cpp:117`), which fails an assertion or the verifier; a product of more takes the element type of
  a null type (`:132`).  `fhe2bgv` is in no pipeline.  Of the loops that are vectorised, those whose body is a single difference or a sum of three get through.
* `multiply_many` becomes a call of `multiply_plain` (`LowerBGVToEmitC.cpp:143`); `load_ptxt` has a pattern that has no name for it; exponentiate and the two modswitch have none.
  `ModswitchPlainOp` infers a plaintext from an operand that is declared a ciphertext, so no verifier passes it.
* The full example of the repository's README ends with `--bgv2emitc`, before the canonicalization that removes materializations.
* Of the indices of a tensor only the first is used, and the size of a vector made of a tensor of two dimensions is -28 or -155 (`Tensor2BatchedSecret.cpp:33`).
* `MaterializeOp::canonicalize` waits for a type that is never made, and its comment (`FHEDialect.cpp:352`) says rotate by -i where the code rotates by i.
* `Visitor.h` has no `visit(Call &)`.  So `ParentSettingVisitor` gives a `Call` no parent, and its arguments the parent of the `Call`,
  though `ParentSettingVisitor.cpp:5` says that the top of the stack is the parent; a tree that was cloned, where arguments do point at their `Call`, it refuses.
* The iterators of `Block`, `Call`, `ExpressionList`, `Function` and `OperatorExpression` skip null pointers on increment but not at the beginning: `for (auto &s : block)` with
  the first statement nulled dereferences it, though "it is not exposed externally" (`AbstractNode.h:27`).
* Setters do not call `setParent`, though `AbstractNode.h:41` says they should; after a take and a set the old parent stays, and may be deleted while the pointer remains.
* `Assignment::operator=`, unlike its siblings, assigns the part of `AbstractNode` too: the parent of the right-hand side, and the id, "unique among all nodes" (`AbstractNode.h:189`).
* MLIR may reorder operands of operations declared commutative; the models keep their order.

## 4. What is proved

`tlapm` checks what follows on the passes for every `N > 0`, every interpretation of arithmetic (for the canonicalizer: every one with the
laws below) and every set of programs that satisfies
`SourceAssumption` (each program is verified, acyclic and has consistent values: what MLIR's verifier guarantees of the
input of a pass; `PassesFit` checks it inside the pipeline).  The other assumptions are `NAssumption` and
`LiteralAssumption`, and those named below, in the modules that declare the constants.

* **Batching** (`Batching_proofs`).  `MeaningPreserved` is not inductive: in the middle of the conversion the new operation has
  some operands rotated and others not, and is consistent only with *that* mixture.  The invariant `IInv` adds
  - `PositionsInOrder`: what the pass has placed lies where its position says, nothing beyond the walk is touched;
  - `Conversion`: each operand of the new operation, converted, agrees *in the target slot* with the operand it was made from, and not
    yet converted is that operand.  From it `ResultIsOriginal`: once the loop ends, the target slot of the new
    operation holds the value of the original, which is a scalar, so extracting it gives the original;
  - `UndeterminedSlotIsUniform`, without which extracts from slot -1 have no value;
  - `SourceKept`, `ReturnsKept`, by which the values returned are those of the source.

  `RotationAligns` is the arithmetic (`(t - (t - i)) % N = i % N`), stated once in `HIRLemmas`.  From `IInv`: `TypeCorrect` (with `Dominance`),
  `UndeterminedSlotsAreUniform` (an extract from slot -1 reads a vector with equal slots), `BatchingPreservesMeaning`, and the refinement `BatchingKeepsContract`.

* **Where results land** (`Batching_proofs`, on top of `IInv`).  `ResultsLandRight`: the slot an inserted or returned
  result is extracted from is one that such a user wants.  The invariant adds `TargetWanted`: the target slot was chosen among
  the wanted ones and stays one of them while operands are converted, as the loop sets it only when there is none and slot -1 is never
  wanted.  `SameWanted` reduces the rest to who uses what: the pass makes no inserts and no returns, and those of the original
  become those of the result.

* **CombineSimplify** (`CombineSimplify_proofs`).  `CombineTwice`: combining slots of `v` into a combination of slots of
  `v` is combining their union; `ListedConcatenation` says that appending lists is that union.  The typing of the
  lists (never empty, all slots) is needed for both and makes the invariant `IInv`.  Two theorems are about the lists themselves, from
  `ListsAssumption` (`InsertOp::canonicalize`, which alone makes combines, gives each one slot) and `BlockAssumption` (a
  block is numbered through, so that the walk meets all of it).  Their invariant `ListInv` says that lists have no gaps and
  never change their vector, that what is ahead of the walk is as it was, and (`WalkedChains`) that behind the walk
  the member for slot `s` of a chain lists `0 .. s`: by `ChainPredecessor` the member before is already widened when the
  walk comes to one, so that it matches.  `FoldsAreSound` follows from the first part (no gaps, `N` long and from 0 means all slots),
  `FilledVectorsBecomeCopies` from the last.

* **FHECanonicalize** (`FHECanonicalize_proofs`, on `StructureLemmas`).  `CanonicalizerTypeCorrect` and `CanonicalizerPreservesMeaning`: `TypeOK` and
  `MeaningPreserved` after every rewrite, in every order.  Neither is inductive.  `IInv` adds
  - `Descends`: operands come before what uses them, so replacing an operation by one of its operands never makes a cycle;
  - `Shapes`: each kind has the operands its rewrites look at, lists of slots are ascending and never empty.  So the test in `CombineOp::fold`, which
    looks at one slot and a length, stands for all slots;
  - `TypesStayUniform`: where arithmetic does not mix types, it never comes to.  It is needed since the folds of arithmetic replace a sum by its only operand
    without a look at its type (see the observations): `TypeOK` promises a verified body only for programs that do not mix;
  - `NeverFromZero`, part of `Meaning`: what is subtracted from stays other than zero, since no rewrite changes what the first operand
    of a difference computes.  Without it `SubOp::fold` would be wrong later even if it is right at first;
  - `SourceKept`: what the values returned are compared with.

  The laws of arithmetic are assumed as the folds use them: an operation on one operand is that operand (`UnaryAssumption`), and operands that are
  neutral may be left out (`NeutralAssumption`; of a difference the first stays).  From the second, `PickedFacts` (what `Picked` gives, its
  length and members) and `PickedValues`, a fold computes what the operation did, for any number of operands.  `TermApply` has no such laws,
  so this theorem is about arithmetic proper; `HIRPipeline`, which runs the canonicalizer between other passes, is not proved about.

* **Nary** (`Nary_proofs`, on `StructureLemmas`).  `NaryTypeCorrect`, `NaryCollapses` (`FlatWhenDone` always holds, so `Collapses` does if the pass ends) and `NaryPreservesMeaning`, for any block that is numbered through
  (`BlockAssumption`, as for CombineSimplify) and any order in which uses are visited.
  `BInv` is about the block: it lists every operation once, those that an operation uses come before it (`OperandsBefore`), what is pending are uses of the operation that the walk is at.
  Two things had to be found to make the properties inductive.
  - `VisitedUnused`, for `FlatWhenDone`: an operation with an operand of its own kind, the use of which *was* visited, is used by nobody.  It was replaced then, and
    it stays so: the new operation takes its operands from the user and from what is inlined, and if one of these were of the same kind and visited before,
    then user or inlined operation would have no users, but both do.  It goes behind the user it replaces, so the walk still comes to it (`PassedAfter`).
  - `RepeatsPassed` and `NoDifferenceNested`, for `MeaningPreserved`: that the *source* lists no operand of its own kind twice does not survive, since two operations that are inlined into
    one may share an operand.  What survives is that whatever is listed twice is behind the walk, so that it is not inlined any more.

  The law of arithmetic is a hypothesis of `NaryPreservesMeaning` and of nothing else: by `InliningLaw`, an operand that is a sum may be replaced by its terms, and likewise for
  products, for the scalars that programs have and any number of operands.  Arithmetic modulo a number has it (`ResiduesMayInline` has TLC check it for some values and three operands), that of `TermApply` does not.

* **InternalBatching** (`InternalBatching_proofs`, on `StructureLemmas`): `InternalBatchingTypeCorrect`, `InternalBatchingReduces` (`ReducedWhenDone` always holds, so `Reduces` does if the
  pass ends) and `InternalBatchingPreservesMeaning`, for any block that is numbered through (`BlockAssumption`), any number of slots and lists of operands of any length.
  `BInv` is about the block and the lists.  `SourceKept` and `Placement` say what the pass leaves alone and where it puts what it makes; `HalvingInv` is about the inner loop.  Two parts had to be found.
  - `OperandsKept`: the operands that are still the source's are, one to one, the `uses` whose origin is not reduced yet or never will be; all others are sums that the pass made.
    A one-to-one correspondence and not a set: an operand may be listed twice, and removing one origin must not touch what another counts.
  - `DoneInv`, for `Reduces`: what is behind the walk has nothing to reduce, and stays so while operations are placed between (`StillNothing`).

  `Meaning` is about values.  Its part `Halved` is the invariant of the inner loop: `prev` sums, for every slot, `t` terms that are `h` apart, where `t * h = N` and the next
  rotation is by `h / 2`.  A round adds the terms half-way between (`RoundSums`, by `ByTurns`: two sums of `t` terms taken by turns are one of `2 t`), and when `h` is 1 all slots are summed (`FullSum`).
  `TermsReplaced` puts that sum in the place of the rotations that were listed, in whatever order and places they were.
  The laws of addition, `SumLaws`, are a hypothesis of the last theorem only: there are values, the programs' scalars among them and closed under sums, for which the order of terms does not matter, the sum of one is it, and
  a sum at the end of a sum may be replaced by its terms.  Arithmetic modulo a number has them (`ResiduesAddUp` has TLC check it for some values and three operands).

* **The AST nodes and the visitor** (`LegacyFrontend_proofs`, on `StructureLemmas`), for any number of addresses, vectors of any length, any number of calls
  and all the classes of `ASTClasses`.  `HeapAssumption` says that the trees to start from are trees.  Theorems: `NodesSound` and `VisitsAreDown` (both `TypeOK`, the second with
  the stack of visits: it goes down one tree and every iterator is within its node), `OwnedOnce` (`SoleOwner`), `NoDanglingParents` (`ParentIsOwner`), `VisitsLinkAll` (`LinksAll`) and `RefusalsExplained`
  (`RefusesOnlyMoved`).  The invariant has two halves.
  - `NodeInv` is about the heap: nodes have children that their class can have, no child is owned twice in one vector or in two, each node has its owner
    or no one as its parent unless it was moved (`OwnersTold`), and the nodes are a forest (`Forest`) whose roots the client holds.  The last makes it inductive: when `operator=` or a setter
    destroys a tree, what dies must be all that is below the lost children and nothing that is not.  `StructureLemmas` proves for any relation of owners what each kind of call
    does to a forest: `ForestDetach` takes a child out, `ForestAttach` puts a held tree in, `ForestKill` destroys one, `ForestCopy` copies one to free addresses,
    and `ForestReplace` puts a copy where a destroyed tree was.
    That there is no cycle is stated by sets closed under ownership, not by a recursive reachability.
  - `WalkInv` is about a visit: each frame is at a child that its iterator reaches, the children it has passed were told their parent and all below them is
    done, and each frame leads to the next one (`LeadsTo`).  `EndFacts` and `IncrementFacts` show for the iterators of each class, those over vectors and those over members,
    that between the beginning and the end they miss no child: it is from there that a visit which ends well has `LinksAll`.

  The proof corrected the model in one place: two alternatives of an iterator's increment overlapped where a member was null.

* **The tokenizer** (`LegacyFrontend_proofs`), for every text, and whatever the tables of operators, the kinds of characters and `Spelt` are: nothing depends on them.
  `TokenizerGivesBack` (`GivenBackInOrder`): however much was read and given back, what comes next is the rest of the text, and the two counts say which line and character that is.
  `TokensStandInPlace` (`TokensInPlace`): a token says the line and the place from which the text spells it, and what it takes ends before the next one begins;
  of a string literal, the place is behind its quote.  The invariant is `TokenizerInv`:
  - `InText`: what was pushed back is what the text has from `index` on, and reading goes on behind it.  The end of the text needs care: the stream
    keeps giving the end of file there, which is counted and may be pushed back as any character may;
  - `ReadSoFar`: a word or operator read so far is what the text has from `begun` to `index`, and `matched` is within it, so that what `getOperator` gives back is what
    it read last.  It is this that makes pushing back right: `PushBackAll` restores the counts only if it gets the characters that were there;
  - `Floor`, where the tokens so far end: while a token is read, where it began; after a slash that may turn out an operator, before the slash.  From it tokens do not overlap.

  Both theorems are about `TokenizerSpec(text)`, the tokenizer by itself, since `Frontend` compares with recursive definitions; in `Frontend` it is these steps that run first.

Only model-checked: all liveness (out of the prover's reach; for `Nary` and `InternalBatching` that is that they end), all of
`HIRPipeline`, `Lowering` and `Ast2Hir`, and of the frontend that tokens are the longest lexemes (`TokensAreTheLexemes`), the parser and what is emitted.
`Ast2Hir`, `HIRPipeline` and the frontend state what
they are about with recursive definitions over terms, trees and texts (`Denotation`, `Trees`, `ReadBack`, `TokensOf`), and induction over these is out of the prover's reach.  The proofs about passes
use the local statement `Consistent` instead of a program's `Denotation`, which needs no induction.

## 5. What is not modelled, and the plan

Abstracted in `Ast2Hir`: the order in which a loop carries its variables, where in a block operations are placed, types, and operations
without the body or the operands that the dialect requires.  In the AST nodes: identifiers, operators, literals and their types, node ids, JSON and printing.  In `Lowering`: ring parameters, the files
keys are loaded from, CSE of loaded keys.  In `AstToMlir`: Calls of anything but `rotate`, `OperatorExpression` and `TernaryOperator`, which the parser does not make.

Not modelled for good: printers and assembly formats, the pybind11 glue, `emitc-translate`, the Poly dialect (no pass uses it), `ScalarBatching` (empty);
`UnrollLoops`, which is a loop around MLIR's unrolling; `Scope`, `ScopedVisitor` and `VariableMap`, which nothing but tests uses; noise and
parameters, which the compiler does not compute with.

Left to do, in this order:

1. Theorems: `ValuesVisible` and `LeavesNothing` of `Ast2Hir`, which are about the symbol table and not about terms.
2. `PythonFrontend`: the visitor of `python/pyabc` with the function it builds, into `AstLanguage`.
3. `ASTJson`: reading back what was written, with absent children.
4. `UnrollLoops` as a stage of `HIRPipeline`, on programs with loops.
