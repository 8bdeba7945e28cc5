----------------------------- MODULE AstToMlir -----------------------------
(***************************************************************************)
(* The visitor that turns the tree of the legacy frontend into operations  *)
(* of the AST dialect                                                      *)
(* (src/src/legacy_ast/ast_utilities/AbcAstToMlirVisitor.cpp).  A node     *)
(* becomes an operation whose regions hold what its children became.  The  *)
(* visitor has one member, block, where operations are put; it is saved,   *)
(* replaced and restored around every child.                               *)
(*                                                                         *)
(* frames is the C++ stack: the nodes being visited, the innermost last,   *)
(* with the blocks their children have filled so far.  blocks has the      *)
(* block in use last, and before it those that were saved.  A block is a   *)
(* sequence of operations, a region a sequence of blocks.                  *)
(***************************************************************************)
EXTENDS AbcSyntax

VARIABLES frames, blocks, status

mlirVars == <<frames, blocks, status>>

Frame(t) == [tree |-> t, filled |-> << >>, next |-> IF t.node = "VariableDeclaration" THEN 2 ELSE 1]

MlirInit == frames = << >> /\ blocks = << >> /\ status = "waiting"

Top == Last(frames)
Visiting == status = "visiting"
Collects(t) == t.node = "Block"

-----------------------------------------------------------------------------
(* The types that have a counterpart are those that are not secret; a      *)
(* declaration must have a value; for lists of expressions, overload       *)
(* resolution chooses visit(AbstractExpression) again, for ever.           *)
Translatable(tag) == tag[1] # "secret"

Refusal(t) ==
  CASE t.node = "ExpressionList" -> "runaway"
    [] t.node \in {"Function", "FunctionParameter"} /\ ~Translatable(t.tag) -> "error"
    [] t.node = "VariableDeclaration" /\ Len(t.kids) = 1 -> "error"
    [] OTHER -> "none"

\* The type of a declaration is that of the literal it is given.
DeclaredType(filled) ==
  LET op == Head(filled[1])
  IN  IF op.name \in Range(LiteralClass) THEN op.name ELSE "unit"

\* Arguments and parameters share a region, a block for each; other
\* children have a region of their own.
RegionsOf(t, filled) ==
  CASE t.node = "Call"     -> <<filled>>
    [] t.node = "Function" -> <<Front(filled), <<Last(filled)>>>>
    [] OTHER               -> [k \in DOMAIN filled |-> <<filled[k]>>]

Operation(t, filled) ==
  [name |-> t.node,
   attributes |-> IF t.node = "VariableDeclaration" THEN <<t.kids[1].tag[1], DeclaredType(filled)>> ELSE t.tag,
   regions |-> RegionsOf(t, filled)]

\* Mutant: operations are put at the front.
InBlockFront(stack, op) == [stack EXCEPT ![Len(stack)] = <<op>> \o @]

InBlock(stack, op) == [stack EXCEPT ![Len(stack)] = Append(@, op)]

-----------------------------------------------------------------------------
(* recursive_visit, or accept for the statements of a Block, which share   *)
(* the block that visit(Block) has made for them.                          *)
Visit(t, stack, saved) ==
  IF Refusal(t) # "none"
  THEN status' = Refusal(t) /\ UNCHANGED <<frames, blocks>>
  ELSE /\ frames' = Append(stack, Frame(t))
       /\ blocks' = IF Collects(t) THEN Append(saved, << >>) ELSE saved
       /\ status' = "visiting"

Translate(t) == status = "waiting" /\ Visit(t, << >>, << << >> >>)

VisitChild ==
  /\ Visiting
  /\ Top.next <= Len(Top.tree.kids)
  /\ Visit(Top.tree.kids[Top.next],
           [frames EXCEPT ![Len(frames)].next = @ + 1],
           IF Collects(Top.tree) THEN blocks ELSE Append(blocks, << >>))

\* The operation goes to the end of the current block; then the caller's
\* block is the current one again.
AddOp ==
  /\ Visiting
  /\ Top.next > Len(Top.tree.kids)
  /\ LET filled == IF Collects(Top.tree) THEN <<Last(blocks)>> ELSE Top.filled
         saved  == IF Collects(Top.tree) THEN Front(blocks) ELSE blocks
         now    == InBlock(saved, Operation(Top.tree, filled))
         callers == Front(frames)
     IN  IF callers = << >> \/ Collects(Last(callers).tree)
         THEN frames' = callers /\ blocks' = now
         ELSE /\ frames' = [callers EXCEPT ![Len(callers)].filled = Append(@, Last(now))]
              /\ blocks' = Front(now)
  /\ status' = IF Len(frames) = 1 THEN "done" ELSE status

MlirStep == VisitChild \/ AddOp

-----------------------------------------------------------------------------
(* Reading operations back as a tree.  The type of a declaration is lost.  *)
Contents(op) ==
  IF op.name = "Block" THEN op.regions[1][1]
  ELSE FoldLeft(LAMBDA s, region : s \o FoldLeft(LAMBDA u, b : u \o b, << >>, region), << >>, op.regions)

RECURSIVE ReadBack(_)
ReadBack(op) ==
  LET kids == [k \in DOMAIN Contents(op) |-> ReadBack(Contents(op)[k])]
  IN  IF op.name = "VariableDeclaration"
      THEN Tree(op.name, << >>, <<Var(op.attributes[1])>> \o kids)
      ELSE Tree(op.name, op.attributes, kids)

RECURSIVE Untyped(_)
Untyped(t) ==
  Tree(t.node, IF t.node = "VariableDeclaration" THEN << >> ELSE t.tag, [k \in DOMAIN t.kids |-> Untyped(t.kids[k])])
=============================================================================
