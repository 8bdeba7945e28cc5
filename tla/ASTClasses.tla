----------------------------- MODULE ASTClasses -----------------------------
(***************************************************************************)
(* The node classes of the AST (include/heco/legacy_ast/ast and            *)
(* src/legacy_ast/ast): what a node of a class may own, and which of the   *)
(* operations on nodes the class has, and the iterators over children.     *)
(*                                                                         *)
(* A node owns a sequence of children: first those it keeps in a vector,   *)
(* then those it keeps in members of their own.  Either may be null.       *)
(* Identifiers, operators, datatypes and literals are left out.            *)
(***************************************************************************)
EXTENDS Naturals, Sequences, FiniteSets

CONSTANT Null   \* a std::unique_ptr that owns nothing

Statements ==
  {"Assignment", "Block", "Function", "For", "If", "Return", "VariableDeclaration"}

Targets == {"FunctionParameter", "IndexAccess", "Variable"}

Expressions ==
  Targets \cup {"BinaryExpression", "OperatorExpression", "UnaryExpression", "Call",
                "ExpressionList", "Literal", "TernaryOperator"}

Kinds == Statements \cup Expressions

-----------------------------------------------------------------------------
(***************************************************************************)
(* A class:                                                                *)
(*   vector   the kinds of node its vector holds ({}: it has none)         *)
(*   members  for each member, the kinds of node it may own                *)
(*   set      the members that have a setter                               *)
(*   take     the members that can be taken out                            *)
(*   edit     what can be done to the vector                               *)
(*   adopts   whether the constructor tells the children their parent      *)
(*   bases    whether operator= also assigns the part of AbstractNode      *)
(*   clears   whether operator= empties the vector before it copies        *)
(***************************************************************************)
Of(members) ==
  [vector |-> {}, members |-> members, set |-> DOMAIN members, take |-> {}, edit |-> {},
   adopts |-> FALSE, bases |-> FALSE, clears |-> FALSE]

VectorOf(kinds, edit) ==
  [vector |-> kinds, members |-> << >>, set |-> {}, take |-> {}, edit |-> edit,
   adopts |-> FALSE, bases |-> FALSE, clears |-> TRUE]

Assignment ==
  [Of(<<Targets, Expressions>>) EXCEPT !.take = {1, 2}, !.adopts = TRUE, !.bases = TRUE]

VariableDeclaration == [Of(<<{"Variable"}, Expressions>>) EXCEPT !.take = {1, 2}]

Return == Of(<<Expressions>>)

If == Of(<<Expressions, {"Block"}, {"Block"}>>)

For == Of(<<{"Block"}, Expressions, {"Block"}, {"Block"}>>)

Block == VectorOf(Statements, {"append", "prepend", "null", "compact"})

Function ==
  [VectorOf({"FunctionParameter"}, {}) EXCEPT !.members = <<{"Block"}>>]

BinaryExpression == Of(<<Expressions, Expressions>>)

UnaryExpression == Of(<<Expressions>>)

OperatorExpression == VectorOf(Expressions, {"append", "prepend", "compact"})

TernaryOperator == Of(<<Expressions, Expressions, Expressions>>)

IndexAccess == [Of(<<Targets, Expressions>>) EXCEPT !.take = {1}]

Call == VectorOf(Expressions, {})

ExpressionList ==
  VectorOf(Expressions, {"append", "prepend", "null", "compact", "take", "set"})

Variable == Of(<< >>)
FunctionParameter == Of(<< >>)
Literal == Of(<< >>)

Class ==
  [Assignment |-> Assignment, VariableDeclaration |-> VariableDeclaration, Return |-> Return,
   If |-> If, For |-> For, Block |-> Block, Function |-> Function,
   BinaryExpression |-> BinaryExpression, UnaryExpression |-> UnaryExpression,
   OperatorExpression |-> OperatorExpression, TernaryOperator |-> TernaryOperator,
   IndexAccess |-> IndexAccess, Call |-> Call, ExpressionList |-> ExpressionList,
   Variable |-> Variable, FunctionParameter |-> FunctionParameter, Literal |-> Literal]

\* How many of the children c of a node of this kind are in its vector.
VectorLength(kind, c) == Len(c) - Len(Class[kind].members)

\* The kinds of node that may be child i.
Admitted(kind, c, i) ==
  IF i <= VectorLength(kind, c) THEN Class[kind].vector
  ELSE Class[kind].members[i - VectorLength(kind, c)]

-----------------------------------------------------------------------------
(***************************************************************************)
(* The iterators.  Dereferencing may fail: beyond the end it throws, and   *)
(* where the vector holds a null pointer the behaviour is undefined.       *)
(***************************************************************************)
PastEnd == "past end"

NullsIn(c) == {i \in DOMAIN c : c[i] = Null}

\* The first of these members that is not null.
FirstOf(c, is) ==
  LET present == {k \in DOMAIN is : c[is[k]] # Null}
  IN  IF present = {} THEN PastEnd
      ELSE c[is[CHOOSE k \in present : \A l \in present : k <= l]]

ForDeref(c, position) ==
  LET has(i) == c[i] # Null
  IN  CASE position = 0 -> FirstOf(c, <<1, 2, 3, 4>>)
        [] position = 1 /\ has(1) -> FirstOf(c, <<2, 3, 4>>)
        [] position = 1 /\ ~has(1) /\ has(2) -> FirstOf(c, <<3, 4>>)
        [] position = 1 /\ ~has(1) /\ ~has(2) /\ has(3) -> FirstOf(c, <<4>>)
        [] position = 2 /\ has(1) /\ has(2) -> FirstOf(c, <<3, 4>>)
        [] position = 2 /\ has(1) /\ ~has(2) /\ has(3) -> FirstOf(c, <<4>>)
        [] position = 2 /\ ~has(1) /\ has(2) /\ has(3) -> FirstOf(c, <<4>>)
        [] position = 3 /\ has(1) /\ has(2) /\ has(3) -> FirstOf(c, <<4>>)
        [] OTHER -> PastEnd

\* Mutant: what was said at position 0 is not taken into account.
IfDerefForgets(c, position) ==
  CASE position = 0 -> FirstOf(c, <<1, 2, 3>>)
    [] position = 1 -> FirstOf(c, <<2, 3>>)
    [] position = 2 -> FirstOf(c, <<3>>)
    [] OTHER -> PastEnd

\* Without a condition, position 1 is the else branch, whether or not there is a then branch.
IfDeref(c, position) ==
  LET has(i) == c[i] # Null
  IN  CASE position = 0 -> FirstOf(c, <<1, 2, 3>>)
        [] position = 1 /\ has(1) -> FirstOf(c, <<2, 3>>)
        [] position = 1 /\ ~has(1) -> FirstOf(c, <<3>>)
        [] position = 2 /\ has(1) /\ has(2) -> FirstOf(c, <<3>>)
        [] OTHER -> PastEnd

TernaryDeref(c, position) ==
  LET has(i) == c[i] # Null
  IN  CASE position = 0 -> FirstOf(c, <<1, 2, 3>>)
        [] position = 1 /\ has(1) -> FirstOf(c, <<2, 3>>)
        [] position = 1 /\ ~has(1) -> FirstOf(c, <<3>>)
        [] position = 2 /\ has(1) /\ has(2) -> FirstOf(c, <<3>>)
        [] OTHER -> PastEnd

\* Assignment, VariableDeclaration, BinaryExpression and IndexAccess have the same.
PairDeref(c, position) ==
  CASE position = 0 -> FirstOf(c, <<1, 2>>)
    [] position = 1 /\ c[1] # Null -> FirstOf(c, <<2>>)
    [] OTHER -> PastEnd

\* Return and UnaryExpression
SingleDeref(c, position) == IF position = 0 THEN FirstOf(c, <<1>>) ELSE PastEnd
=============================================================================
