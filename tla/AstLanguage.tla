---------------------------- MODULE AstLanguage ----------------------------
(***************************************************************************)
(* Programs in the AST dialect (include/heco/IR/AST/AST.td), as trees of   *)
(* expressions and statements, and what they mean: the reference that the  *)
(* lowering of the dialect (Ast2Hir) is compared with.  The meaning is     *)
(* that of the C-like language the dialect stands for: a block opens a     *)
(* scope, an assignment changes the innermost variable of that name.       *)
(*                                                                         *)
(* Types are left out.  A tensor is a function on 0 .. n - 1.              *)
(***************************************************************************)
EXTENDS Integers, SequencesExt

CONSTANT Arith(_, _, _)   \* Arith(op, a, b): a binary operator on scalars

\* Expressions.
Literal(v) == [kind |-> "literal", value |-> v]
Variable(x) == [kind |-> "variable", name |-> x]
Binary(op, l, r) == [kind |-> "binary", op |-> op, left |-> l, right |-> r]
IndexAccess(target, i) == [kind |-> "index", target |-> target, index |-> i]

\* An expression or a statement of any other kind, which is given no meaning.
Other == [kind |-> "other"]

\* Statements.
Declaration(x, e) == [kind |-> "declare", name |-> x, value |-> e]
Assignment(x, e) == [kind |-> "assign", name |-> x, value |-> e]
ElementAssignment(x, i, e) == [kind |-> "element", name |-> x, index |-> i, value |-> e]
\* The target is neither a variable nor an element of one.
InvalidAssignment(e) == [kind |-> "invalid", value |-> e]
SimpleFor(iv, start, end, body) ==
  [kind |-> "for", iv |-> iv, start |-> start, end |-> end, body |-> body]
If(c, thenBranch, elseBranch) ==
  [kind |-> "if", condition |-> c, then |-> thenBranch, else |-> elseBranch]
Return(e) == [kind |-> "return", value |-> e]

\* arguments are the values that the parameters have in the run considered.
Function(parameters, arguments, body) ==
  [parameters |-> parameters, arguments |-> arguments, body |-> body]

-----------------------------------------------------------------------------
(* Scopes, here and in the lowering, are lists of <<name, value>>.  The     *)
(* last entry of a name is the one that is visible, and leaving a scope     *)
(* cuts the list to the length it had before.                               *)
Entries(names, Value(_)) == [k \in DOMAIN names |-> <<names[k], Value(names[k])>>]

NameList(scopes) == [k \in DOMAIN scopes |-> scopes[k][1]]

Names(scopes) == Range(NameList(scopes))

Innermost(scopes, x) ==
  CHOOSE k \in DOMAIN scopes : scopes[k][1] = x /\ \A m \in k + 1 .. Len(scopes) : scopes[m][1] # x

Lookup(scopes, x) == scopes[Innermost(scopes, x)][2]

Cut(scopes, length) == SubSeq(scopes, 1, length)

Updated(scopes, x, v) == [scopes EXCEPT ![Innermost(scopes, x)] = <<x, v>>]

-----------------------------------------------------------------------------
(* What programs mean. *)
RECURSIVE Value(_, _)
Value(e, scopes) ==
  CASE e.kind = "literal"  -> e.value
    [] e.kind = "variable" -> Lookup(scopes, e.name)
    [] e.kind = "binary"   -> Arith(e.op, Value(e.left, scopes), Value(e.right, scopes))
    [] e.kind = "index"    -> Value(e.target, scopes)[Value(e.index, scopes)]

RECURSIVE Execute(_, _)

\* A block in a scope of its own.
InScope(body, outer, entries) == Cut(FoldLeft(Execute, outer \o entries, body), Len(outer))

Execute(scopes, s) ==
  CASE s.kind = "declare" -> Append(scopes, <<s.name, Value(s.value, scopes)>>)
    [] s.kind = "assign"  -> Updated(scopes, s.name, Value(s.value, scopes))
    [] s.kind = "element" ->
         Updated(scopes, s.name,
                 [Lookup(scopes, s.name) EXCEPT ![Value(s.index, scopes)] = Value(s.value, scopes)])
    [] s.kind = "for"     ->
         FoldLeft(LAMBDA outer, k : InScope(s.body, outer, << <<s.iv, s.start + k - 1>> >>),
                  scopes, [k \in 1 .. s.end - s.start |-> k])
    [] s.kind = "if"      ->
         InScope(IF Value(s.condition, scopes) = 0 THEN s.else ELSE s.then, scopes, << >>)
    [] s.kind = "return"  -> Append(scopes, <<"return", Value(s.value, scopes)>>)

\* What a function returns.
Result(f) ==
  LET arguments == Entries(f.parameters, LAMBDA x : f.arguments[x])
  IN  Lookup(FoldLeft(Execute, arguments, f.body), "return")
=============================================================================
