----------------------------- MODULE AbcGrammar -----------------------------
(***************************************************************************)
(* What a program text means as a tree, independently of the parser: how   *)
(* trees are written, and which trees a sequence of tokens can be read as  *)
(* under the precedences of C++, which the parser's operators are to have  *)
(* ("Based on https://en.cppreference.com/w/cpp/language/                  *)
(* operator_precedence", Operator.cpp).                                    *)
(***************************************************************************)
EXTENDS AbcSyntax, FiniteSets

(***************************************************************************)
(* Writing.  Operands are put in parentheses where precedence asks for it. *)
(* The branches of an if are written without braces if they can be.        *)
(***************************************************************************)
LevelOf(t) == IF t.node = "BinaryExpression" THEN Level(t.tag[1])
              ELSE IF t.node = "UnaryExpression" THEN 3 ELSE 0

Parenthesized(s) == <<"(">> \o s \o <<")">>

Joined(parts, separator) ==
  FoldLeft(LAMBDA s, part : IF s = << >> THEN part ELSE s \o <<separator>> \o part, << >>, parts)

RECURSIVE Written(_)
Written(t) ==
  LET operand(k, level) == IF LevelOf(t.kids[k]) > level THEN Parenthesized(Written(t.kids[k]))
                           ELSE Written(t.kids[k])
      all == [k \in DOMAIN t.kids |-> Written(t.kids[k])]
  IN  CASE t.node = "BinaryExpression" ->
             operand(1, LevelOf(t)) \o t.tag \o operand(2, LevelOf(t) - 1)
        [] t.node = "UnaryExpression"  -> t.tag \o operand(1, 3)
        [] t.node = "IndexAccess"      -> all[1] \o <<"[">> \o all[2] \o <<"]">>
        [] t.node = "ExpressionList"   -> <<"{">> \o Joined(all, ",") \o <<"}">>
        [] t.node = "Call"             -> t.tag \o Parenthesized(Joined(all, ","))
        [] OTHER                       -> t.tag

MayStandAlone(block, beforeElse) ==
  /\ Len(block.kids) = 1
  /\ ~(beforeElse /\ block.kids[1].node = "If")
  /\ block.kids[1].node # "Block"

RECURSIVE Program(_)
Program(t) ==
  LET semicolon == <<";">>
      statements(b) == FoldLeft(LAMBDA s, kid : s \o Program(kid), << >>, b.kids)
      block(b) == <<"{">> \o statements(b) \o <<"}">>
      branch(b, beforeElse) == IF MayStandAlone(b, beforeElse) THEN statements(b) ELSE block(b)
      value(k) == IF Len(t.kids) < k THEN << >> ELSE <<"=">> \o Written(t.kids[k])
      update(s) == Written(s.kids[1]) \o <<"=">> \o Written(s.kids[2])
  IN  CASE t.node = "Block"      -> block(t)
        [] t.node = "Assignment" -> Written(t.kids[1]) \o value(2) \o semicolon
        [] t.node = "VariableDeclaration" ->
             t.tag \o Written(t.kids[1]) \o value(2) \o semicolon
        [] t.node = "Return"     ->
             <<"return">> \o (IF t.kids = << >> THEN << >> ELSE Written(t.kids[1])) \o semicolon
        [] t.node = "If" ->
             <<"if">> \o Parenthesized(Written(t.kids[1])) \o branch(t.kids[2], Len(t.kids) = 3)
               \o (IF Len(t.kids) = 3 THEN <<"else">> \o branch(t.kids[3], FALSE) ELSE << >>)
        [] t.node = "For" ->
             <<"for">> \o Parenthesized(
                 (IF t.kids[1].kids = << >> THEN semicolon ELSE statements(t.kids[1]))
                   \o Written(t.kids[2]) \o semicolon
                   \o Joined([k \in DOMAIN t.kids[3].kids |-> update(t.kids[3].kids[k])], ","))
               \o block(t.kids[4])
        [] t.node = "Function" ->
             <<"public">> \o t.tag
               \o Parenthesized(Joined([k \in 1 .. Len(t.kids) - 1 |-> t.kids[k].tag], ","))
               \o block(Last(t.kids))

\* A whole program: the statements of the outermost block, which has no braces.
Text(t) == FoldLeft(LAMBDA s, kid : s \o Program(kid), << >>, t.kids)

RECURSIVE Nodes(_)
Nodes(t) == {t} \cup UNION {Nodes(t.kids[k]) : k \in DOMAIN t.kids}

-----------------------------------------------------------------------------
(***************************************************************************)
(* Reading an expression: the operator that binds loosest, of several the  *)
(* last, splits it.                                                        *)
(***************************************************************************)
Open == {"(", "[", "{"}
Close == {")", "]", "}"}

Depth(s, i) ==
  Cardinality({k \in 1 .. i : s[k] \in Open}) - Cardinality({k \in 1 .. i : s[k] \in Close})

EndsOperand(token) == token \in Identifier \cup Literals \cup Close
BeginsOperand(token) == token \in Identifier \cup Literals \cup {"(", "{", "rotate"}

Infix(s) == {i \in 2 .. Len(s) : s[i] \in BinaryOps /\ EndsOperand(s[i - 1]) /\ Depth(s, i) = 0}

LoosestIn(s) ==
  CHOOSE i \in Infix(s) : \A k \in Infix(s) : Level(s[k]) < Level(s[i]) \/ (Level(s[k]) = Level(s[i]) /\ k <= i)

Inner(s) == SubSeq(s, 2, Len(s) - 1)

\* The whole of s is between the bracket it begins with and its partner.
Enclosed(s) ==
  Len(s) > 2 /\ s[1] = "(" /\ Last(s) = ")" /\ \A i \in 1 .. Len(s) : Depth(s, i) = 0 <=> i = Len(s)

RECURSIVE Trees(_)
Trees(s) ==
  IF Infix(s) # {}
  THEN LET i == LoosestIn(s)
       IN  {Binary(s[i], l, r) : l \in Trees(SubSeq(s, 1, i - 1)), r \in Trees(SubSeq(s, i + 1, Len(s)))}
  ELSE CASE Len(s) = 1 /\ s[1] \in Identifier -> {Var(s[1])}
         [] Len(s) = 1 /\ s[1] \in Literals   -> {Lit(s[1])}
         [] Len(s) = 2 /\ s[1] = "-" /\ s[2] \in Numbers -> {Negative(s[2])}
         [] Len(s) > 1 /\ s[1] \in UnaryOps   -> {Unary(s[1], e) : e \in Trees(Tail(s))}
         [] Enclosed(s)                       -> Trees(Inner(s))
         [] OTHER                             -> {}

-----------------------------------------------------------------------------
(***************************************************************************)
(* Where the shunting yard puts operators elsewhere than they are written: *)
(* a prefix operator that does not begin an expression, one after another, *)
(* a minus before anything but a number, an operator with no operand       *)
(* before or after it; and postfix operators.                              *)
(***************************************************************************)
Before(s, i) == IF i > 1 THEN s[i - 1] ELSE ";"
After(s, i) == IF i < Len(s) THEN s[i + 1] ELSE ";"

BeginsExpression(s, i) == Before(s, i) \in {"(", "[", "{", "=", ",", ";", "return"}

Misplaced(s) ==
  \E i \in DOMAIN s :
    \/ s[i] \in PostfixOps
    \/ s[i] \in UnaryOps /\ ~BeginsExpression(s, i)
    \/ s[i] \in BinaryOps /\ ~BeginsOperand(After(s, i))
    \/ /\ s[i] \in BinaryOps /\ ~EndsOperand(Before(s, i))
       /\ ~(s[i] = "-" /\ BeginsExpression(s, i) /\ After(s, i) \in Numbers)
=============================================================================
