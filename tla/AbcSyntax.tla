----------------------------- MODULE AbcSyntax -----------------------------
(***************************************************************************)
(* The C-like language of the legacy frontend: its tokens, its operators,  *)
(* and the trees that stand for its programs                               *)
(* (src/include/heco/legacy_ast/ast_parser/Tokens.h,                       *)
(* src/src/legacy_ast/ast_utilities/Operator.cpp).  A token is the string  *)
(* it is written as.  A tree has the name of its class, the children its   *)
(* class iterates over, and a tag, the words for what else it carries: an  *)
(* operator, an identifier, a value, a type.                               *)
(***************************************************************************)
EXTENDS Integers, Sequences, SequencesExt

CONSTANTS
  Identifier,    \* tokens that are identifiers
  LiteralClass   \* the class of the node for each token that is a literal

Keywords ==
  {"for", "if", "else", "return", "public", "secret", "rotate", "bool", "char", "int",
   "float", "double", "string", "void"}

ASSUME TokensAssumption ==
  /\ Identifier \cap Keywords = {}
  /\ DOMAIN LiteralClass \cap (Identifier \cup Keywords) = {}

EndOfFile == "end of file"

Types == {"bool", "char", "int", "float", "double", "string", "void"}

Literals == DOMAIN LiteralClass
Numbers == {l \in Literals : LiteralClass[l] \in {"LiteralInt", "LiteralFloat", "LiteralDouble"}}

UnaryOps == {"!", "~"}

\* Operators that the tokenizer knows and the AST has no name for.
UnsupportedOps == {"..", "\\", "<<", ">>"}

PostfixOps == {"++", "--"}

Level(op) ==
  CASE op \in UnaryOps                            -> 3
    [] op \in {"*", "/", "%", "***"}              -> 5
    [] op \in {"+", "-", "+++", "---"}            -> 6
    [] op \in {"<", "<=", ">", ">="}              -> 9
    [] op \in {"==", "!="}                        -> 10
    [] op = "&"                                   -> 11
    [] op = "^"                                   -> 12
    [] op = "|"                                   -> 13
    [] op = "&&"                                  -> 14
    [] op = "||"                                  -> 15

BinaryOps ==
  {"*", "/", "%", "***", "+", "-", "+++", "---", "<", "<=", ">", ">=", "==", "!=",
   "&", "^", "|", "&&", "||"}

\* comparePrecedence: positive if the first operator binds tighter.
ComparePrecedence(op1, op2) == Level(op2) - Level(op1)

IsRightAssociative(op) == op \in UnaryOps

-----------------------------------------------------------------------------
Tree(node, tag, kids) == [node |-> node, tag |-> tag, kids |-> kids]

Binary(op, l, r) == Tree("BinaryExpression", <<op>>, <<l, r>>)
Unary(op, e) == Tree("UnaryExpression", <<op>>, <<e>>)
Index(t, i) == Tree("IndexAccess", << >>, <<t, i>>)
Var(name) == Tree("Variable", <<name>>, << >>)
Lit(token) == Tree(LiteralClass[token], <<token>>, << >>)
Negative(token) == Tree(LiteralClass[token], <<"-", token>>, << >>)
=============================================================================
