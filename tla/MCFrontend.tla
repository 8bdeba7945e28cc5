----------------------------- MODULE MCFrontend -----------------------------
(***************************************************************************)
(* TLC's instance of the legacy frontend: expressions with all pairs of    *)
(* operators, statements in one another, all short sequences of a few      *)
(* tokens as right-hand sides, and programs with a token missing.          *)
(***************************************************************************)
EXTENDS Frontend

MCIdentifier == {"a", "b", "c", "x", "f"}

MCLiteralClass ==
  [l \in {"0", "1", "2.5", "true", "'c'"} |->
     CASE l = "2.5"  -> "LiteralDouble"
       [] l = "true" -> "LiteralBool"
       [] l = "'c'"  -> "LiteralChar"
       [] OTHER      -> "LiteralInt"]

OfTree(block) == [tokens |-> Text(block), trees |-> {block}, known |-> TRUE, parsed |-> TRUE]

Block(statements) == Tree("Block", << >>, statements)
Assign(target, e) == Tree("Assignment", << >>, <<target, e>>)
Declare(words, kids) == Tree("VariableDeclaration", words, kids)
Return(kids) == Tree("Return", << >>, kids)
List(kids) == Tree("ExpressionList", << >>, kids)
Rotate(e, k) == Tree("Call", <<"rotate">>, <<e, k>>)

a == Var("a")
b == Var("b")
c == Var("c")
x == Var("x")

-----------------------------------------------------------------------------
(* Expressions.                                                            *)
Pairs ==
  {Binary(o, Binary(p, a, b), c) : o \in BinaryOps, p \in BinaryOps}
    \cup {Binary(o, a, Binary(p, b, c)) : o \in BinaryOps, p \in BinaryOps}

FewOps == {"*", "-", "<", "&&"}

Triples ==
  UNION {{Binary(o, Binary(p, a, b), Binary(q, c, x)), Binary(o, a, Binary(p, Binary(q, b, c), x)),
          Binary(o, Binary(p, Binary(q, a, b), c), x), Binary(o, a, Binary(p, b, Binary(q, c, x))),
          Binary(o, Unary("!", Binary(p, a, b)), Binary(q, Negative("1"), x)),
          Unary("!", Binary(o, Index(a, Binary(p, b, c)), Binary(q, b, c)))} :
           o \in FewOps, p \in FewOps, q \in FewOps}

Others ==
  {Unary("~", Index(a, Unary("!", b))), Negative("2.5"), Binary("+", Lit("'c'"), Lit("true")),
   List(<<a>>), List(<<Negative("0"), List(<<a, b>>), Binary("+", a, b)>>),
   Rotate(Binary("*", a, b), Negative("1")), Binary("***", Rotate(a, b), Index(Index(x, a), Lit("1")))}
    \cup {Binary(o, Unary("!", a), b) : o \in FewOps}

Prefixed == {Binary(o, a, Unary("!", b)) : o \in FewOps}

Expressions == {OfTree(Block(<<Assign(x, e)>>)) : e \in Pairs \cup Triples \cup Others \cup Prefixed}

\* All sequences of at most n of these tokens, as the right-hand side.
AsValue(s) == <<"x", "=">> \o s \o <<";">>

Sequences(tokens, n) ==
  {[tokens |-> AsValue(s), trees |-> {Block(<<Assign(x, e)>>) : e \in Trees(s)}, known |-> TRUE, parsed |-> TRUE] :
     s \in UNION {[1 .. k -> tokens] : k \in 0 .. n}}

-----------------------------------------------------------------------------
(* Statements.                                                             *)
Less == Binary("<", a, Lit("1"))

Simple ==
  {Assign(x, a), Assign(Index(Index(x, a), b), Lit("1")), Declare(<<"secret", "int">>, <<a, Lit("0")>>),
   Declare(<<"float">>, <<b, Negative("2.5")>>), Declare(<<"bool">>, <<b>>), Return(<< >>), Return(<<Less>>),
   Assign(x, List(<<a, b>>))}

Step == Assign(a, Binary("+", a, Lit("1")))
Begin == Declare(<<"int">>, <<a, Lit("0")>>)

Branching(s, t) ==
  {Tree("If", << >>, <<Less, Block(<<s>>)>>), Tree("If", << >>, <<Less, Block(<<s>>), Block(<<t>>)>>)}

Looping(s) ==
  {Tree("For", << >>, <<Block(i), Less, Block(u), Block(<<s>>)>>) :
     i \in {<< >>, <<Begin>>}, u \in {<< >>, <<Step>>, <<Step, Step>>}}

Grouping(s, t) == {Block(<< >>), Block(<<s, t>>)}

Inner1 == {Assign(x, a), Return(<<Less>>)}
Compounds(s, t) == Branching(s, t) \cup Looping(s) \cup Grouping(s, t)

Nested ==
  UNION {Compounds(s, t) : s \in UNION {Compounds(u, Return(<< >>)) : u \in Inner1}, t \in Inner1}

Parameters ==
  {<< >>, <<<<"int", "a">>>>, <<<<"bool", "a">>, <<"double", "b">>>>, <<<<"secret", "int", "a">>>>}

Functions ==
  {Tree("Function", words, [k \in DOMAIN ps |-> Tree("FunctionParameter", ps[k], << >>)] \o <<Block(<<s, t>>)>>) :
     words \in {<<"void", "f">>, <<"secret", "int", "f">>}, ps \in Parameters,
     s \in Simple \cup Branching(Step, Step), t \in Inner1}

\* Whole programs.
Statements ==
  {OfTree(Block(<< >>))} \cup {OfTree(Block(<<s, t>>)) : s \in Simple, t \in Simple}
    \cup {OfTree(Block(<<s>>)) : s \in Nested \cup Functions}

\* One token is missing, or all from one on; what the rest means is not said.
Cut(p) ==
  {[tokens |-> s, trees |-> {}, known |-> FALSE, parsed |-> TRUE] :
     s \in UNION {{RemoveAt(p.tokens, k), SubSeq(p.tokens, 1, k)} : k \in DOMAIN p.tokens}}

Faulty ==
  UNION {Cut(OfTree(Block(<<s>>))) : s \in Functions \cup UNION {Looping(u) : u \in Branching(Step, Begin)}}

-----------------------------------------------------------------------------
(* Texts: all that are made of a few characters, which are only split into *)
(* tokens, and programs written with and without spaces and comments.      *)
Texts(characters, n) ==
  {[text |-> t, tokens |-> << >>, trees |-> {}, known |-> FALSE, parsed |-> FALSE] :
     t \in UNION {[1 .. k -> characters] : k \in 0 .. n}}

Spelled(p, separator) ==
  [p EXCEPT !.tokens = << >>] @@
    [text |-> FoldLeft(LAMBDA s, token : s \o Chars(token) \o Chars(separator), << >>, p.tokens)]

\* Separators may run into an operator, and tokens into one another.
IsSpelled(p, q) ==
  LET read == TokensOf(q.text) IN
    Len(read) = Len(p.tokens) /\ \A k \in DOMAIN read : read[k].token = p.tokens[k]

Spellings(programs) ==
  UNION {{q \in {Spelled(p, separator) : separator \in {"", " /**/", "//\n"}} : IsSpelled(p, q)} : p \in programs}

\* Programs that go on, or break off, with what is no token.
BrokenTexts ==
  {[text |-> Chars(t), tokens |-> << >>, trees |-> {}, known |-> TRUE, parsed |-> TRUE] :
     t \in {"1x", "x=1x;", "x=a;\"b", "if(a<1)x=a$;", "{x=a;}2.5.5", "/*"}}

MCTexts ==
  BrokenTexts
    \cup Texts({"+", "=", "<", "a", "1"}, 4) \cup Texts({"*", "-", "!", ".", "_"}, 4)
    \cup Texts({"/", "*", "\n", "a", "="}, 5)
    \cup Texts({"1", "0", ".", "f", "x", " "}, 4) \cup Texts({"\"", "\\", "n", "\n"}, 5)
    \cup Texts({"/", "\n", "1", NonAscii}, 3)
    \cup Spellings({OfTree(Block(<<Assign(x, e)>>)) : e \in Others} \cup {OfTree(Block(<<s>>)) : s \in Simple}
                     \cup {OfTree(Block(<<s>>)) : s \in Branching(Step, Step)})

MCSource ==
  Expressions \cup Statements \cup Faulty
    \cup Sequences({"a", "+", "*", "!", "(", ")"}, 4)
    \cup Sequences({"a", "-", "1", "++", "true", "<<"}, 3)
    \cup MCTexts
=============================================================================
