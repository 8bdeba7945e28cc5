------------------------------- MODULE Parser -------------------------------
(***************************************************************************)
(* The parser of the legacy frontend                                       *)
(* (src/src/legacy_ast/ast_parser/Parser.cpp): recursive descent for       *)
(* statements, and for expressions the shunting-yard algorithm, with a     *)
(* stack of operands and one of operators in every call of                 *)
(* parseExpression.                                                        *)
(*                                                                         *)
(* The C++ call stack is the agenda: what is still to be done, the next    *)
(* thing first.  A call of a parse function replaces itself by the calls   *)
(* it makes.  The trees that the calls return are on one stack, values; a  *)
(* call that collects children remembers how high the stack was when it    *)
(* began, and so does parseExpression, whose operands are what has been    *)
(* put on the stack since.                                                 *)
(***************************************************************************)
EXTENDS AbcSyntax

CONSTANTS
  Source,      \* the programs: their tokens, and if known the trees they may be read as
  MaxGrowth    \* how often a token that is never consumed is seen before the model gives up

VARIABLES
  program,   \* what is parsed; the parser never changes it
  pos,       \* it: the place of the token that is next
  agenda, values,
  created,   \* parsedNodes
  outcome    \* of the whole call, once known

parserVars == <<program, pos, agenda, values, created, outcome>>

Outcomes == {"parsing", "parsed", "error", "undefined", "runaway"}

TokenAt(p) == IF p <= Len(program.tokens) THEN program.tokens[p] ELSE EndOfFile
Lookahead == TokenAt(pos)

-----------------------------------------------------------------------------
(* Things to do.  Build makes a node of all values above the base; for a   *)
(* node that the parser does not report it is Wrap.                        *)
Do(name) == [do |-> name, arg |-> 0]
Token(t) == [do |-> "token", arg |-> t]
From(name, base) == [do |-> name, arg |-> base]
Statement(gobble) == [do |-> "statement", arg |-> gobble]
Build(node, tag, base) == [do |-> "build", arg |-> [node |-> node, tag |-> tag, base |-> base, reported |-> TRUE]]
Wrap(node, base) == [do |-> "build", arg |-> [node |-> node, tag |-> << >>, base |-> base, reported |-> FALSE]]
Shunt(base, operators) == [do |-> "shunt", arg |-> [base |-> base, operators |-> operators]]
Check(base, operators, running) ==
  [do |-> "check", arg |-> [base |-> base, operators |-> operators, running |-> running]]
Cleanup(base, operators) == [do |-> "cleanup", arg |-> [base |-> base, operators |-> operators]]

Expression == Do("expression")
Here == Len(values)

Doing(name) == outcome = "parsing" /\ agenda # << >> /\ Head(agenda).do = name
Arg == Head(agenda).arg

Then(things) == agenda' = things \o Tail(agenda)

\* The call throws, or goes on in a way that C++ does not define.
Ends(how) == outcome' = how /\ UNCHANGED <<program, pos, agenda, values, created>>
Fail == Ends("error")

\* A call that only makes other calls.
Calls(things) == Then(things) /\ UNCHANGED <<program, pos, values, created, outcome>>

Init ==
  /\ program \in Source
  /\ pos = 1
  /\ agenda = <<Do("program")>> /\ values = << >>
  /\ created = << >>
  /\ outcome = "parsing"

\* Parser::parse
ParseProgram ==
  /\ Doing("program")
  /\ IF Lookahead # EndOfFile
     THEN Calls(<<Statement(TRUE), Do("program")>>)
     ELSE /\ values' = <<Tree("Block", << >>, values)>>
          /\ outcome' = "parsed"
          /\ Then(<< >>)
          /\ UNCHANGED <<program, pos, created>>

ParseTokenValue ==
  /\ Doing("token")
  /\ IF Lookahead = Arg
     THEN pos' = pos + 1 /\ Then(<< >>) /\ UNCHANGED <<program, values, created, outcome>>
     ELSE Fail

\* The end of a parse function: new Node(...), addParsedNode.
BuildNode ==
  /\ Doing("build")
  /\ LET t == Tree(Arg.node, Arg.tag, SubSeq(values, Arg.base + 1, Here))
     IN  /\ values' = Append(SubSeq(values, 1, Arg.base), t)
         /\ created' = IF Arg.reported THEN Append(created, t) ELSE created
  /\ Then(<< >>)
  /\ UNCHANGED <<program, pos, outcome>>

-----------------------------------------------------------------------------
(* Statements.                                                             *)

ParseStatement ==
  /\ Doing("statement")
  /\ LET semicolon == IF Arg THEN <<Token(";")>> ELSE << >>
     IN  Calls(CASE Lookahead = "for"    -> <<Do("for")>>
                 [] Lookahead = "if"     -> <<Do("if")>>
                 [] Lookahead = "return" -> <<Do("return")>> \o semicolon
                 [] Lookahead = "{"      -> <<Do("block")>>
                 [] Lookahead = "public" -> <<Do("function")>>
                 [] Lookahead \in Types \cup {"secret"} -> <<Do("declaration")>> \o semicolon
                 [] OTHER                -> <<Do("assignment")>> \o semicolon)

ParseFor ==
  /\ Doing("for")
  /\ Calls(<<Token("for"), Token("("), Do("initializer"), Expression, Token(";"),
             Do("update"), Token(")"), Do("block"), Build("For", << >>, Here)>>)

Listed(gobble) == [do |-> "listed", arg |-> [gobble |-> gobble, base |-> Here]]

ParseInitializer ==
  /\ Doing("initializer")
  /\ Calls(IF Lookahead = ";" THEN <<Token(";"), Wrap("Block", Here)>> ELSE <<Listed(TRUE)>>)

ParseUpdate ==
  /\ Doing("update")
  /\ Calls(IF Lookahead = ")" THEN <<Wrap("Block", Here)>> ELSE <<Listed(FALSE)>>)

\* The do-while over initializers or updates.  A comma is consumed only
\* from the third statement on.
ParseListed ==
  /\ Doing("listed")
  /\ LET n == Here - Arg.base
     IN  Calls(IF n = 0 \/ Lookahead = ","
               THEN (IF n > 1 THEN <<Token(",")>> ELSE << >>) \o <<Statement(Arg.gobble), Head(agenda)>>
               ELSE <<Wrap("Block", Arg.base)>>)

ParseBlock ==
  /\ Doing("block")
  /\ Calls(<<Token("{"), From("statements", Here)>>)

ParseStatements ==
  /\ Doing("statements")
  /\ Calls(IF Lookahead # "}" THEN <<Statement(TRUE), Head(agenda)>>
           ELSE <<Token("}"), Build("Block", << >>, Arg)>>)

ParseIf ==
  /\ Doing("if")
  /\ Calls(<<Token("if"), Token("("), Expression, Token(")"), Do("branch"), From("else", Here)>>)

\* parseBlockOrSingleStatement
ParseBranch ==
  /\ Doing("branch")
  /\ Calls(IF Lookahead = "{" THEN <<Do("block")>>
           ELSE <<Statement(TRUE), Build("Block", << >>, Here)>>)

ParseElse ==
  /\ Doing("else")
  /\ Calls((IF Lookahead = "else" THEN <<Token("else"), Do("branch")>> ELSE << >>)
             \o <<Build("If", << >>, Arg)>>)

ParseReturn ==
  /\ Doing("return")
  /\ Calls(<<Token("return"), From("returned", Here)>>)

ParseReturned ==
  /\ Doing("returned")
  /\ Calls((IF Lookahead = ";" THEN << >> ELSE <<Expression>>) \o <<Build("Return", << >>, Arg)>>)

ParseAssignment ==
  /\ Doing("assignment")
  /\ Calls(<<Do("target"), Token("="), Expression, Build("Assignment", << >>, Here)>>)

-----------------------------------------------------------------------------
(* parseDatatype: "secret" and a type; secret void is void.                *)
TypePlace == IF Lookahead = "secret" THEN pos + 1 ELSE pos

\* Mutant: what follows secret is not looked at.
IsDatatypeOrSecret == Lookahead \in Types \cup {"secret"}

IsDatatype == TokenAt(TypePlace) \in Types
Datatype ==
  IF Lookahead = "secret" /\ TokenAt(TypePlace) # "void"
  THEN <<"secret", TokenAt(TypePlace)>>
  ELSE <<TokenAt(TypePlace)>>

ParseDeclaration ==
  /\ Doing("declaration")
  /\ IF IsDatatype
     THEN /\ pos' = TypePlace + 1
          /\ Then(<<Do("variable"), Do("brackets"),
                    [do |-> "value", arg |-> [tag |-> Datatype, base |-> Here]]>>)
          /\ UNCHANGED <<program, values, created, outcome>>
     ELSE Fail

ParseBrackets ==
  /\ Doing("brackets")
  /\ Calls(IF Lookahead = "[" THEN <<Token("["), Token("]")>> ELSE << >>)

ParseValue ==
  /\ Doing("value")
  /\ Calls((IF Lookahead = ";" THEN << >> ELSE <<Token("="), Expression>>)
             \o <<Build("VariableDeclaration", Arg.tag, Arg.base)>>)

ParseFunction ==
  /\ Doing("function")
  /\ Calls(<<Token("public"), Do("signature")>>)

ParseSignature ==
  /\ Doing("signature")
  /\ IF IsDatatype /\ TokenAt(TypePlace + 1) \in Identifier
     THEN /\ pos' = TypePlace + 2
          /\ Then(<<Token("("), Do("parameters"), Do("block"),
                    Build("Function", Append(Datatype, TokenAt(TypePlace + 1)), Here)>>)
          /\ UNCHANGED <<program, values, created, outcome>>
     ELSE Fail

ParseParameters ==
  /\ Doing("parameters")
  /\ Calls(IF Lookahead # ")" THEN <<Do("parameter"), Do("parameters")>> ELSE <<Token(")")>>)

\* parseFunctionParameter: the comma after a parameter may be missing.
ParseParameter ==
  /\ Doing("parameter")
  /\ IF IsDatatype /\ TokenAt(TypePlace + 1) \in Identifier
     THEN LET t    == Tree("FunctionParameter", Append(Datatype, TokenAt(TypePlace + 1)), << >>)
              next == TypePlace + 2
          IN  /\ pos' = IF TokenAt(next) = "," THEN next + 1 ELSE next
              /\ values' = Append(values, t) /\ created' = Append(created, t)
              /\ Then(<< >>)
              /\ UNCHANGED <<program, outcome>>
     ELSE Fail

-----------------------------------------------------------------------------
(* Targets: a variable with any number of indices.                         *)

ParseTarget ==
  /\ Doing("target")
  /\ Calls(<<Do("variable"), From("indices", Here)>>)

\* Mutant: both of the nodes that parseVariable makes are reported.
ParseVariableTwice ==
  /\ Doing("variable")
  /\ IF Lookahead \in Identifier
     THEN /\ pos' = pos + 1
          /\ values' = Append(values, Var(Lookahead))
          /\ created' = created \o <<Var(Lookahead), Var(Lookahead)>>
          /\ Then(<< >>)
          /\ UNCHANGED <<program, outcome>>
     ELSE Fail

ParseVariable ==
  /\ Doing("variable")
  /\ IF Lookahead \in Identifier
     THEN /\ pos' = pos + 1
          /\ values' = Append(values, Var(Lookahead)) /\ created' = Append(created, Var(Lookahead))
          /\ Then(<< >>)
          /\ UNCHANGED <<program, outcome>>
     ELSE Fail

\* The accesses that a target with these indices is made of, inside out.
Accesses(collected) ==
  FoldLeft(LAMBDA made, i : Append(made, Index(IF made = << >> THEN Head(collected) ELSE Last(made), i)),
           << >>, Tail(collected))

ParseIndices ==
  /\ Doing("indices")
  /\ IF Lookahead = "["
     THEN Calls(<<Token("["), Expression, Token("]"), Head(agenda)>>)
     ELSE LET collected == SubSeq(values, Arg + 1, Here)
              made      == Accesses(collected)
          IN  /\ values' = Append(SubSeq(values, 1, Arg), IF made = << >> THEN Head(collected) ELSE Last(made))
              /\ created' = created \o made
              /\ Then(<< >>)
              /\ UNCHANGED <<program, pos, outcome>>

-----------------------------------------------------------------------------
(* Expressions: one iteration of the loop is what the next token asks for, *)
(* and the check for a unary operator.                                     *)

ParseExpression ==
  /\ Doing("expression")
  /\ Calls(<<Shunt(Here, << >>)>>)

Operators == Arg.operators
Operands == SubSeq(values, Arg.base + 1, Here)
Popped == Front(Operators)
Pushed(op) == Append(Operators, op)

\* Mutant: an equal operator on the stack has to wait.
ReducesStrictly(op1, op2) == ComparePrecedence(op1, op2) < 0

Reduces(op1, op2) ==
  \/ ~IsRightAssociative(op1) /\ ComparePrecedence(op1, op2) = 0
  \/ ComparePrecedence(op1, op2) < 0

\* The two operands on top become one.
Combine(op) ==
  LET t == Binary(op, values[Here - 1], values[Here])
  IN  values' = Append(SubSeq(values, 1, Here - 2), t) /\ created' = Append(created, t)

\* The operand on top is replaced.
Replace(t) == values' = [values EXCEPT ![Here] = t] /\ created' = Append(created, t)

AtBinary == Doing("shunt") /\ Lookahead \in BinaryOps
MustReduce == Operators # << >> /\ Reduces(Lookahead, Last(Operators))

RefuseOperator ==
  /\ Doing("shunt")
  /\ Lookahead \in UnsupportedOps
  /\ Fail

\* Whatever is on the operator stack is taken to have two operands.
ReduceBefore ==
  /\ AtBinary
  /\ MustReduce
  /\ IF Len(Operands) < 2
     THEN Ends("undefined")
     ELSE /\ Combine(Last(Operators))
          /\ Then(<<Shunt(Arg.base, Popped)>>)
          /\ UNCHANGED <<program, pos, outcome>>

ParseOperator ==
  /\ Doing("shunt")
  /\ Lookahead \in BinaryOps \cup UnaryOps
  /\ Lookahead \in BinaryOps => ~MustReduce
  /\ pos' = pos + 1
  /\ Then(<<Check(Arg.base, Pushed(Lookahead), TRUE)>>)
  /\ UNCHANGED <<program, values, created, outcome>>

\* The operator is applied, and the token stays: it will be seen again.
ParsePostfix ==
  /\ Doing("shunt")
  /\ Lookahead \in PostfixOps
  /\ CASE Operands = << >> -> Fail
       [] Operands # << >> /\ Len(created) > MaxGrowth + Len(program.tokens) -> Ends("runaway")
       [] OTHER ->
            /\ Replace(Binary(IF Lookahead = "++" THEN "+" ELSE "-", values[Here], Tree("LiteralInt", <<"1">>, << >>)))
            /\ Then(<<Check(Arg.base, Operators, TRUE)>>)
            /\ UNCHANGED <<program, pos, outcome>>

\* A minus with nothing before it belongs to the literal.  In front of true
\* and false it is dropped; in front of a string or a character it is an error.
IsSign == Operands = << >> /\ Operators # << >> /\ Last(Operators) = "-"

Signed(token) == IF IsSign /\ token \in Numbers THEN Negative(token) ELSE Lit(token)

ParseLiteral ==
  /\ Doing("shunt")
  /\ Lookahead \in Literals
  /\ IF IsSign /\ LiteralClass[Lookahead] \in {"LiteralString", "LiteralChar"}
     THEN Fail
     ELSE /\ pos' = pos + 1
          /\ values' = Append(values, Signed(Lookahead)) /\ created' = Append(created, Signed(Lookahead))
          /\ Then(<<Check(Arg.base, IF IsSign THEN Popped ELSE Operators, TRUE)>>)
          /\ UNCHANGED <<program, outcome>>

\* What another call of the parser returns is an operand.
ParseOperand ==
  LET check == <<Check(Arg.base, Operators, TRUE)>>
  IN  /\ Doing("shunt")
      /\ \/ Lookahead \in Identifier /\ Calls(<<Do("target")>> \o check)
         \/ Lookahead = "(" /\ Calls(<<Token("("), Expression, Token(")")>> \o check)
         \/ Lookahead = "{" /\ Calls(<<Token("{"), From("list", Here)>> \o check)
         \/ /\ Lookahead = "rotate"
            /\ Calls(<<Token("rotate"), Token("("), Expression, Token(","), Expression, Token(")"),
                       Build("Call", <<"rotate">>, Here)>> \o check)

\* parseExpressionList
ParseList ==
  /\ Doing("list")
  /\ Calls(<<Expression, From("next in list", Arg)>>)

ParseNextInList ==
  /\ Doing("next in list")
  /\ Calls(IF Lookahead = "," THEN <<Token(","), From("list", Arg)>>
           ELSE <<Token("}"), Build("ExpressionList", << >>, Arg)>>)

StartsOperand == Identifier \cup Literals \cup {"(", "{", "rotate"}

StopParsing ==
  /\ Doing("shunt")
  /\ Lookahead \notin StartsOperand \cup BinaryOps \cup UnaryOps \cup PostfixOps \cup UnsupportedOps
  /\ Calls(<<Check(Arg.base, Operators, FALSE)>>)

UnaryReady == Operators # << >> /\ IsRightAssociative(Last(Operators)) /\ Operands # << >>

\* Mutant: the loop goes on when it has been told to stop.
ApplyUnaryAndGoOn ==
  /\ Doing("check")
  /\ Then(<<Shunt(Arg.base, IF UnaryReady THEN Popped ELSE Operators)>>)
  /\ IF UnaryReady THEN Replace(Unary(Last(Operators), values[Here])) ELSE UNCHANGED <<values, created>>
  /\ UNCHANGED <<program, pos, outcome>>

ApplyUnary ==
  /\ Doing("check")
  /\ LET operators == IF UnaryReady THEN Popped ELSE Operators
     IN  Then(<<IF Arg.running THEN Shunt(Arg.base, operators) ELSE Cleanup(Arg.base, operators)>>)
  /\ IF UnaryReady THEN Replace(Unary(Last(Operators), values[Here])) ELSE UNCHANGED <<values, created>>
  /\ UNCHANGED <<program, pos, outcome>>

\* After the loop: the remaining operators, and one operand as the result.
CleanUp ==
  /\ Doing("cleanup")
  /\ IF Operators = << >>
     THEN IF Len(Operands) = 1 THEN Calls(<< >>) ELSE Fail
     ELSE IF Last(Operators) \in UnaryOps \/ Len(Operands) < 2
          THEN Fail
          ELSE /\ Combine(Last(Operators))
               /\ Then(<<Cleanup(Arg.base, Popped)>>)
               /\ UNCHANGED <<program, pos, outcome>>

ParseStep ==
  \/ ParseProgram \/ ParseTokenValue \/ BuildNode
  \/ ParseStatement \/ ParseFor \/ ParseInitializer \/ ParseUpdate \/ ParseListed
  \/ ParseBlock \/ ParseStatements \/ ParseIf \/ ParseBranch \/ ParseElse
  \/ ParseReturn \/ ParseReturned \/ ParseAssignment
  \/ ParseDeclaration \/ ParseBrackets \/ ParseValue
  \/ ParseFunction \/ ParseSignature \/ ParseParameters \/ ParseParameter
  \/ ParseTarget \/ ParseVariable \/ ParseIndices
  \/ ParseExpression \/ RefuseOperator \/ ReduceBefore \/ ParseOperator \/ ParsePostfix
  \/ ParseLiteral \/ ParseOperand \/ ParseList \/ ParseNextInList \/ StopParsing
  \/ ApplyUnary \/ CleanUp
=============================================================================
